--------------------------- MODULE LimitOrderBook ---------------------------
(***************************************************************************)
(* What a matching engine with price-time priority promises (README.md,    *)
(* "matches orders using price-time priority"), with no price levels, no   *)
(* pointers and no index: a set of resting orders, and an incoming order   *)
(* that trades with the best of them as long as one is within its limit.   *)
(* Order ids increase with arrival, so they stand for time.                *)
(***************************************************************************)
EXTENDS OrderBook

CONSTANT Incoming   \* the orders that may arrive

VARIABLES
  resting,     \* the set of resting orders
  order,       \* the incoming order
  busy,        \* the incoming order is being matched
  trades,      \* the trades made so far
  cancelled    \* the ids withdrawn so far

vars == << resting, order, busy, trades, cancelled >>

Init ==
  /\ resting = {}
  /\ order = EmptyOrder
  /\ busy = FALSE
  /\ trades = << >>
  /\ cancelled = {}

(* Of two orders resting on the same side, r executes before q. *)
Ahead(r, q) ==
  \/ Better(r.side, r.price, q.price)
  \/ r.price = q.price /\ r.orderId < q.orderId

WithinLimit(o, r) ==
  o.orderType = "LIMIT" => ~ Better(o.side, r.price, o.price)

Candidates == {r \in resting : r.side # order.side /\ WithinLimit(order, r)}

Take(o, q) ==
  [o EXCEPT !.remainingQuantity = @ - q,
            !.status = IF q = o.remainingQuantity THEN "FILLED"
                                                  ELSE "PARTIAL_FILL"]

Arrive(o) ==
  /\ ~ busy
  /\ order' = o
  /\ busy' = (o.orderId \notin cancelled)
  /\ UNCHANGED << resting, trades, cancelled >>

Match(r) ==
  /\ busy /\ order.remainingQuantity > 0
  /\ \A q \in Candidates \ {r} : Ahead(r, q)
  /\ \E n \in {order.remainingQuantity, r.remainingQuantity} :
       /\ n <= order.remainingQuantity /\ n <= r.remainingQuantity
       /\ order' = Take(order, n)
       /\ resting' = (resting \ {r}) \cup
                     {x \in {Take(r, n)} : x.remainingQuantity > 0}
       /\ \E buy, sell \in {order, r} :
            /\ buy.side = "BUY" /\ sell.side = "SELL"
            /\ trades' = Append(trades,
                 [buyOrderId |-> buy.orderId, sellOrderId |-> sell.orderId,
                  price |-> sell.price, quantity |-> n,
                  symbol |-> sell.symbol])
  /\ UNCHANGED << busy, cancelled >>

(* The incoming order is done: nothing of it is left, or nothing is left   *)
(* for it to trade with.  What is left of a limit order rests; what is     *)
(* left of a market order is cancelled.                                    *)
Close ==
  /\ busy
  /\ order.remainingQuantity = 0 \/ Candidates = {}
  /\ busy' = FALSE
  /\ \/ /\ order.remainingQuantity = 0
        /\ UNCHANGED << resting, order >>
     \/ /\ order.remainingQuantity > 0 /\ order.orderType = "LIMIT"
        /\ resting' = resting \cup {order}
        /\ UNCHANGED order
     \/ /\ order.remainingQuantity > 0 /\ order.orderType = "MARKET"
        /\ order' = [order EXCEPT !.status = "CANCELLED"]
        /\ UNCHANGED resting
  /\ UNCHANGED << trades, cancelled >>

Withdraw(id) ==
  /\ ~ busy
  /\ resting' = {r \in resting : r.orderId # id}
  /\ cancelled' = cancelled \cup {id}
  /\ UNCHANGED << order, busy, trades >>

Next ==
  \/ \E o \in Incoming : Arrive(o)
  \/ \E r \in Candidates : Match(r)
  \/ Close
  \/ \E id \in OrderIds : Withdraw(id)

Spec == Init /\ [][Next]_vars
=============================================================================
