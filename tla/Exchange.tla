------------------------------ MODULE Exchange ------------------------------
(***************************************************************************)
(* Exchange::processOrder (src/exchange.cpp): it validates an order,       *)
(* creates the book and the engine of its symbol on first use, and calls   *)
(* that engine, whose loop takes the steps of MatchingStep on that book.   *)
(***************************************************************************)
EXTENDS MatchingStep

CONSTANTS
  SymbolConfig,   \* symbolConfig: the << lowest, highest >> price of each symbol
  Incoming,       \* what clients send, sound or not, but for its order id
  MaxOrders       \* bound: calls of processOrder

Configured  == DOMAIN SymbolConfig
Lowest(s)   == SymbolConfig[s][1]
Highest(s)  == SymbolConfig[s][2]

ASSUME ExchangeAssumption ==
  /\ Configured \subseteq Symbols /\ "" \notin Configured
  /\ \A s \in Configured :
       Lowest(s) \in Nat /\ Highest(s) \in Nat /\ Lowest(s) <= Highest(s)
  /\ Incoming \subseteq Order /\ \A o \in Incoming : o.status = "NEW"
  /\ MaxOrders \in Nat /\ 1 .. MaxOrders \subseteq OrderIds

VARIABLES
  books,      \* orderBooks: a book for each symbol that has had a valid order
  orders,     \* the order last passed to the engine of each symbol
  running,    \* the symbol whose engine is inside processOrder, or ""
  trades,     \* what logTrade was called with
  errors,     \* what logError was called with
  received    \* history: the orders passed to the exchange, in call order

vars == << books, orders, running, trades, errors, received >>

Reasons == {"symbol", "price", "quantity", "remaining"}

ErrorLine == [reason : Reasons, orderId : OrderIds]

(* A book only has orders and pointers in the price range of its symbol,   *)
(* and no symbol without a price range ever gets a book.                   *)
TypeOK ==
  /\ DOMAIN books \subseteq Configured
  /\ \A s \in DOMAIN books : books[s] \in Book(Lowest(s), Highest(s))
  /\ orders \in [Configured -> Order]
  /\ running \in DOMAIN books \cup {""}
  /\ trades \in Seq(Trade)
  /\ errors \in Seq(ErrorLine)
  /\ received \in Seq(Order)

Init ==
  /\ books = [s \in {} |-> NewBook(0, 0)]
  /\ orders = [s \in Configured |-> EmptyOrder]
  /\ running = ""
  /\ trades = << >>
  /\ errors = << >>
  /\ received = << >>
----------------------------------------------------------------------------
(* Mutants of Reason: the highest price is one too high; an unsigned       *)
(* quantity is never below zero.                                           *)
Reason_UpperOffByOne(o) ==
  IF o.symbol \notin Configured THEN "symbol"
  ELSE IF o.price \notin Lowest(o.symbol) .. Highest(o.symbol) + 1 THEN "price"
  ELSE IF o.quantity = 0 THEN "quantity"
  ELSE IF o.remainingQuantity # o.quantity THEN "remaining"
  ELSE "none"

Reason_NegativeQuantity(o) ==
  IF o.symbol \notin Configured THEN "symbol"
  ELSE IF o.price \notin Lowest(o.symbol) .. Highest(o.symbol) THEN "price"
  ELSE IF o.remainingQuantity # o.quantity THEN "remaining"
  ELSE "none"

(* Why the exchange rejects an order: the first check that fails.  The     *)
(* test for an empty symbol comes after symbolConfig has been found to     *)
(* hold the symbol, and never fails.                                       *)
Reason(o) ==
  IF o.symbol \notin Configured THEN "symbol"
  ELSE IF o.price < 0 \/ o.price \notin Lowest(o.symbol) .. Highest(o.symbol)
       THEN "price"
  ELSE IF o.quantity = 0 THEN "quantity"
  ELSE IF o.remainingQuantity # o.quantity THEN "remaining"
  ELSE "none"

(* Mutant of BookFor: each order gets a book of its own. *)
BookFor_AlwaysNew(s) == NewBook(Lowest(s), Highest(s))

(* The book of a symbol, created when the symbol has none. *)
BookFor(s) ==
  IF s \in DOMAIN books THEN books[s] ELSE NewBook(Lowest(s), Highest(s))

(* The feed numbers what it sends from 1 (marketdata.cpp:121). *)
Numbered(o) == [o EXCEPT !.orderId = Len(received) + 1]

Reject(o) ==
  /\ Reason(o) # "none"
  /\ errors' = Append(errors, [reason |-> Reason(o), orderId |-> o.orderId])
  /\ UNCHANGED << books, orders, running, trades >>

(* The first line of MatchingEngine::processOrder is its test for an order *)
(* that is cancelled already.                                              *)
Dispatch(o) ==
  /\ Reason(o) = "none"
  /\ books' = [s \in DOMAIN books \cup {o.symbol} |->
                 IF s = o.symbol THEN BookFor(s) ELSE books[s]]
  /\ orders' = [orders EXCEPT ![o.symbol] = o]
  /\ running' = IF IsCancelled(BookFor(o.symbol), o.orderId) THEN "" ELSE o.symbol
  /\ UNCHANGED << trades, errors >>

ProcessOrder(o) ==
  /\ running = ""
  /\ Len(received) < MaxOrders
  /\ received' = Append(received, o)
  /\ Reject(o) \/ Dispatch(o)
----------------------------------------------------------------------------
(* The steps of the engine that is running, on its book and order. *)

Rest ==
  /\ running # ""
  /\ MustRest(books[running], orders[running])
  /\ books' = [books EXCEPT ![running] = AddOrder(@, orders[running])]
  /\ running' = ""
  /\ UNCHANGED << orders, trades, errors, received >>

Expire ==
  /\ running # ""
  /\ MustExpire(books[running], orders[running])
  /\ orders' = [orders EXCEPT ![running].status = "CANCELLED"]
  /\ running' = ""
  /\ UNCHANGED << books, trades, errors, received >>

ExecuteTrade ==
  LET b == books[running]
      o == orders[running]
  IN  /\ running # ""
      /\ MustTrade(b, o)
      /\ books' = [books EXCEPT ![running] = BookAfterTrade(b, o)]
      /\ orders' = [orders EXCEPT ![running] = Filled(o, TradeQuantity(b, o))]
      /\ trades' = Append(trades, TradeOf(b, o))
      /\ UNCHANGED << running, errors, received >>

Return ==
  /\ running # ""
  /\ ~ LoopGuard(orders[running])
  /\ running' = ""
  /\ UNCHANGED << books, orders, trades, errors, received >>

(* The exchange offers no way to cancel, so the branch that drops a        *)
(* cancelled resting order (SkipCancelled of MatchingEngine) is dead here. *)
Loop == Rest \/ Expire \/ ExecuteTrade \/ Return

Next == (\E o \in Incoming : ProcessOrder(Numbered(o))) \/ Loop

Spec == Init /\ [][Next]_vars
----------------------------------------------------------------------------
(* An order that an engine can take: its price indexes a level of its      *)
(* book, and all of a positive quantity is still to be traded.             *)
Sound(o) ==
  /\ o.symbol \in Configured
  /\ o.price \in Lowest(o.symbol) .. Highest(o.symbol)
  /\ o.quantity > 0
  /\ o.remainingQuantity = o.quantity

SoundFor(s) == {o \in Order : Sound(o) /\ o.symbol = s}

Unsound == {o \in Order : ~ Sound(o)}

TradesOf(s) == {t \in Trade : t.symbol = s}

(* The elements of sequence q that set S holds, in their order. *)
Filter(q, S) ==
  LET f[n \in 0 .. Len(q)] ==
        IF n = 0 THEN << >>
        ELSE IF q[n] \in S THEN Append(f[n - 1], q[n]) ELSE f[n - 1]
  IN  f[Len(q)]

Explains(reason, o) ==
  \/ reason = "symbol" /\ o.symbol \notin Configured
  \/ /\ reason = "price" /\ o.symbol \in Configured
     /\ o.price < Lowest(o.symbol) \/ o.price > Highest(o.symbol)
  \/ reason = "quantity" /\ o.quantity = 0
  \/ reason = "remaining" /\ o.remainingQuantity # o.quantity

(* errors.log holds exactly one line for every order no engine could take, *)
(* in call order, each with a reason that holds of its order, and none for *)
(* the others: no order is dropped silently, none is logged and processed. *)
ErrorsExplained ==
  LET bad == Filter(received, Unsound)
  IN  /\ Len(errors) = Len(bad)
      /\ \A i \in DOMAIN errors :
           errors[i].orderId = bad[i].orderId /\ Explains(errors[i].reason, bad[i])

(* The engine of each symbol behaves as MatchingEngine does alone, fed     *)
(* with the sound orders of its symbol: whatever clients send, an engine   *)
(* never gets an order it cannot index, never sees the orders or the book  *)
(* of another symbol, and its book lasts from one call to the next.        *)
Engine(s) ==
  INSTANCE MatchingEngine WITH
    Symbol <- s, MinPrice <- Lowest(s), MaxPrice <- Highest(s),
    Quantities <- {o.quantity : o \in Incoming} \ {0}, OrderTypes <- OrderType,
    CancelIds <- {}, UniqueIds <- TRUE,
    book <- BookFor(s), order <- orders[s], busy <- running = s,
    trades <- Filter(trades, TradesOf(s)),
    received <- Filter(received, SoundFor(s)),
    cancelled <- {}

EnginesIndependent ==
  /\ \A s \in Configured : Engine(s)!Init
  /\ [][\A s \in Configured : [Engine(s)!Next]_(Engine(s)!vars)]_vars
=============================================================================
