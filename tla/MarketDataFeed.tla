--------------------------- MODULE MarketDataFeed ---------------------------
(***************************************************************************)
(* MarketDataFeed (src/marketdata.h, src/marketdata.cpp): the thread that  *)
(* reads depth messages and makes each of their levels an order.  A level  *)
(* is a pair of decimals, in units of 1/100 and 1/100000, or Malformed:    *)
(* what bid[0], the conversion to std::string or std::stod throws on.  A   *)
(* message is what its two range-for loops visit: a field that is absent   *)
(* or null has no levels (operator[] of json.hpp inserts a null), and one  *)
(* that is a single value has one malformed level.                         *)
(***************************************************************************)
EXTENDS OrderBook, DecimalConversion

CONSTANTS
  Depths,      \* the messages of the server that parse: [bids, asks]
  Malformed,   \* a level that is no pair of decimals
  NoOrder,     \* no order waits to be pushed
  FeedSymbol,  \* the symbol the feed was constructed with
  MaxOrders    \* bound: levels read

Level == [price : Nat, quantity : Nat]

Visits == [side : Side, level : Level \cup {Malformed}]

ASSUME FeedAssumption ==
  /\ \A d \in Depths : d.bids \in Seq(Level \cup {Malformed})
                         /\ d.asks \in Seq(Level \cup {Malformed})
  /\ Malformed \notin Level /\ NoOrder \notin Order
  /\ FeedSymbol \in SymbolName /\ MaxOrders \in Nat

VARIABLES
  levels,          \* what the loops of processMessage have still to visit
  outgoing,        \* the order processLevel is pushing, or NoOrder
  nextOrderId,
  processedCount,
  alive,           \* FALSE when an exception has ended the process
  offered          \* history: the levels of all messages, in order

FeedTypeOK ==
  /\ levels \in Seq(Visits) /\ offered \in Seq(Visits)
  /\ outgoing \in Order \cup {NoOrder}
  /\ nextOrderId \in Nat \ {0} /\ processedCount \in Nat
  /\ alive \in BOOLEAN

feedVars ==
  << levels, outgoing, nextOrderId, processedCount, alive, offered >>

FeedInit ==
  /\ levels = << >>
  /\ outgoing = NoOrder
  /\ nextOrderId = 1
  /\ processedCount = 0
  /\ alive = TRUE
  /\ offered = << >>

(* The constructor, when the program is started again. *)
FeedRestart ==
  /\ levels' = << >>
  /\ outgoing' = NoOrder
  /\ nextOrderId' = 1
  /\ processedCount' = 0
  /\ alive' = TRUE
  /\ offered' = << >>
----------------------------------------------------------------------------
OfSide(s, field) == [i \in DOMAIN field |-> [side |-> s, level |-> field[i]]]

(* The levels of a message in the order processMessage visits them. *)
Visited(d) == OfSide("BUY", d.bids) \o OfSide("SELL", d.asks)

(* Mutant of OrderOf: the cents of the price are cast away. *)
OrderOf_NoCents(v, id) ==
  LET n == ToInteger(v.level.quantity, 100000)
  IN  [side |-> v.side, symbol |-> FeedSymbol,
       price |-> ToInteger_CastFirst(v.level.price, 100), quantity |-> n,
       orderType |-> "LIMIT", orderId |-> id, remainingQuantity |-> n,
       status |-> "NEW"]

(* The order that processLevel makes of a level. *)
OrderOf(v, id) ==
  LET n == ToInteger(v.level.quantity, 100000)
  IN  [side |-> v.side, symbol |-> FeedSymbol,
       price |-> ToInteger(v.level.price, 100), quantity |-> n,
       orderType |-> "LIMIT", orderId |-> id, remainingQuantity |-> n,
       status |-> "NEW"]

Waiting == alive /\ levels = << >> /\ outgoing = NoOrder

(* runWebSocket reads a message and processMessage parses it. *)
Read(d) ==
  /\ Waiting
  /\ Len(offered) + Len(Visited(d)) <= MaxOrders
  /\ levels' = Visited(d)
  /\ offered' = offered \o Visited(d)
  /\ UNCHANGED << outgoing, nextOrderId, processedCount, alive >>

(* ws->read fails, or json::parse does, or the message is no object.       *)
(* Nothing catches the exception: the process ends, consumer and all.      *)
Fail ==
  /\ Waiting
  /\ alive' = FALSE
  /\ UNCHANGED << levels, outgoing, nextOrderId, processedCount, offered >>

(* A level in the middle of a message throws; those before it stay pushed. *)
Throw ==
  /\ alive /\ outgoing = NoOrder
  /\ levels # << >> /\ Head(levels).level = Malformed
  /\ alive' = FALSE
  /\ UNCHANGED << levels, outgoing, nextOrderId, processedCount, offered >>

(* Mutant of MakeOrder: the id is the number of orders pushed. *)
MakeOrder_CountAsId ==
  /\ alive /\ outgoing = NoOrder
  /\ levels # << >> /\ Head(levels).level # Malformed
  /\ outgoing' = OrderOf(Head(levels), processedCount)
  /\ nextOrderId' = nextOrderId + 1
  /\ levels' = Tail(levels)
  /\ UNCHANGED << processedCount, alive, offered >>

MakeOrder ==
  /\ alive /\ outgoing = NoOrder
  /\ levels # << >> /\ Head(levels).level # Malformed
  /\ outgoing' = OrderOf(Head(levels), nextOrderId)
  /\ nextOrderId' = nextOrderId + 1
  /\ levels' = Tail(levels)
  /\ UNCHANGED << processedCount, alive, offered >>

(* push has returned true.  Until then processLevel calls it again and     *)
(* again, which changes nothing here.                                      *)
Pushed ==
  /\ alive /\ outgoing # NoOrder
  /\ outgoing' = NoOrder
  /\ processedCount' = processedCount + 1
  /\ UNCHANGED << levels, nextOrderId, alive, offered >>

(* An iteration of processMessage up to push, or what ends it. *)
Visit == MakeOrder \/ Throw

Receive == Fail \/ \E d \in Depths : Read(d)
=============================================================================
