---------------------------- MODULE MatchingStep ----------------------------
(***************************************************************************)
(* One iteration of the loop of MatchingEngine::processOrder               *)
(* (src/matchingengine.cpp): which branch a book b and the order o in hand *)
(* take, and what the branch does.  The buy loop (lines 30-65) and the     *)
(* sell loop (lines 69-106) are mirror images.                             *)
(***************************************************************************)
EXTENDS OrderBook

(* The best resting order that o could trade with. *)
Contra(b, o) == GetBest(b, Opposite(o.side))

LoopGuard(o) == o.remainingQuantity > 0

NoContra(b, o) == Contra(b, o).orderId = 0

StaleContra(b, o) ==
  ~ NoContra(b, o) /\ IsCancelled(b, Contra(b, o).orderId)

LiveContra(b, o) ==
  ~ NoContra(b, o) /\ ~ IsCancelled(b, Contra(b, o).orderId)

(* Mutant of OutOfReach: the sell loop compares like the buy loop. *)
OutOfReach_Mirrored(b, o) ==
  o.orderType = "LIMIT" /\ Better("BUY", Contra(b, o).price, o.price)

(* The best price is beyond the limit of o; a market order has no limit. *)
OutOfReach(b, o) ==
  o.orderType = "LIMIT" /\ Better(o.side, Contra(b, o).price, o.price)

MustRest(b, o) ==
  /\ LoopGuard(o)
  /\ o.orderType = "LIMIT"
  /\ NoContra(b, o) \/ (LiveContra(b, o) /\ OutOfReach(b, o))

MustExpire(b, o) == LoopGuard(o) /\ NoContra(b, o) /\ o.orderType = "MARKET"

MustSkip(b, o) == LoopGuard(o) /\ StaleContra(b, o)

MustTrade(b, o) == LoopGuard(o) /\ LiveContra(b, o) /\ ~ OutOfReach(b, o)
----------------------------------------------------------------------------
(* Mutant of TradeQuantity: the minimum is left out. *)
TradeQuantity_NoMin(b, o) == o.remainingQuantity

TradeQuantity(b, o) ==
  LET r == Contra(b, o)
  IN  IF o.remainingQuantity < r.remainingQuantity
      THEN o.remainingQuantity ELSE r.remainingQuantity

(* executeTrade, for one of its two orders. *)
Filled(o, q) ==
  [o EXCEPT !.remainingQuantity = @ - q,
            !.status = IF o.remainingQuantity = q THEN "FILLED"
                                                  ELSE "PARTIAL_FILL"]

(* Mutants of BookAfterTrade: the resting order is a copy of the one in    *)
(* the book; a resting order with nothing left stays on its level.         *)
BookAfterTrade_OnCopy(b, o) ==
  LET s == Opposite(o.side)
      r == Filled(Contra(b, o), TradeQuantity(b, o))
  IN  IF r.remainingQuantity = 0 THEN RemoveTop(b, s) ELSE b

BookAfterTrade_NotRemoved(b, o) ==
  LET s == Opposite(o.side)
      r == Filled(Contra(b, o), TradeQuantity(b, o))
  IN  [b EXCEPT !.levels[s][b.best[s]] = << r >> \o Tail(@)]

(* The book after the resting order has traded quantity q: it is updated   *)
(* in place at the front of its level, and removed when nothing is left.   *)
BookAfterTrade(b, o) ==
  LET s == Opposite(o.side)
      r == Filled(Contra(b, o), TradeQuantity(b, o))
      c == [b EXCEPT !.levels[s][b.best[s]] = << r >> \o Tail(@)]
  IN  IF r.remainingQuantity = 0 THEN RemoveTop(c, s) ELSE c

Trade == [buyOrderId : Nat, sellOrderId : Nat, price : Int, quantity : Nat,
          symbol : SymbolName]

(* The line that Logger::logTrade appends to trades.log: the price is      *)
(* always the seller's.                                                    *)
TradeOf(b, o) ==
  LET r    == Contra(b, o)
      buy  == IF o.side = "BUY" THEN o ELSE r
      sell == IF o.side = "BUY" THEN r ELSE o
  IN  [buyOrderId |-> buy.orderId, sellOrderId |-> sell.orderId,
       price |-> sell.price, quantity |-> TradeQuantity(b, o),
       symbol |-> sell.symbol]
=============================================================================
