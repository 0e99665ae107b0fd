----------------------------- MODULE MCExchange -----------------------------
(***************************************************************************)
(* An exchange with two symbols whose price ranges overlap but differ, and *)
(* clients that send sound orders, and one order with each defect.         *)
(***************************************************************************)
EXTENDS Exchange

MCSymbolConfig == [BTCUSDT |-> << 1, 2 >>, TCS |-> << 2, 4 >>]

An(side, symbol, price, quantity, type) ==
  [side |-> side, symbol |-> symbol, price |-> price, quantity |-> quantity,
   orderType |-> type, orderId |-> 0, remainingQuantity |-> quantity,
   status |-> "NEW"]

MCIncoming ==
  {An(s, "BTCUSDT", p, q, "LIMIT") : s \in Side, p \in 1 .. 2, q \in 1 .. 2}
    \cup {An(s, "TCS", p, 1, "LIMIT") : s \in Side, p \in {2, 4}}
    \cup {An("SELL", "BTCUSDT", 1, 2, "MARKET")}
    \cup {An("BUY", "ETHUSDT", 1, 1, "LIMIT"), An("BUY", "", 1, 1, "LIMIT"),
          An("SELL", "BTCUSDT", -1, 1, "LIMIT"), An("BUY", "BTCUSDT", 3, 1, "LIMIT"),
          An("SELL", "TCS", 1, 1, "LIMIT"), An("SELL", "TCS", 2, 0, "LIMIT"),
          [An("BUY", "TCS", 4, 2, "LIMIT") EXCEPT !.remainingQuantity = 1]}
=============================================================================
