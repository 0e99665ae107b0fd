--------------------------- MODULE MCTradingSystem ---------------------------
(***************************************************************************)
(* A server that sends the two prices that become one, quantities that     *)
(* lose a unit, a level outside the price range and a malformed level in   *)
(* the middle of a message.                                                *)
(***************************************************************************)
EXTENDS TradingSystem

MCSymbolConfig == [BTCUSDT |-> << 6553598, 6553602 >>]

L(p, q) == [price |-> p, quantity |-> q]

MCDepths ==
  {[bids |-> << L(6553600, 7) >>, asks |-> << L(6553601, 2) >>],
   [bids |-> << L(6553599, 2) >>, asks |-> << L(6553600, 1), L(6553602, 13) >>],
   [bids |-> << >>, asks |-> << L(6553599, 7), Malformed >>],
   [bids |-> << L(6553700, 1), L(6553602, 3) >>, asks |-> << >>]}
=============================================================================
