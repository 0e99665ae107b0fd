-------------------------- MODULE MCConversionSweep --------------------------
(***************************************************************************)
(* Every price of BTCUSDT (exchange.h:14) in cents, and every quantity up  *)
(* to 2.5 BTC in the five decimals that are kept.                          *)
(***************************************************************************)
EXTENDS ConversionSweep

MCPrices ==
  [scale |-> 100, first |-> 6000000, last |-> 7000000, firstLow |-> 6553601]

MCQuantities ==
  [scale |-> 100000, first |-> 1, last |-> 250000, firstLow |-> 7]

MCRanges == {MCPrices, MCQuantities}

MCPriceRange == {MCPrices}
=============================================================================
