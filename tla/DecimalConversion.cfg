\* All prices of BTCUSDT and a quarter of a million quantities.
CONSTANTS
  Ranges <- MCRanges
SPECIFICATION Spec
INVARIANTS
  AtMostOneUnitLow
\* The ranges end.
CHECK_DEADLOCK FALSE
