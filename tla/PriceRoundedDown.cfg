\* All prices of BTCUSDT.
CONSTANTS
  Ranges <- MCPriceRange
SPECIFICATION Spec
INVARIANTS
  Exact
\* The range ends.
CHECK_DEADLOCK FALSE
