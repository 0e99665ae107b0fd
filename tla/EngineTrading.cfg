\* The engine as the program wires it: unique increasing ids, no cancel.
CONSTANTS
  NoLocation = NoLocation
  Symbols = {"BTCUSDT"}
  Symbol = "BTCUSDT"
  OrderIds = {1, 2, 3, 4}
  MinPrice = 1
  MaxPrice = 3
  Quantities = {1, 2}
  OrderTypes = {"LIMIT", "MARKET"}
  CancelIds = {}
  UniqueIds = TRUE
  MaxOrders = 4
SPECIFICATION Spec
INVARIANTS
  TypeOK
  NoCrossedBook
  BestIsBest
  LimitsRespected
PROPERTIES
  ImplementsLimitOrderBook
\* Clients may send no further order.
CHECK_DEADLOCK FALSE
