\* Two symbols, sound orders and one order with each defect.
CONSTANTS
  NoLocation = NoLocation
  Symbols = {"BTCUSDT", "TCS", "ETHUSDT"}
  OrderIds = {1, 2, 3, 4}
  SymbolConfig <- MCSymbolConfig
  Incoming <- MCIncoming
  MaxOrders = 4
SPECIFICATION Spec
INVARIANTS
  TypeOK
  ErrorsExplained
PROPERTIES
  EnginesIndependent
\* Clients may send no further order.
CHECK_DEADLOCK FALSE
