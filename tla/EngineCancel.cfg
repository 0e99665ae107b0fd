\* Cancels at any time between two calls, before, while or after the order rests.
CONSTANTS
  NoLocation = NoLocation
  Symbols = {"BTCUSDT"}
  Symbol = "BTCUSDT"
  OrderIds = {1, 2, 3}
  MinPrice = 1
  MaxPrice = 3
  Quantities = {1, 2}
  OrderTypes = {"LIMIT", "MARKET"}
  CancelIds = {1, 2, 3}
  UniqueIds = TRUE
  MaxOrders = 3
SPECIFICATION Spec
INVARIANTS
  PointerBounds
  RestingWellFormed
  IndexLocates
  FillsAccounted
PROPERTIES
  PriceTimePriority
  CancelIsFinal
