\* How a cancel removes its order.
CONSTANTS
  NoLocation = NoLocation
  Symbols = {"BTCUSDT"}
  Symbol = "BTCUSDT"
  OrderIds = {1, 2}
  MinPrice = 1
  MaxPrice = 3
  Quantities = {1, 2}
  OrderTypes = {"LIMIT", "MARKET"}
  CancelIds = {1, 2}
  UniqueIds = TRUE
  MaxOrders = 2
SPECIFICATION Spec
PROPERTIES
  LazyDeletion
