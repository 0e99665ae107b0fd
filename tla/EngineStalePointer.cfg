\* The best pointer after a cancel.
CONSTANTS
  NoLocation = NoLocation
  Symbols = {"BTCUSDT"}
  Symbol = "BTCUSDT"
  OrderIds = {1, 2, 3}
  MinPrice = 1
  MaxPrice = 3
  Quantities = {1, 2}
  OrderTypes = {"LIMIT", "MARKET"}
  CancelIds = {1, 2, 3}
  UniqueIds = TRUE
  MaxOrders = 3
SPECIFICATION Spec
INVARIANTS
  BestIsBest
