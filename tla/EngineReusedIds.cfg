\* A client that gives several orders the same id and cancels them.
CONSTANTS
  NoLocation = NoLocation
  Symbols = {"BTCUSDT"}
  Symbol = "BTCUSDT"
  OrderIds = {1, 2}
  MinPrice = 1
  MaxPrice = 2
  Quantities = {1, 2}
  OrderTypes = {"LIMIT", "MARKET"}
  CancelIds = {1, 2}
  UniqueIds = FALSE
  MaxOrders = 3
SPECIFICATION FairSpec
PROPERTIES
  ProcessOrderReturns
  EveryIterationShrinks
