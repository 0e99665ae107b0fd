\* Six levels through a ring of two, one crash and restart.
CONSTANTS
  NoLocation = NoLocation
  Malformed = Malformed
  NoOrder = NoOrder
  Symbols = {"BTCUSDT"}
  FeedSymbol = "BTCUSDT"
  OrderIds = {1, 2, 3, 4, 5, 6}
  MaxOrders = 6
  Capacity = 2
  MaxRestarts = 1
  Depths <- MCDepths
  SymbolConfig <- MCSymbolConfig
SPECIFICATION FairSpec
INVARIANTS
  TypeOK
  FeedInOrder
  ExecutedWithinOneUnit
  SnapshotsAccumulate
  BooksUncrossed
  OnlyLastLineLost
PROPERTIES
  ExchangeInSystem
  ServedInOrder
  BoundedWork
  EveryLevelProcessed
\* A process that has died is started again a bounded number of times.
CHECK_DEADLOCK FALSE
