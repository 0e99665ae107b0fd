\* Four slots, returned in every order and overwritten in between.
CONSTANTS
  POOL_SIZE = 4
  Null = Null
SPECIFICATION Spec
INVARIANTS
  TypeOK
  FreeListIntact
PROPERTIES
  ImplementsSlotPool
