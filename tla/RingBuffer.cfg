\* A ring of four slots, refilled more than once.
CONSTANTS
  Messages = {m1, m2}
  SIZE = 4
  NoMessage = NoMessage
  Torn = Torn
  MaxPushes = 6
SPECIFICATION FairSpec
INVARIANTS
  TypeOK
  NoRace
PROPERTIES
  ImplementsBoundedQueue
  EveryOrderDelivered
\* The bound on pushes ends every run.
CHECK_DEADLOCK FALSE
