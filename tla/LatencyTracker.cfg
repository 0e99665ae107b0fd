\* A ring of sixteen, wrapped round; by the 0-1 principle of sorting two
\* samples are enough.
CONSTANTS
  CAPACITY = 16
  Samples = {3, 7}
  PrintEvery = 3
  MaxSamples = 18
SPECIFICATION Spec
INVARIANTS
  TypeOK
  RingHoldsWindow
  ReportsPercentiles
\* The bound on samples ends every run.
CHECK_DEADLOCK FALSE
