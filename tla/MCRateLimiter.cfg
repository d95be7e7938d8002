CONSTANTS
  Client = {c1, c2}
  Cost = 2
  Burst = 2
  Window = 4
  MaxTime = 6
SYMMETRY Symmetry
SPECIFICATION Spec
INVARIANTS
  TypeOK
  RateBound
  Budget
PROPERTY ImplementsTokenBucket
CHECK_DEADLOCK FALSE
