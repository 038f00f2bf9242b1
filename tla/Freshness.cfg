SPECIFICATION Spec
CONSTANTS
  Clients = {c1}
  MaxAhead = 1
  MaxBehind = 3
  MaxLag = 2
  Interval = 2
  Auditing = TRUE
  MaxSkew = 1
  StepsBack = 1
  MaxFaults = 1
  MaxSize = 4
  MaxTime = 5
INVARIANTS
  RefusedOnlyWhenIdle
  SignedIsMonotone
PROPERTY AuditorHeadServed
CHECK_DEADLOCK FALSE
