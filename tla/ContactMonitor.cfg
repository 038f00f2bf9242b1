SPECIFICATION Spec
CONSTANTS
  MaxVersion = 7
  RMW = 1
  Lifetimes = {0}
  MaxSize = 8
  MaxTime = 1
  Versions = 4
  MaxSearches = 2
  Released = {1, 3}
INVARIANTS
  ObligationsKept
  RefusalsExplained
PROPERTY MapIsFrontier
CHECK_DEADLOCK FALSE
