SPECIFICATION Spec
CONSTANTS
  Height = 3
  MaxBatch = 3
  MaxEntries = 4
  MaxFailures = 1
  FirstKeys <- ZeroKeys
INVARIANTS
  RootIsContent
  LookupsVerify
  TransitionsVerify
CHECK_DEADLOCK FALSE
