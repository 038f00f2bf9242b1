SPECIFICATION Spec
CONSTANTS
  Labels = {a, b}
  LongLabels = {b}
  Jobs = {j1, j2, j3}
  NoJob = NoJob
  MaxClaim = 1
  MaxValues = 2
  MaxBatch = 2
  QueueCap = 2
  MaxPtr = 6
  MaxSize = 3
  MaxFaults = 0
  MaxErase = 1
SYMMETRY JobSymmetry
INVARIANTS SearchSeesTree CatchUpIsCommitted
PROPERTY ImplementsLog
CHECK_DEADLOCK FALSE
