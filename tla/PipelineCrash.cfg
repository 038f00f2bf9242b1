SPECIFICATION Spec
CONSTANTS
  Labels = {a, b}
  LongLabels = {}
  Jobs = {j1, j2, j3}
  NoJob = NoJob
  MaxClaim = 0
  MaxValues = 1
  MaxBatch = 2
  QueueCap = 2
  MaxPtr = 6
  MaxSize = 3
  MaxFaults = 1
  MaxErase = 0
SYMMETRY JobSymmetry
INVARIANT SearchSeesTree
CHECK_DEADLOCK FALSE
