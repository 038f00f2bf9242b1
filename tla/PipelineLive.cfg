SPECIFICATION FairSpec
CONSTANTS
  Labels = {a, b}
  LongLabels = {}
  Jobs = {j1, j2}
  NoJob = NoJob
  MaxClaim = 0
  MaxValues = 1
  MaxBatch = 2
  QueueCap = 1
  MaxPtr = 6
  MaxSize = 3
  MaxFaults = 1
  MaxErase = 1
PROPERTY Answered
CHECK_DEADLOCK FALSE
