SPECIFICATION Spec
CONSTANTS
  Labels = {a, b}
  LongLabels = {}
  Jobs = {j1, j2, j3}
  NoJob = NoJob
  MaxClaim = 1
  MaxValues = 2
  MaxBatch = 2
  QueueCap = 2
  MaxPtr = 6
  MaxSize = 3
  MaxFaults = 1
  MaxErase = 0
SYMMETRY JobSymmetry
INVARIANTS
  TypeOK
  HistoryContiguous
  ProofsMatchLog
  AuditReplay
  AckedIsCommitted
  CommittedIsIndexed
PROPERTY AppendOnly
CHECK_DEADLOCK FALSE
