SPECIFICATION Spec
CONSTANTS
  MaxSize = 14
  MaxLag = 1
  AuditLimit = 4
  Auditing = TRUE
INVARIANTS
  HonestQueryVerifies
  RetainedIsLog
  AuditorFollowsLog
