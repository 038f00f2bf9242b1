SPECIFICATION Spec
CONSTANTS
  MaxSize = 9
  MaxLag = 3
  AuditLimit = 4
  Auditing = TRUE
INVARIANT HonestQueryVerifies
