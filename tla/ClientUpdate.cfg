SPECIFICATION Spec
CONSTANTS
  Clients = {c1, c2}
  Rounds = 2
  MaxEvents = 3
INVARIANTS
  AckedIsOwn
  NeverAhead
  CopiesPerLoss
PROPERTY Converges
CHECK_DEADLOCK FALSE
