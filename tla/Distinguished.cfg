SPECIFICATION Spec
SYMMETRY Symmetry
CONSTANTS
  MaxVersion = 7
  RMW = 2
  Lifetimes = {0}
  MaxSize = 6
  MaxTime = 2
  Versions = 1
  Clients = {c1, c2}
  MaxResponse = 3
INVARIANTS
  WalkVerifies
  RetainedAreDistinguished
  GossipTellsForks
  CredentialVerifies
  UpdateRefusedOnlyAtTerminal
CHECK_DEADLOCK FALSE
