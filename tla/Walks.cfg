SPECIFICATION Spec
CONSTANTS
  MaxVersion = 31
  MaxNumber = 34
  RMW = 2
  Lifetimes = {0, 2}
  MaxSize = 6
  MaxTime = 2
  Versions = 4
INVARIANTS
  HonestSearchVerifies
  SearchFindsVersion
  GreatestNeverExpires
  MaterialRetained
  OwnerInitVerifies
  UnexpectedVersionNoticed
  LaddersAgree
  IndexTreesAgree
CHECK_DEADLOCK FALSE
