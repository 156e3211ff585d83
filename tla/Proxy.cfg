SPECIFICATION FairSpec
CONSTANTS
  B = 8
  NameLens = {0, 1, 7, 8, 9}
  UserLens = {0, 1, 8}
  PassLens = {0, 1, 9}
  MaxBytes = 2
INVARIANTS TargetKept StreamKept RelayAccepted
PROPERTIES NegotiationEnds
CHECK_DEADLOCK FALSE
