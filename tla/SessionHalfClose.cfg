\* Half-close.
SPECIFICATION Spec
CONSTANTS
  Window = 1
  ClientFrames = 2
  ServerFrames = 1
  QueueCap = 2
  InboxCap = 1
  FailBound = 0
  MayFail = {}
INVARIANTS EofMeansAll
CHECK_DEADLOCK FALSE
