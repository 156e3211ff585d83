SPECIFICATION FairSpec
CONSTANTS
  Calls = {c1, c2}
  Links = {l1, l2}
  PoolSize = 1
  None = None
INVARIANTS PoolBounded StopBounds AnswerFindsSession
PROPERTIES RegisteredAreReset
CHECK_DEADLOCK FALSE
