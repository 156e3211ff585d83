\* A peer that dies on an idle link, one that answers on a busy link, and answers
\* that arrive late behind a session that is not read;
\* two ends that both ping through full queues.
SPECIFICATION HeartbeatFairSpec
CONSTANTS
  TickLen = 1
  PingInterval = 3
  PongTimeout = 4
  MaxDelay = 1
  QueueCap = 2
  Waiters = 1
  Scenarios = {"dying peer", "busy link", "busy link, slow reader", "busy link, both ping"}
INVARIANTS PongRecent NoFalseTimeout
PROPERTIES JamEnds
CHECK_DEADLOCK FALSE
