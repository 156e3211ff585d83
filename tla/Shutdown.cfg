SPECIFICATION ShutdownFairSpec
CONSTANTS
    Workers = {w1, w2}
    Sessions = {s1, s2}
    InboundLinks = {l1, l2, l3}
INVARIANTS NoUseAfterReturn StopClosesLinks
PROPERTIES Exits
CHECK_DEADLOCK FALSE
