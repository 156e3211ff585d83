\* Every pair of passwords, two concurrent callers.
SPECIFICATION FairSpec
CONSTANTS
  Callers = {c1, c2}
  Passwords = {"", "p", "q"}
INVARIANTS Authenticated RefusedOnlyIfClosed
PROPERTIES CallersReturn HandshakeEnds
CHECK_DEADLOCK FALSE
