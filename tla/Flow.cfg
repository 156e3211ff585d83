\* The smallest first window that reaches half of the reader's.
SPECIFICATION FairSpec
CONSTANTS
  PeerWindow = 3
  OurWindow = 7
  MaxDataFrame = 3
  ReadBuf = 2
  MaxWrite = 4
  Total = 8
  QueueCap = 2
  InboxCap = 2
INVARIANTS CreditConserved NoLostWakeup NoStall
PROPERTIES ImplementsByteStream WriteReturns AllDelivered
CHECK_DEADLOCK FALSE
