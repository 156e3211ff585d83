\* Every failure the model has, a window that three frames in each direction
\* fill, so that the jam of both inboxes is reached, and a fourth frame of the
\* client, which may have to wait for credit.
SPECIFICATION FairSpec
CONSTANTS
  Window = 3
  ClientFrames = 4
  ServerFrames = 3
  QueueCap = 1
  InboxCap = 1
  FailBound = 1
  MayFail = {"link", "local", "connect"}
INVARIANTS OrderedDelivery NoDataAfterClose PeerCloseIsReal NoLeak
PROPERTIES ServerShutStays SessionEnds
CHECK_DEADLOCK FALSE
