SPECIFICATION ReaderSpec
CONSTANTS
  Payloads <- MCPayloads
  MaxFrames = 2
  Initial = 2
  Need = 6
  MaxFrame = 40
  MaxBytes = 80
INVARIANTS FramesInOrder Contents RoomToRead
PROPERTIES ReadsByFrames
CHECK_DEADLOCK FALSE
