SPECIFICATION LiveSpec
CONSTANTS
  Owner = "loop"
  Senders = {}
  Reader = "reader"
  Nobody = "nobody"
  Max = 2
  Frames <- AnyFrames
  MaxFrames = 3
INVARIANTS MessagesWhole TimeoutKeeps ReadsAligned FramesWhole
PROPERTIES ReceiveEnds ReaderEnds
CHECK_DEADLOCK FALSE
