SPECIFICATION LoopSpec
CONSTANTS
  Owner = "loop"
  Senders = {}
  Reader = "reader"
  Nobody = "nobody"
  Max = 2
  Frames <- TerminalFrames
  MaxFrames = 2
INVARIANT TerminalCodeStops
CHECK_DEADLOCK FALSE
