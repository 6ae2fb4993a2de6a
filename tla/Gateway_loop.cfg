SPECIFICATION LoopLiveSpec
CONSTANTS
  Owner = "loop"
  Senders = {"worker"}
  Reader = "reader"
  Nobody = "nobody"
  Max = 2
  Frames <- GatewayFrames
  MaxFrames = 3
INVARIANTS LoopTypeOK HungUpForGood 
PROPERTY SilenceEnds
CHECK_DEADLOCK FALSE
