SPECIFICATION Spec
CONSTANTS
  Threads = {"gui"}
  NoThread = "none"
  Limits = {1, 2}
  Menu <- SmallBuffer
  MaxObjects = 2
  MaxId = 2
  MaxSignals = 2
  MaxSpies = 1
INVARIANT NothingMissed
CHECK_DEADLOCK FALSE
