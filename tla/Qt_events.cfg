SPECIFICATION LiveSpec
CONSTANTS
  Threads = {"gui"}
  NoThread = "none"
  Limits = {1, 2}
  Menu <- Watched
  MaxObjects = 2
  MaxId = 2
  MaxSignals = 2
  MaxSpies = 2
INVARIANTS
  TypeOK
  EventsAreLive
  SignalsOnce
PROPERTIES
  SignalsArrive
CHECK_DEADLOCK FALSE
