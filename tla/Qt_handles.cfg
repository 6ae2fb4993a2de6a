SPECIFICATION Spec
CONSTANTS
  Threads = {gui, other}
  NoThread = none
  Limits = {1}
  Menu <- Managed
  MaxObjects = 3
  MaxId = 3
  MaxSignals = 1
  MaxSpies = 1
SYMMETRY ThreadSymmetry
INVARIANTS
  OneMeaning
  HandleLasts
  ShutdownComplete
  OnlyStraysCross
CHECK_DEADLOCK FALSE
