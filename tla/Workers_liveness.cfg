SPECIFICATION LiveSpec
CONSTANTS
  MaxWorkers = 2
  Stubborn = {1, 2}
  WallClock = TRUE
  Menu <- WaitMenu
PROPERTIES
  CleanupEnds
  InvocationEnds
CHECK_DEADLOCK FALSE
