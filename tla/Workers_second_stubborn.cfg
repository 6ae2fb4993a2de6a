SPECIFICATION LiveSpec
CONSTANTS
  MaxWorkers = 2
  Stubborn = {2}
  WallClock = TRUE
  Menu <- ShutdownMenu
PROPERTY ShutdownEnds
CHECK_DEADLOCK FALSE
