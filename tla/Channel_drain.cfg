SPECIFICATION Spec
CONSTANTS
  Procs <- MCProcs
  Menu <- CallMenu
  Requested = 1
  MaxCalls <- CallBound
PROPERTY ClosedOnlyWhenEmpty
CHECK_DEADLOCK FALSE
