SPECIFICATION Spec
CONSTANTS
  MaxWorkers = 2
  Stubborn = {1}
  WallClock = TRUE
  Menu <- Facilities
INVARIANTS
  TypeOK
  JoinSeesOutcome
  NobodyDetached
  SuccessHidesNothing
  ReportsFirst
  GroupWaitTells
CHECK_DEADLOCK FALSE
