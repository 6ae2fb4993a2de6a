SPECIFICATION LiveSpec
CONSTANTS
  Procs <- MCProcs
  Menu <- CallMenu
  Requested = 0
  MaxCalls <- CallBound
INVARIANTS
  TypeOK
  LateSendRejected
  FirstInFirstOut
  AnswerTellsTruth
PROPERTIES
  ImplementsBoundedQueue
  CloseWakes
  CancelWakes
CHECK_DEADLOCK FALSE
