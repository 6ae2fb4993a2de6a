SPECIFICATION LiveSpec
CONSTANTS
  Procs <- MCProcs
  Loop = "loop"
  Nonces = {"n1", "n2"}
  Guilds = {"g1", "g2"}
  Intents = {"members"}
  Requests <- MCRequests
  Sizes = {1}
  MaxChunkCount = 2
  EventLimit = 2
  Window = 2
  PendingLimit = 2
  ByteLimit = 2
  TTL = 1
  FullInterval = 2
  MaxQueries = 2
  MaxClock = 3
INVARIANTS
  TypeOK
  OneOutcome
  BytesAccounted
  NoCompletePending
  BudgetKept
PROPERTIES
  QueryEnds
CHECK_DEADLOCK FALSE
