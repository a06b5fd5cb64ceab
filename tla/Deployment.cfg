SPECIFICATION Spec
CONSTANTS
  Runs <- MCRuns
  Shared = {"base", "head"}
  Contracts = {1, 2, 3}
  Wasms = {"w1", "w2"}
  Worlds <- MCWorlds
  Faults <- MCFaults
  MinTtl = 2
  Life = 3
INVARIANTS
  TypeOK
  DependenciesFirst
  SetupCommitted
  ReceiptsTrue
  ReusedOutlivesWindow
  FailureNamesDependents
  OneAccount
CHECK_DEADLOCK FALSE
