SPECIFICATION Spec
CONSTANTS
  Starters = {"first", "second"}
  Clients = {"first", "second", "base", "head"}
  Accounts = {"first", "second", "shared"}
  AccountOf <- MCAccountOf
  Aborting = {"head"}
  Casts <- MCCasts
  ProbeTime = 1
  RequestTime = 2
INVARIANTS
  TypeOK
  NothingLeftBehind
  ReadyMeansServed
  RefusedOnlyAfterLoss
PROPERTIES
  RemovalsJustified
  StartEnds
CHECK_DEADLOCK FALSE
