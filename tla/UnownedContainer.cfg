SPECIFICATION Spec
CONSTANTS
  Starters = {"first", "second"}
  Clients = {"first", "second", "base", "head"}
  Accounts = {"first", "second", "shared"}
  AccountOf <- MCAccountOf
  Aborting = {"head"}
  Casts <- MCCasts
  ProbeTime = 1
  RequestTime = 2
PROPERTY
  UnownedPreserved
CHECK_DEADLOCK FALSE
