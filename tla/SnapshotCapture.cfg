SPECIFICATION FairSpec
CONSTANTS
  Keys <- MCKeys
  ConfigKeys = {1}
  BatchSize = 2
  MaxAttempts = 4
  MaxTransient = 1
  Supported = 28
  MaxLedger = 3
  Start = 1
  Chains <- MCChains
  MaxHelper = 2
  Modes <- MCModes
INVARIANTS
  TypeOK
  SnapshotConsistent
  SnapshotComplete
  HelperIdentified
  CausesAccounted
  RestartsPaid
  RowsOfThisAttempt
PROPERTIES
  AtomicSpec
  Terminates
  HealthyMeasured
