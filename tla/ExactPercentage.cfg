SPECIFICATION Spec
CONSTANTS
  Null = Null
  Metrics = {"cpu_instructions", "tx_size_bytes"}
  Capped = {"cpu_instructions"}
  Numbers = {100, 107}
  Limited = {"limited"}
  RoundsUp <- MCRoundsUp
  Scenarios <- MCScenarios
INVARIANTS
  ExactPercentagePasses
CHECK_DEADLOCK FALSE
