SPECIFICATION Spec
CONSTANTS
  Null = Null
  Metrics = {"cpu_instructions", "tx_size_bytes"}
  Capped = {"cpu_instructions"}
  Numbers = {0, 50, 100, 107, 110}
  Limited = {"limited"}
  RoundsUp <- MCRoundsUp
  Scenarios <- MCScenarios
INVARIANTS
  VerdictAsDocumented
  WorseNeverPasses
CHECK_DEADLOCK FALSE
