SPECIFICATION Spec
CONSTANTS
  Runs <- MCRuns
  Inputs <- MCInputs
  BaseRef <- MCBaseRef
  PolicyRef = "policy"
  Faults <- MCFaults
  Serializing = {TRUE}
INVARIANTS
  FixturesUntouched
CHECK_DEADLOCK FALSE
