SPECIFICATION Spec
CONSTANTS
  Runs <- MCRuns
  Inputs <- MCInputs
  BaseRef <- MCBaseRef
  PolicyRef = "policy"
  Faults <- MCFaults
  Serializing = {TRUE, FALSE}
INVARIANTS
  TypeOK
  OutputsTell
  NoPartialReport
  LeftoversWarned
  RevisionsAsAsked
PROPERTIES
  PassDelivered
  CheckedInputsIntact
  ReportOfThisRun
CHECK_DEADLOCK FALSE
