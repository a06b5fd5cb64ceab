SPECIFICATION Spec
CONSTANTS
  Jobs <- MCJobs
  Rev <- MCRev
  Metadata <- MCMetadata
  MaxHead = 2
  MaxRuns = 1
  PageSize = 1
  MaxOthers = 0
  Serializing = {FALSE}
PROPERTIES
  NeverOverwritesNewer
CHECK_DEADLOCK FALSE
