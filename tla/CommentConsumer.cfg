SPECIFICATION FairSpec
CONSTANTS
  Jobs <- MCJobs
  Rev <- MCRev
  Metadata <- MCMetadata
  MaxHead = 2
  MaxRuns = 2
  PageSize = 1
  MaxOthers = 1
  Serializing = {TRUE, FALSE}
INVARIANTS
  TypeOK
  OneReport
  CurrentReportStays
PROPERTIES
  OthersUntouched
  StartedStaleIsSilent
  SerialNeverOverwritesNewer
  JobsEnd
CHECK_DEADLOCK FALSE
