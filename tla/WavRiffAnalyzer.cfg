SPECIFICATION FairSpec
CONSTANTS
  Files <- MCFiles
  MaxRecords = 3
  MaxInspected = 2
  MaxCancels = 2
INVARIANTS
  GapsOnlyBehindCancelled
  RecordsSettled
PROPERTIES
  AnalysisEnds
CHECK_DEADLOCK FALSE
