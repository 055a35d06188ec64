SPECIFICATION FairSpec
CONSTANTS
  Files <- MCFiles
  MaxRecords = 2
  MaxInspected = 4
  PollEvery = 2
  MaxMapped = 1
  MaxCancels = 2
INVARIANTS
  IndexIsFaithful
  NothingDropped
PROPERTIES
  AnalysisEnds
CHECK_DEADLOCK FALSE
