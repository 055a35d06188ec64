SPECIFICATION Spec
CONSTANTS
  Files <- MCFiles
  MaxRecords = 3
  MaxInspected = 2
  MaxCancels = 1
INVARIANT
  EveryRecordPublished
CHECK_DEADLOCK FALSE
