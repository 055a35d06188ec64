SPECIFICATION Spec
CONSTANTS
  Files <- MCFiles
  HeaderLength = 2
  PollEvery = 3
  MaxRecords = 2
  MaxInspected = 3
  MaxCancels = 2
INVARIANTS
  FramesAsEnumerated
CHECK_DEADLOCK FALSE
