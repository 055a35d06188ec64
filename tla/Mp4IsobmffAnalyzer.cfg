SPECIFICATION FairSpec
CONSTANTS
  Boxes <- MCBoxes
  AnyBox <- MCAnyBox
  MaxRecords = 2
  MaxNesting = 1
  PageSizes = {1, 2}
  MaxNodes = 10
  MaxCancels = 2
INVARIANTS
  EntriesInPlace
  NoRecordLost
PROPERTIES
  AnalysisEnds
  PublicationSpec
CHECK_DEADLOCK FALSE
