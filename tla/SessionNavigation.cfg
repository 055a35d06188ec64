SPECIFICATION NavigationSpec
CONSTANTS
  MaxDependencyDepth = 4
  MaxClosure = 4
  Tracks <- MCTracks
  Children <- MCChildren
  Fields = 1
  MaxRetained = 60
  SessionLimit = 3
  WorkingLimit = 14
  MaxUnits = 3
  MaxDepth = 2
  MaxFaults = 1
INVARIANTS
  RetentionBounded
  ReusedIsCurrent
  SweepHeals
  PresentedIsSettled
PROPERTIES
  FailureLeavesNoTrace
  PastUnaffected
CHECK_DEADLOCK FALSE
