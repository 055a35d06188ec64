SPECIFICATION FairSpec
CHECK_DEADLOCK FALSE
CONSTANTS
  h264 = h264
  wav = wav
  Missing = Missing
  Damaged = Damaged
  Pending = Pending
  Rules <- MCRules
  IndexedRules <- MCIndexedRules
  Keys <- MCPages
  Values <- MCPages
  MaxUpdates = 3
INVARIANTS
  IndexPagesGenuine
  ActiveIsComplete
PROPERTIES
  FailureSurfaces
  WritesAreCollected
