SPECIFICATION Spec
CONSTANTS
  Nothing = Nothing
  Closed = Closed
  Media = {"film"}
  Formats = {"container", "stream"}
  Detected <- MCDetected
  Layout <- MCLayout
  Child <- MCChild
  Containers = {"box"}
  Caching = TRUE
  Saved <- MCSaved
  MaxGeneration = 2
  MaxDepth = 2
  MaxActs = 3
CHECK_DEADLOCK FALSE
INVARIANTS
  ChainsLive
  RestoredUnlessPreempted
PROPERTIES
  SavedIsRoots
