SPECIFICATION CacheSpec
CONSTANTS
  o1 = o1
  o2 = o2
  n1 = n1
  n2 = n2
  k1 = k1
  k2 = k2
  v1 = v1
  v2 = v2
  Missing = Missing
  Damaged = Damaged
  Pending = Pending
  Idle = Idle
  NoOwner = NoOwner
  NoTx = NoTx
  Owners <- MCOwners
  Namespaces <- MCNamespaces
  Keys <- MCKeys
  Values <- MCValues
  Batches <- MCBatches
  MaxTokens = 3
  MaxCrashes = 2
SYMMETRY OwnersAndSpaces
INVARIANTS
  SingleConnection
  CommittedLeavesNoMarker
  InterruptionLeavesMarker
PROPERTIES
  ForeignUntouched
  AtomicBatches
