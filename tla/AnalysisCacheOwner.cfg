SPECIFICATION FairSpec
CHECK_DEADLOCK FALSE
CONSTANTS
  c1 = c1
  c2 = c2
  k1 = k1
  v1 = v1
  v2 = v2
  Missing = Missing
  Damaged = Damaged
  Pending = Pending
  Clients <- MCClients
  Keys <- MCKeys
  Values <- MCValues
  Requests <- MCRequests
  Bytes <- MCBytes
  MaxOutstanding = 2
  MaxRetained = 2
  MaxRequests = 2
INVARIANTS
  QueueBounded
  AnsweredNotCharged
  DrainedMeansAnswered
  ShutdownDrains
  NoLostWakeup
PROPERTIES
  ServiceSpec
  WaitingFlushDrains
  RequestsAnswered
  CallsReturn
