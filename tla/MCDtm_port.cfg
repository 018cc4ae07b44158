CONSTANTS
  a1 = a1
  a2 = a2
  readKey = readKey
  writeKey = writeKey
  Unsampled = Unsampled
  Addr = {a1, a2}
  Data = {0, 1}
  MaxLatency = 3
  CanFault = FALSE
  Retries = 3
  IdleInit = 1
  MaxCalls = 4
  Batches <- MCNoBatches
SPECIFICATION FairSpec
INVARIANT NeverGivesUp
PROPERTIES ImplementsPort EveryCallEnds
CHECK_DEADLOCK FALSE
