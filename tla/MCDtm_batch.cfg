CONSTANTS
  a1 = a1
  a2 = a2
  readKey = readKey
  writeKey = writeKey
  Unsampled = Unsampled
  Addr = {a1, a2}
  Data = {0, 1}
  MaxLatency = 3
  CanFault = TRUE
  Retries = 3
  IdleInit = 1
  MaxCalls = 3
  Batches <- MCBatches
SPECIFICATION Spec
INVARIANTS WriteStartedOnce ReadIsFresh CleanBatchIsExact
CHECK_DEADLOCK FALSE
