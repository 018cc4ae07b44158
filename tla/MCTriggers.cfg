CONSTANTS
  NTrig = 3
  Accepts <- MCAccepts
  Watches <- MCWatches
  Napot <- MCNapot
  Touches <- MCTouches
  MarksChain = FALSE
  MaxHandles = 3
  MaxFails = 1
  None = None
SPECIFICATION Spec
INVARIANTS HandlesMatchHart
PROPERTIES NoMissedHit ResumeLeavesHit
CHECK_DEADLOCK FALSE
