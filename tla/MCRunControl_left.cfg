SPECIFICATION Spec
CHECK_DEADLOCK FALSE
CONSTANTS
  None = None
  Polls = 2
  Tools = {"info"}
  Programs <- BothPrograms
  MaxTools = 1
  MaxTroubles = 0
INVARIANT LeftIdentical
