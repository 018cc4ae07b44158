CONSTANTS
  Sizes <- MCSizes
  Chunk = 3
  InSize = 3
  OutSize = 2
  DrainModes = {"off", "validate", "always"}
  MaxFails = 1
  Raised = Raised
SPECIFICATION Spec
INVARIANTS CleanCaptures NothingRaises
PROPERTIES AllOver ReadersEnd
CHECK_DEADLOCK FALSE
