CONSTANTS
  Size = 3
  MaxWords = 2
  MaxCalls = 2
  MaxBusy = 2
SPECIFICATION Spec
INVARIANTS ReadExact WriteExact OnlyTargetWritten
CHECK_DEADLOCK FALSE
