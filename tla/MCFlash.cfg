SPECIFICATION Spec
CHECK_DEADLOCK FALSE
CONSTANTS
  None = None
  Sectors = 5
  W = 2
  Bits = {1}
  BlockSectors = 2
  Attempts = 3
  FlashInits <- Contents
  Ops <- AllOps
  MaxFaults = 2
  CrcMax = 2
INVARIANTS NothingLeftRunning
PROPERTIES ImplementsArray GateFirst CleanRunExact OperationEnds
