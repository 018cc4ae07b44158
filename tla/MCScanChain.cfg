CONSTANTS
  Boards <- MCBoards
  ChainTable <- MCChainTable
  IrLen = 2
  IdLen = 2
  DmiLen = 2
  MaxSessions = 3
  MaxBreaks = 1
SPECIFICATION Spec
INVARIANTS TracksDevice LayoutMatchesChain FieldIsTargets
PROPERTY OnlyWholeWords
CHECK_DEADLOCK FALSE
