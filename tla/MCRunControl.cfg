SPECIFICATION Spec
CHECK_DEADLOCK FALSE
CONSTANTS
  None = None
  Polls = 2
  Tools <- AllTools
  Programs <- BothPrograms
  MaxTools = 2
  MaxTroubles = 2
INVARIANTS CallKeepsSaved CalleeIsolated
PROPERTIES RegistersRead ReadingRestores FromRomRuns
