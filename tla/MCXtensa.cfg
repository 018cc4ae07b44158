SPECIFICATION Spec
CONSTANTS
    ARegs = 8
    Window = 4
    Inc = 2
    Scratch = 1
    Addresses <- Program
    Break = 2
    Touch <- Accesses
    Handlers <- Handler
    Entry = 10
    Exit = 11
    MaxRun = 3
    MaxOps = 4
    Word = 2
    Chunk = 4
    DramOrg = 40
    TrampSize = 3
    StackSize = 4
    CodeSizes <- Codes
    DataSizes <- Datas
CHECK_DEADLOCK FALSE
PROPERTIES ProgramIntact ArmedAtResume StepMovesOn AlgorithmRestored FunctionRestored LoadedImage
