CONSTANTS
    ImmMod = 32
    Height = 32
    LastAddr = 32
    CycleMod = 6
    AluWordBits = 21
    AluImmBits = 5
    ShiftMod = 16
    And <- MCAnd
    Or <- MCOr
    Xor <- MCXor
    Alu <- MCAlu
    Baad <- MCBaad
    Images <- MCImages
    Loaded <- MCLoaded
SPECIFICATION IssFairSpec
INVARIANTS
    DataoutFresh
    Multiplies
PROPERTIES
    TransferUndisturbed
    WordPerInstruction
    ArchSpec
    IssAgrees
    TraceAgrees
    TestsPass
CHECK_DEADLOCK FALSE
