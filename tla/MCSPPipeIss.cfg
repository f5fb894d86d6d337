CONSTANTS
    ImmMod = 64
    Height = 48
    LastAddr = 48
    AluWordBits = 22
    AluImmBits = 6
    ShiftMod = 16
    And <- MCAnd
    Or <- MCOr
    Xor <- MCXor
    Alu <- MCAlu
    Baad <- MCBaad
    Images <- IssImages
    Loaded <- MCLoaded
SPECIFICATION IssFairSpec
INVARIANTS
    KeepsRules
    RetireInOrder
    OperandsFresh
    EndsWell
PROPERTIES
    IssAgrees
    TraceAgrees
    TestsPass
CHECK_DEADLOCK FALSE
