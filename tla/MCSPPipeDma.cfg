CONSTANTS
    ImmMod = 64
    Height = 48
    LastAddr = 48
    AluWordBits = 22
    AluImmBits = 6
    ShiftMod = 16
    And <- MCAnd
    Or <- MCOr
    Xor <- MCXor
    Alu <- MCAlu
    Baad <- MCBaad
    Images <- DmaImages
SPECIFICATION FairSpec
INVARIANTS
    KeepsRules
    NoOverrun
    BusyHasWriter
PROPERTIES
    DmaInStep
    DmaRate
    RetiresSoon
    DmaEnds
    TestsPass
CHECK_DEADLOCK FALSE
