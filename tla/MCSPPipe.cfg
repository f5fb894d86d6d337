CONSTANTS
    ImmMod = 32
    Height = 24
    AluWordBits = 21
    AluImmBits = 5
    ShiftMod = 16
    And <- MCAnd
    Or <- MCOr
    Xor <- MCXor
    Alu <- MCAlu
    Baad <- MCBaad
    Images <- WildImages
SPECIFICATION Spec
INVARIANTS
    NoConflict
    FrontInStep
    PortFresh
    WordAtPc
    R0Zero
CHECK_DEADLOCK FALSE
