CONSTANTS
    ImmMod = 32
    Height = 24
    LastAddr = 24
    AluWordBits = 21
    AluImmBits = 5
    ShiftMod = 16
    And <- MCAnd
    Or <- MCOr
    Xor <- MCXor
    Alu <- MCAlu
    Baad <- MCBaad
    Images <- StoreImages
    Loaded <- MCLoaded
SPECIFICATION IssPipeSpec
INVARIANTS
    WrongPathHarmless
CHECK_DEADLOCK FALSE
