CONSTANTS
    ImmMod = 16
    AluWordBits = 20
    AluImmBits = 4
    ShiftMod = 16
    And <- MCAnd
    Or <- MCOr
    Xor <- MCXor
    Alu <- MCAlu
    Images <- WideImages
SPECIFICATION Spec
PROPERTIES
    TransferWhole
CHECK_DEADLOCK FALSE
