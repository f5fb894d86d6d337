CONSTANTS
    ImmMod = 16
    AluWordBits = 20
    AluImmBits = 4
    ShiftMod = 16
    And <- MCAnd
    Or <- MCOr
    Xor <- MCXor
    Alu <- MCAlu
    Images <- MCImages
SPECIFICATION Spec
INVARIANTS
    OneUser
    CommonGround
    DoFresh
    AluCommonGround
PROPERTIES
    ArchSpec
CHECK_DEADLOCK FALSE
