CONSTANTS
    Height = 2
    MaxCalls = 2
    MaxClock = 7
    Baad <- MCBaad
    Words <- MCWords
    Writes = {9}
    Registers = {0, 1}
    MemList <- MCMemList
    Files <- MCFiles
SPECIFICATION Spec
INVARIANTS
    ExitsJustified
    StartsClean
PROPERTIES
    ServedAsPosted
CHECK_DEADLOCK FALSE
