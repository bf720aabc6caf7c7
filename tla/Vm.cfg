CONSTANTS
    Codes <- MCCodes
    ExtFuncs = {1}
    MAX_INSTS = 5
SPECIFICATION Spec
INVARIANTS
    TypeOK
    TranslateTotal
    JumpsFit
    SamePath
CHECK_DEADLOCK FALSE
