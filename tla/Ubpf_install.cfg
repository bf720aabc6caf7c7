CONSTANTS
    pA = pA
    pB = pB
    pC = pC
    pElf = pElf
    pText = pText
    pCode = pCode
    s1 = s1
    s2 = s2
    s3 = s3
    s4 = s4
    n1 = n1
    n2 = n2
    n3 = n3
    d1 = d1
    d2 = d2
    Program <- MCProgram
    Symbol <- MCSymbol
    Name <- MCName
    Trunc <- MCTrunc
    Tables <- MCTables
    TableDef <- MCTableDef
    Fault <- MCFault
    MAX_MAPS = 3
    TABLE_MAX_ENTRIES = 2
    NULL = NULL
    FREED = FREED
    META = META
    MaxOrphans = 1
SPECIFICATION Spec
INVARIANTS
    TypeOK
    RegistrySound
    ProgramUsesItsTables
    NeverCallsNull
    TablesFitReply
CHECK_DEADLOCK FALSE
