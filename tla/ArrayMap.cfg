CONSTANTS
    Align = 2
    HeaderSize = 2
    Width = 16
    Sizes <- MCSizes
    Index <- MCIndex
    Flags = {0, 1, 3}
    Byte = {0, 1}
    Zero = 0
    NONE = NONE
SPECIFICATION Spec
INVARIANTS
    TypeOK
    StaysInBlock
    ListedExact
PROPERTIES
    ImplementsBpfArray
CHECK_DEADLOCK FALSE
