CONSTANTS
    HEADER_LENGTH = 2
    BufSize = 4
    Lengths = {0, 1, 3}
    NoHeader = NoHeader
    MaxSent = 3
SPECIFICATION FramingFairSpec
INVARIANTS
    FramingTypeOK
PROPERTIES
    ImplementsChannel
    AllHandled
CHECK_DEADLOCK FALSE
