CONSTANTS
    a = a
    b = b
    c = c
    s1 = s1
    s2 = s2
    s3 = s3
    Host <- MCHost
    Switch <- MCSwitch
    Port <- MCPort
    At <- MCAt
    Links <- MCLinks
    Toward <- MCToward
    Starts <- MCStarts
    Traffic <- MCTraffic
    BROADCAST = BROADCAST
    FLOOD = FLOOD
    CONTROLLER = CONTROLLER
    NONE = NONE
    MaxFrames = 3
SPECIFICATION FairSpec
INVARIANTS
    TypeOK
    LearnedRight
    OnceEach
PROPERTIES
    Arrives
CHECK_DEADLOCK FALSE
