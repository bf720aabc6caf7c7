CONSTANTS
    FrameNr = 3
    WriterSets = {{"dp"}, {"agent"}}
    OutPorts = {"flood", "unicast"}
    MaxPackets = 5
    MaxRx = 2
SPECIFICATION FairSpec
INVARIANTS
    TypeOK
    FlushTakesAll
PROPERTIES
    ImplementsTxQueue
    AcceptedSent
