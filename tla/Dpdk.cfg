CONSTANTS
    NPorts = 2
    NLcores = 2
    Setups <- MCSetups
    RxPerLcore = 2
    MAX_PKT_BURST = 2
    NbTxd = 1
    RefWrap = 3
    Mbuf <- MCMbuf
    b1 = b1
    b2 = b2
    b3 = b3
    NONE = NONE
SPECIFICATION FairSpec
INVARIANTS
    TypeOK
    StoreInTable
    RefsCountedUnlessFloodedOrShared
    InOrder
PROPERTIES
    EveryBufferReturns
CHECK_DEADLOCK FALSE
