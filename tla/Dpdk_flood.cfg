CONSTANTS
    NPorts = 2
    NLcores = 2
    Setups <- MCFloods
    RxPerLcore = 2
    MAX_PKT_BURST = 2
    NbTxd = 1
    RefWrap = 3
    Mbuf <- MCMbuf
    b1 = b1
    b2 = b2
    b3 = b3
    NONE = NONE
SPECIFICATION Spec
INVARIANTS
    RefsCounted
CHECK_DEADLOCK FALSE
