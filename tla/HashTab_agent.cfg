CONSTANTS
    z = z
    k1 = k1
    k2 = k2
    k3 = k3
    v1 = v1
    v2 = v2
    a1 = a1
    a2 = a2
    a3 = a3
    NULL = NULL
    Key <- MCKey
    Val <- MCVal
    Bucket <- MCBucket
    Addr <- MCAddr
    Hash <- MCHash
    ZeroKey = z
    UsedKey <- MCUsedKey
    UsedVal <- MCUsedVal
    Flags = {0}
    SharedKey <- MCSharedKey
    MaxItems = 4
SPECIFICATION Spec
SYMMETRY MCSymmetry
INVARIANTS
    TypeOK
    Structure
    IteratorFresh
    ListExact
    CrashOnlyIfTouched
PROPERTIES
    HeldUntilWritten
    ImplementsBpfMap
CHECK_DEADLOCK FALSE
