CONSTANTS
    s1 = s1
    s2 = s2
    d1 = d1
    d2 = d2
    NULL = NULL
    Switch <- MCOneSwitch
    Dpid = {d1}
    DpidOf <- MCOneDpidOf
    MaxFds = 2
    MaxConn = 4
    MaxFails = 2
    MaxPackets = 2
SPECIFICATION Spec
INVARIANTS
    GreetedRegistered
CHECK_DEADLOCK FALSE
