SPECIFICATION FairSpec
CONSTANTS
    Procs = {p1}
    NoProc = NoProc
    Keys = {k1, k2}
    NoKey = NoKey
    Unreliable = {1, 2}
    MaxLeases = 2
    MaxFaults = 1
INVARIANTS
    ActiveLeaseUnrevoked
    RevocationKept
    OneLeasePerKey
PROPERTIES
    DueLeaseExpires
CHECK_DEADLOCK FALSE
