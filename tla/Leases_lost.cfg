SPECIFICATION SteadySpec
CONSTANTS
    Procs = {p1}
    NoProc = NoProc
    Keys = {k1}
    NoKey = NoKey
    Unreliable = {}
    MaxLeases = 1
    MaxFaults = 0
PROPERTIES
    ExpiryRevokes
CHECK_DEADLOCK FALSE
