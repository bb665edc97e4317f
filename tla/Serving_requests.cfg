SPECIFICATION ServingFairSpec
CONSTANTS
    Callers = {w1, w2}
    Workers = {w1, w2}
    Keys = {"k1", "k2"}
    NoKey = NoKey
    Tasks = {1, 2, 3}
    NoTask = NoTask
    keyOf <- TwoShareAKey
    Queue = 1
    maxConns = 2
    MaxFaults = 1
    MaxReclaims = 1
INVARIANTS
    ServingTypeOK
    OneRunner
    OneAnswerPerKey
    RerunNeedsFailure
    Conserved
    ClosedIsDrained
PROPERTIES
    RequestsEnd
CHECK_DEADLOCK FALSE
