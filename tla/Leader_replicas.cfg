SPECIFICATION FairSpec
CONSTANTS
    Replicas = {r1, r2, r3}
    NoReplica = NoReplica
    MaxFaults = 4
INVARIANT OverlapNeedsLoss
PROPERTIES
    LostLeaderStops
    AlwaysReelected
CHECK_DEADLOCK FALSE
