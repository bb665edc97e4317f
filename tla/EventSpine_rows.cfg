SPECIFICATION Spec
CONSTANTS
    Identities = {i1}
    Replicas = {r1, r2}
    Writers = {w1}
    Keys = {}
    NoKey = NoKey
    NoReplica = NoReplica
    checkpointEvery = 1
    MaxLog = 2
    MaxCrashes = 1
    MaxAborts = 0
SYMMETRY Symmetry
INVARIANT OneRowPerKey
CHECK_DEADLOCK FALSE
