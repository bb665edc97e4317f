SPECIFICATION Spec
CONSTANTS
    Identities = {i1}
    Replicas = {r1}
    Writers = {w1, w2}
    Keys = {}
    NoKey = NoKey
    NoReplica = NoReplica
    checkpointEvery = 1
    MaxLog = 3
    MaxCrashes = 0
    MaxAborts = 0
SYMMETRY Symmetry
INVARIANT StatusMatchesLog
CHECK_DEADLOCK FALSE
