SPECIFICATION FairSpec
CONSTANTS
    Identities = {i1}
    Replicas = {r1}
    Writers = {w1, w2}
    Keys = {k1}
    NoKey = NoKey
    NoReplica = NoReplica
    checkpointEvery = 1
    MaxLog = 2
    MaxCrashes = 2
    MaxAborts = 1
INVARIANTS
    CheckpointSound
    ReconciledEffectsRecorded
    AnsweredHasEffect
    HistoryMatchesLog
PROPERTY EffectEventuallySettled
CHECK_DEADLOCK FALSE
