SPECIFICATION Spec
CONSTANTS
    Keys = {k1, k2}
    NoKey = NoKey
    Domains = {d1, d2}
    Csrs = {c1}
    NoCsr = NoCsr
    Threads = {t1, t2}
    MaxPendingOrders = 1
    TrustAuthenticated = FALSE
    MaxSeq = 3
    MaxFaults = 1
    MaxRestarts = 2
SYMMETRY Symmetry
INVARIANTS
    TypeOK
    ReplayFindsOrders
    RestartKeepsAnswers
    IdsFresh
    IssuedNeedsValidation
    KeysIdentifyAccounts
    RevokedOnPlatform
CHECK_DEADLOCK FALSE
