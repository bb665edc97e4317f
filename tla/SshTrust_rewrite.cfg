SPECIFICATION Spec
CONSTANTS
    Cas = {a, b}
    NoCa = NoCa
    MaxFaults = 3
    MaxCrashes = 1
    MaxRuns = 3
SYMMETRY Symmetry
INVARIANTS
    RolledBackRestores
    AddKeepsTrust
    ReportedIsServed
CHECK_DEADLOCK FALSE
