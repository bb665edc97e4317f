SPECIFICATION Spec
CONSTANTS
    Principals = {p1, p2, p3}
    NoOne = NoOne
    Targets = {x1}
    NoTarget = NoTarget
    Required = 2
    Threads = {t1, t2}
    MaxRewrites = 2
SYMMETRY Symmetry
INVARIANT DualControl
CHECK_DEADLOCK FALSE
