SPECIFICATION Spec
CONSTANTS
    Procs = {p1, p2, p3}
    None = None
    Origin = Origin
    TTL = 0
    MaxTime = 1
    Torn = TRUE
    MayForce = TRUE
SYMMETRY Symmetry
INVARIANTS DestCompleteUnlessBroken PullsComplete NoForeignWal
CHECK_DEADLOCK FALSE
