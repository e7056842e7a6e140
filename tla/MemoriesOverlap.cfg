SPECIFICATION Spec
CONSTANTS
    Handles = {h1, h2}
    Calls = {c1, c2}
    t1 = t1
    t2 = t2
    t3 = t3
    Texts = {t1, t2}
    Tags = {}
    Scopes = {s1, s2}
    MaxId = 2
    Dist <- MCDist
    Threshold = 2
    DedupK = 2
    Overlap = TRUE
    None = None
INVARIANTS OwnVector NoOrphans
PROPERTIES MergeStaysInScope VectorsSurvive KeepsPromise
SYMMETRY Symmetry
