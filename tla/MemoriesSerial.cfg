SPECIFICATION Spec
CONSTANTS
    Handles = {h1, h2}
    Calls = {c1}
    t1 = t1
    t2 = t2
    t3 = t3
    Texts = {t1, t2, t3}
    Tags = {g}
    Scopes = {s1}
    MaxId = 3
    Dist <- MCDist
    Threshold = 2
    DedupK = 2
    Overlap = FALSE
    None = None
PROPERTIES SuccessMeansIndexed ReindexSyncs
SYMMETRY Symmetry
