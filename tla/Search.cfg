SPECIFICATION Spec
CONSTANTS
    Ids = {1, 2, 3, 4}
    Dist <- MCDist
    MaxLimit = 2
    Factor = 2
    Batch = 2
INVARIANTS Exact NearestFirst
PROPERTIES Terminates
CHECK_DEADLOCK FALSE
