SPECIFICATION Spec
CONSTANTS
    Names = {home, work}
    Days = {1}
    MaxScope = 2
    MaxRow = 2
    MaxTime = 2
    Kinds = {"document", "conversation", "workspace"}
    None = None
SYMMETRY Symmetry
INVARIANTS ExportsAgree
PROPERTIES PrunesByRule
CHECK_DEADLOCK FALSE
