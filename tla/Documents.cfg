SPECIFICATION Spec
CONSTANTS
    Calls = {c1, c2}
    Scopes = {s1, s2}
    Default = s1
    MaxDoc = 2
    MaxPiece = 4
    MaxSize = 2
    None = None
INVARIANTS NoLeftovers GapsExplained
PROPERTIES KeepsShelf
CHECK_DEADLOCK FALSE
