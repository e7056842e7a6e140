SPECIFICATION Spec
CONSTANTS
    Users = {u1, u2}
    Tool = tool
    Names = {default, work}
    Default = default
    Grants = {work}
    Titles = {a, b}
    MaxScope = 3
    MaxWs = 3
    None = None
SYMMETRY Symmetry
INVARIANTS OneActive ItemsConfined
PROPERTIES ActiveKept
CHECK_DEADLOCK FALSE
