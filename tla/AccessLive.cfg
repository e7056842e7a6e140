SPECIFICATION Spec
CONSTANTS
    Names = {default, work}
    Default = default
    ToolNames = {n1}
    Sess = {s1}
    MaxTool = 2
    MaxToken = 3
    MaxScope = 3
    MaxRow = 2
    MaxCalls = 2
    None = None
INVARIANTS AuditedUnlessRevoked AuditNamesTool TokenOfItsTool
    AnswersConfined
PROPERTIES WritesConfined
CHECK_DEADLOCK FALSE
