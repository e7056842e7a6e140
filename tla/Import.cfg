SPECIFICATION SpecImport
CONSTANTS
    Files = {1, 2, 3}
    Origin <- MCOrigin
    Identified = {1}
    Undated = {}
    Sweepers = {p}
    Manual = {q}
    MaxVersion <- MCMaxVersion
    MaxId = 4
    MaxTime = 0
    MaxFaults = 1
    None = None
INVARIANTS DatedOnce HitsHoldText
PROPERTIES EventuallyStored
CHECK_DEADLOCK FALSE
