SPECIFICATION SpecDim
CONSTANTS
    old = old
    new = new
    Procs = {old, new}
    Version <- MCVersion
    Dims = {3, 7}
    MaxId = 3
INVARIANTS TablesMatchPin GateHolds
PROPERTIES DimensionPinned ForgetUnindexes
