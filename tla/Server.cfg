SPECIFICATION Spec
CONSTANTS
    Calls = {r1, r2}
    MaxLoads = 2
    Signals = {int, term}
INVARIANTS EndsWhole OpenWhileAnswering ProviderShared
PROPERTIES Stops
CHECK_DEADLOCK FALSE
