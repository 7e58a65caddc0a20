SPECIFICATION Spec
CONSTANTS
    Clients = {c1, c2}
    Second = 4
    TsThreshold = 2
    TsInitialBatch = 2
    ExtraLimit = 3
    Ahead = 3
    MaxClock = 1
    MaxTime = 8
    AnyRestart = FALSE
INVARIANTS Unique
PROPERTY Increasing
