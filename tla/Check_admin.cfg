SPECIFICATION FairSpec
CONSTANTS
    Tables = {orders}
    Indexes = {0}
    Keys = {1}
    MaxAge = 2
    MaxInt = 9
    AdminTables = {orders}
    MayCorrupt = TRUE
INVARIANTS ExclusiveRespected
PROPERTY EveryTranEnds
CHECK_DEADLOCK FALSE
