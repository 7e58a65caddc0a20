SPECIFICATION Spec
CONSTANTS
    Tables = {orders}
    Indexes = {0}
    Keys = {1, 2}
    MaxAge = 1
    MaxInt = 11
    AdminTables = {}
    MayCorrupt = FALSE
INVARIANTS TypeOK Serializable VerifyConsistency AssertionsHold
PROPERTY ReadersAreNotVictims
CHECK_DEADLOCK FALSE
