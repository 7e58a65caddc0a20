SPECIFICATION Spec
CONSTANTS
    Tables = {orders}
    Indexes = {0}
    Keys = {1}
    MaxAge = 1
    MaxInt = 15
    AdminTables = {}
    MayCorrupt = FALSE
INVARIANTS RememberedWhileOverlapping
CHECK_DEADLOCK FALSE
