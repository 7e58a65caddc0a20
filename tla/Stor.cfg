SPECIFICATION Spec
CONSTANTS
    Allocators = {t1, t2}
    chunksize = 2
    closedSize = 100
    maxRetries = 3
    StartSize = 1
    MaxAllocs = 2
    MaxFlushes = 2
INVARIANTS AllocsAreDisjoint CloseKeepsAllocs RequestsAreKept
PROPERTY RetriesMoveOn
CHECK_DEADLOCK FALSE
