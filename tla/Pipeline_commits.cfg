SPECIFICATION Spec
CONSTANTS
    Tables = {a, b}
    chanBuffers = 2
    Alter = FALSE
    MayCrash = TRUE
    MaxCommits = 4
INVARIANT InfoCheck
INVARIANT ShutdownSavesAll
PROPERTY Implements
PROPERTY PersistReturnsMerged
