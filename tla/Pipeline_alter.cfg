SPECIFICATION FairSpec
CONSTANTS
    Tables = {a}
    chanBuffers = 2
    Alter = TRUE
    MayCrash = FALSE
    MaxCommits = 4
INVARIANT MergerNeverFails
PROPERTIES IndexesStayEqual CommitsGetSaved CallsAreAnswered StopFinishes
