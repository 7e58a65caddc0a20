SPECIFICATION FairSpec
CONSTANTS
    Clients = {c1, c2}
    Admin = admin
    Ticker = ticker
    bufSize = 3
    MaxAge = 1
INVARIANTS CommitHasEverything
PROPERTIES StopComesLast CommitsAreAnswered AbandonedTransEnd
CHECK_DEADLOCK FALSE
