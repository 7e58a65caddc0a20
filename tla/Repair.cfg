SPECIFICATION FairSpec
CONSTANTS
    Tables = {"a", "b", "c"}
    Workers = {w1, w2}
    MaxStates = 4
    Bads = {{}, {"a", "b"}}
    Growing = FALSE
INVARIANTS CheckIsExact FoundIsBoundary FindsNewest WaitsForMore OriginalKept
PROPERTY ChecksEnd
CHECK_DEADLOCK FALSE
