SPECIFICATION Spec
CONSTANTS
    Tables = {a, b}
    Views = {v}
    Start = {a}
    Kept = {}
    Ops = {"rename", "columns", "view", "crash"}
    maxChain = 3
    MaxSpan = 0
    MaxPending = 0
    MaxStates = 5
INVARIANTS DiskIsSaved
CHECK_DEADLOCK FALSE
