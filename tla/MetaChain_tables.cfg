SPECIFICATION Spec
CONSTANTS
    Tables = {a, b}
    Views = {}
    Start = {a}
    Kept = {a}
    Ops = {"create", "drop", "alter", "shutdown"}
    maxChain = 3
    MaxSpan = 1
    MaxPending = 1
    MaxStates = 4
INVARIANTS DiskIsSaved AgesCoverItems
CHECK_DEADLOCK FALSE
