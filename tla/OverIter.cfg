SPECIFICATION Spec
CONSTANTS
    Keys = {1, 2, 3}
    Stored = {1, 3}
    Bounds = {0, 3}
    MaxWrites = 3
    MaxLayers = 2
    Reuse = FALSE
INVARIANTS TypeOK LookupIsLastWrite
PROPERTIES StepIsRight ReadCoversStep
