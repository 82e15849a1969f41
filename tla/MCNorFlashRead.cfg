SPECIFICATION Spec
CONSTANTS
    LastSector = 2
    SecLen = 2
    BlockLen = 2
    v1 = v1
    Values = {v1}
    Erased = Erased
    Polls = 3
    Width = 8
    WaitTimes = {1}
    MaxOpen = 2
    EraseCached = FALSE
    ReadsInto = TRUE
    PowerFails = FALSE
PROPERTY ImplementsMemory
