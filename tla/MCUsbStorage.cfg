SPECIFICATION FairSpec
CONSTANTS
    Media <- MCMedia
    Retries = 5
    MaxLba = 5
    MaxNum = 2
    MaxFaults = 1
INVARIANTS InStep ReadsAreTrue WritesAreStored
PROPERTIES EveryCallReturns
CHECK_DEADLOCK FALSE
