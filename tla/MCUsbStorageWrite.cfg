SPECIFICATION Spec
CONSTANTS
    Media <- MCMedia
    Retries = 5
    MaxLba = 5
    MaxNum = 2
    MaxFaults = 1
INVARIANT MutexIsFree
CHECK_DEADLOCK FALSE
