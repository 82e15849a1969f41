SPECIFICATION FairSpec
CONSTANTS
    Devices <- MCDevices
    Retry = 2
    MaxPlugs = 2
    MaxLen = 2
    MaxFaults = 1
INVARIANTS SuccessIsComplete AppKnowsTheDisk
PROPERTIES MountIsTrue EveryCallReturns OutFollows
CHECK_DEADLOCK FALSE
