SPECIFICATION Spec
CONSTANTS
    Devices <- MCDevices
    Retry = 2
    MaxPlugs = 2
    MaxLen = 2
    MaxFaults = 1
INVARIANT ReturnsWhatWasSent
CHECK_DEADLOCK FALSE
