SPECIFICATION ReportSpec
CONSTANTS
    Threshold = 3
    FrameLen = 5
    CbufSize = 7
    IsrLen = 2
    MaxFrames = 2
    MaxMsgs = 2
    Fails <- MCFails
    Calls <- MCCalls
    Lengths = {1, 2, 3, 4, 5, 6, 7, 8, 9, 10, 11, 12, 13, 14, 15, 16, 17, 18, 19, 20}
    IndexLimit = 256
    Overlap = FALSE
    Readings <- MCReadings
INVARIANTS ReportIsHeard QuietHoldsNothing
PROPERTIES ImplementsPlaylist
