SPECIFICATION VoiceFairSpec
CONSTANTS
    Threshold = 3
    FrameLen = 5
    CbufSize = 7
    IsrLen = 2
    MaxFrames = 2
    MaxMsgs = 2
    Fails = {}
    Calls = {}
    Lengths = {1, 2, 3}
    IndexLimit = 256
    Overlap = TRUE
PROPERTY AdvanceOnlyAfterEnd
