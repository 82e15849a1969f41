SPECIFICATION FairSpec
CONSTANTS
    Threshold = 3
    FrameLen = 5
    CbufSize = 7
    IsrLen = 2
    MaxFrames = 3
    MaxMsgs = 2
    Fails <- AllFails
    Calls <- AllCalls
INVARIANTS InterruptsUseLiveMemory FrameFits StoppedHoldsNothing FreedOnce
PROPERTIES ReportedEndIsComplete StopReturns
