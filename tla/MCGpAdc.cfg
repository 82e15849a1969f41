SPECIFICATION FairSpec
CONSTANTS
    Vbg = vbg
    Channels = {vbg, a, b}
    Removable = {b}
    None = none
    Length = 3
    Times = 2
    DmaRuns = FALSE
INVARIANT SamplesAreOwn
INVARIANT PolledIsOwn
INVARIANT ScanGoesOn
PROPERTY EveryChannelSampled
