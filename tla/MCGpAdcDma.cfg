SPECIFICATION Spec
CONSTANTS
    Vbg = vbg
    Channels = {vbg, a}
    Removable = {}
    None = none
    Length = 2
    Times = 1
    DmaRuns = TRUE
INVARIANT VbgIsVbg
