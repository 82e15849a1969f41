SPECIFICATION Spec
CONSTANTS
    Page = 3
    ChipSize = 6
    Ranges <- MCRanges
    MaxRefusals = 2
INVARIANTS CallsAreTrue
