SPECIFICATION FairSpec
CONSTANTS
    Disks = {d1, d2}
    NoDisk = NoDisk
    MaxDev = 1
    Capacity = 5
    Values = {0, 1, 2, 3, 4, 9}
    Stale = {9}
    Contents <- MCContents
    BlockNum = 2
    BlockSize = 512
    U32 = 1048576
    Weak = {0, 3}
    Commands <- MCCommands
INVARIANTS BufferNotShared ResidueIsHonest AnsweredIsSettled SenseNamesTheFailure HandleIsOfName
PROPERTIES ImplementsBulkOnlyDisk EveryCommandIsAnswered
