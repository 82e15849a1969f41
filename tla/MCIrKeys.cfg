SPECIFICATION FairSpec
CONSTANTS
    Width = 2
    EndRepeatLow = 27
    RepeatEndLow = 31
    Timeout = 40
    Listed = {0, 1, 2}
    NO_KEY = none
    Addresses = {1}
    Commands = {0, 1}
    Nested = FALSE
    Pause = 25
    MaxFaults = 2
    MaxWaiting = 2
PROPERTIES ReadsAreSent EveryPressIsRead
