SPECIFICATION FairSpec
CONSTANTS
    NO_KEY = NO_KEY
    Zero = Zero
    k1 = k1
    Keys = {Zero, k1}
    filter_time = 2
    long_time = 3
    hold_time = 5
    click_delay_time = 2
    CntMod = 7
PROPERTIES Debounced ImplementsKeyEvents EveryPressReported
