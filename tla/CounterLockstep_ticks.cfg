SPECIFICATION LockstepSpec
CONSTANTS
    Byte = 4
    Low = 2
    Word = 64
    CallSizes <- ShortTicks
    Pairs <- Ends
INVARIANT
    TimersCountTicks
