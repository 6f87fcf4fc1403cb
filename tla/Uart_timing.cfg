SPECIFICATION Spec
CONSTANTS
    Bytes = {0, 1}
    TickSizes = {1, 2, 4}
    Th1s = {0, 1}
    TimerRate <- TimerRates
    FixedRate <- FixedRates
    ShortFrame = 2
    LongFrame = 3
    SconWrites <- SendModes
    RxFrames = {}
    Liberties = {"rewrites", "counts"}
INVARIANTS
    OnTime
    BaudReported
