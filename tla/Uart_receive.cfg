SPECIFICATION Spec
CONSTANTS
    Bytes = {0, 1}
    TickSizes = {1, 2}
    Th1s = {0}
    TimerRate <- OneTimerRate
    FixedRate <- FixedRates
    ShortFrame = 2
    LongFrame = 3
    SconWrites <- ReceiveModes
    RxFrames <- ReceivedFrames
    Liberties = {"reconfigures", "resets"}
PROPERTIES
    RxAccounted
    Completes
