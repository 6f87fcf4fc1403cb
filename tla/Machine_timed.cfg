SPECIFICATION MachineSpec
CONSTANTS
    Fitted = {"T0", "T1"}
    Lines = {}
    IEWrites <- AllEnabled
    IPWrites = {{"T1"}}
    Liberties = {}
    Byte = 8
    Low = 2
    Word = 64
    Second = 10
    Coarse = 5
    Width = 6
    Data <- TwoBits
    CycleCounts = {1, 4}
    Reload = 4
    Crystals <- OneCrystal
    Baud = 4
    MaxSteps = 2
    MaxDelay = 1
    MaxTotal = 4
    Ticks = 2
INVARIANTS
    SoftwareClock
    WaveOnTime
    ConversionsAgree
PROPERTY
    PacedByCrystal
