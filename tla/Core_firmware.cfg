SPECIFICATION Spec
CONSTANTS
    Bits = 4
    Regs = 2
    Banks = 2
    RsUnit = 2
    BitBase = 4
    Page = 32
    ACC = 8
    SP = 9
    DPL = 10
    DPH = 11
    PSW = 12
    B = 13
    Rom <- SomeRom
    Xdata <- SomeRom
    Args <- FirmwareArgs
    CodeBytes = {0, 1, 2, 3, 4, 5, 6, 7, 8, 9, 10, 11, 12, 13, 14, 15}
    Vectors = {3}
    StackBase = 5
    Data = {0, 4, 8, 11}
    MaxSteps = 3
    Examining = 1
    MaxNesting = 2
CHECK_DEADLOCK FALSE
INVARIANTS
    StackIntact
    TableAgrees
    BitAddressing
PROPERTIES
    Resumes
