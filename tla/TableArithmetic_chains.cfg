SPECIFICATION Spec
CONSTANTS
    Half = 4
    Digit = 3
    MaxDigits = 3
    Liberties = {"writes_parity"}
INVARIANTS
    MultiByteSum
    MultiByteDifference
    DecimalSum
    SignedOverflow
    DivisionExact
    TableArithmeticAgrees
