SPECIFICATION Spec
CONSTANTS
    Half = 4
    Digit = 3
    MaxDigits = 3
    Liberties = {"borrow_into_ff"}
INVARIANT
    MultiByteDifference
