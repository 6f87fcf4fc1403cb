SPECIFICATION HexSpec
CONSTANTS
    Space = 6
    Blank = 9
    Lines <- SomeLines
    Maps <- SomeMaps
    Arrays = {"main", "other"}
    MaxLines = 4
CHECK_DEADLOCK FALSE
INVARIANTS
    LoadedExactly
    LoadersAgree
