SPECIFICATION Spec
CONSTANTS
    Fitted = {0, 3}
    Pins = {"bit0", "bit1"}
INVARIANTS
    HostInformed
PROPERTIES
    OtherBitsKept
