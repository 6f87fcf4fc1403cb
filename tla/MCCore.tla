-------------------------------- MODULE MCCore --------------------------------
(* Values of the constants of Core for TLC. *)
EXTENDS Core

\* Bytes of four bits, two banks of two registers, the stack above the one
\* bit-addressable byte pair; SFRs that are bit-addressable at multiples of 4.
SomeRom == [a \in 0..255 |-> (a * 7 + 3) % 16]
FirmwareArgs ==
    [NONE |-> {0}, A |-> {0}, C |-> {0}, DPTR |-> {0},
     IMM8 |-> {1, 14}, DIRECT |-> {4, 8, 9, 11, 12}, RN |-> {0, 1}, AT_RI |-> {0},
     BIT |-> {1, 15}, BIT_NOT |-> {1}, REL8 |-> {1, 13}, ADDR11 |-> {4, 30}, ADDR16 |-> {253}]
=============================================================================
