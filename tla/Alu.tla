---------------------------------- MODULE Alu ----------------------------------
(***************************************************************************)
(* The accumulator instructions of cpu_step in lib/cpu.c: what they do to  *)
(* A, B and the flags of PSW.  An operand, whatever addressing mode it     *)
(* comes by, is any value of a register.                                   *)
(*                                                                         *)
(* Firmware strings these instructions into numbers longer than a register *)
(* and relies on CY and AC surviving from one to the next.  The history    *)
(* variables bin and dec keep the exact arithmetic of such a chain.        *)
(***************************************************************************)
EXTENDS Integers

CONSTANTS
    Half,       \* values of a nibble (16 in the code)
    Digit,      \* values of a decimal digit (10 in the code)
    MaxDigits,  \* bound on the registers a chain spans
    Liberties   \* what firmware does beyond what the properties allow

Byte == Half * Half
Registers == 0..(Byte - 1)

\* "borrow_into_ff": SUBB of the largest operand with CY set.
\* "writes_parity": PSW is written with an arbitrary P.
ASSUME AluAssumption ==
    /\ Half \in Nat /\ Half % 2 = 0
    /\ Digit \in 2..Half
    /\ MaxDigits \in Nat \ {0}
    /\ Liberties \subseteq {"borrow_into_ff", "writes_parity"}

VARIABLES
    cpu,  \* A, B and the flags
    bin,  \* history: the binary chain under way
    dec   \* history: the packed decimal chain under way

vars == <<cpu, bin, dec>>

------------------------------------------------------------------------------
\* State

Bit(b) == IF b THEN 1 ELSE 0
Negative(v) == v >= Byte \div 2
Signed(v) == IF Negative(v) THEN v - Byte ELSE v

Ones[v \in Nat] == IF v = 0 THEN 0 ELSE (v % 2) + Ones[v \div 2]
Parity(v) == Ones[v] % 2 = 1

Low(v) == v % Half
High(v) == v \div Half

\* A chain owes weight for each carry it still has to propagate: owed is the
\* exact result so far less the registers it was stored in.
NoChain == [kind |-> "none", owed |-> 0, weight |-> 1]

\* A decimal chain waits for DA while pending holds the sum of two digit pairs.
Nothing == -1
NoDecimals == [pending |-> Nothing, owed |-> 0, weight |-> 1]

Init ==
    /\ cpu = [acc |-> 0, b |-> 0, cy |-> FALSE, ac |-> FALSE, ov |-> FALSE, p |-> FALSE]
    /\ bin = NoChain /\ dec = NoDecimals

------------------------------------------------------------------------------
\* The instructions, as functions from registers to registers

\* The end of cpu_step: P follows an accumulator that changed.
UpdateParity(old, new) ==
    IF new.acc = old.acc THEN new ELSE [new EXCEPT !.p = Parity(new.acc)]

CarriesLate(a, v, carry) == a + v >= Byte
Carries(a, v, carry) == a + v + carry >= Byte

Add(c, v) ==
    LET sum == (c.acc + v) % Byte
    IN  [c EXCEPT !.acc = sum,
                  !.cy = Carries(c.acc, v, 0),
                  !.ac = Low(c.acc) + Low(v) >= Half,
                  !.ov = /\ Negative(c.acc) = Negative(v)
                         /\ Negative(c.acc) # Negative(sum)]

\* OV compares signs with the operand plus carry, cut to a register.
Addc(c, v) ==
    LET carry == Bit(c.cy)
        sum == (c.acc + v + carry) % Byte
    IN  [c EXCEPT !.acc = sum,
                  !.cy = Carries(c.acc, v, carry),
                  !.ac = Low(c.acc) + Low(v) + carry >= Half,
                  !.ov = /\ Negative(c.acc) = Negative((v + carry) % Byte)
                         /\ Negative(c.acc) # Negative(sum)]

\* The operand plus borrow is cut to a register before it is subtracted.
OperandOnly(v, borrow) == v
WithBorrow(v, borrow) == (v + borrow) % Byte

SignsDiffer(a, v, diff) == Negative(a) # Negative(diff)
DifferenceOverflows(a, v, diff) ==
    Negative(a) # Negative(v) /\ Negative(a) # Negative(diff)

Subb(c, v) ==
    LET rhs == WithBorrow(v, Bit(c.cy))
        diff == (c.acc - rhs) % Byte
    IN  [c EXCEPT !.acc = diff,
                  !.cy = c.acc < rhs,
                  !.ac = Low(c.acc) < Low(v) + Bit(c.cy),
                  !.ov = DifferenceOverflows(c.acc, v, diff)]

\* DA corrects a digit for its own excess, or for the carry out of it.
HighInExcess(c) == c.acc > (Digit - 1) * Half + Digit - 1
HighNeedsFix(c) == c.acc > (Digit - 1) * Half + Digit - 1 \/ c.cy

DecimalAdjust(c) ==
    LET low == Low(c.acc) >= Digit \/ c.ac
        high == HighNeedsFix(c)
        fix == Bit(low) * (Half - Digit) + Bit(high) * (Half - Digit) * Half
    IN  [c EXCEPT !.acc = (@ + fix) % Byte, !.cy = @ \/ high]

RotateLeft(c) ==
    [c EXCEPT !.acc = (2 * @ + Bit(c.cy)) % Byte, !.cy = Negative(c.acc)]
RotateRight(c) ==
    [c EXCEPT !.acc = @ \div 2 + Bit(c.cy) * (Byte \div 2), !.cy = c.acc % 2 = 1]

Multiply(c) ==
    LET product == c.acc * c.b
    IN  [c EXCEPT !.acc = product % Byte, !.b = product \div Byte,
                  !.cy = FALSE, !.ov = product >= Byte]

DivideOverwriting(c) ==
    IF c.b = 0 THEN c ELSE
        [c EXCEPT !.acc = @ \div c.b, !.b = (c.acc \div @) % @]
Divide(c) ==
    IF c.b = 0
    THEN [c EXCEPT !.ov = TRUE, !.cy = FALSE]
    ELSE [c EXCEPT !.acc = @ \div c.b, !.b = c.acc % @, !.ov = FALSE, !.cy = FALSE]

------------------------------------------------------------------------------
\* Chains

Retire(c) == cpu' = UpdateParity(cpu, c)

\* The lowest register of a chain takes a carry in from wherever CY came.
Extends(kind) == bin.kind = kind /\ bin.weight < Byte ^ MaxDigits
Link(kind, carry, exact) ==
    LET old == IF Extends(kind) THEN bin ELSE [NoChain EXCEPT !.owed = carry]
    IN  [kind |-> kind, owed |-> old.owed + exact * old.weight,
         weight |-> old.weight * Byte]

IsDecimal(v) == Low(v) < Digit /\ High(v) < Digit
Decimal(v) == High(v) * Digit + Low(v)
Pair == Digit * Digit

\* The sum of two decimal pairs, to be adjusted; anything else ends the chain.
Await(old, v) ==
    IF IsDecimal(cpu.acc) /\ IsDecimal(v)
    THEN [old EXCEPT !.pending = Decimal(cpu.acc) + Decimal(v)]
    ELSE NoDecimals

Adjusted == dec.weight > 1 /\ dec.pending = Nothing
Broken == bin' = NoChain /\ dec' = NoDecimals

------------------------------------------------------------------------------
\* Actions

ExecAdd ==
    \E v \in Registers :
        LET r == Add(cpu, v)
        IN  /\ Retire(r)
            /\ bin' = [NoChain EXCEPT !.kind = "add", !.weight = Byte,
                                      !.owed = cpu.acc + v - r.acc]
            /\ dec' = Await(NoDecimals, v)

ExecAddc ==
    \E v \in Registers :
        LET r == Addc(cpu, v)
        IN  /\ Retire(r)
            /\ bin' = Link("add", Bit(cpu.cy), cpu.acc + v - r.acc)
            /\ dec' = IF Adjusted /\ dec.weight < Pair ^ MaxDigits
                      THEN Await(dec, v)
                      ELSE Await([NoDecimals EXCEPT !.owed = Bit(cpu.cy)], v)

ExecSubb ==
    \E v \in Registers :
        LET r == Subb(cpu, v)
        IN  /\ (v = Byte - 1 /\ cpu.cy) => "borrow_into_ff" \in Liberties
            /\ Retire(r)
            /\ bin' = Link("sub", Bit(cpu.cy), r.acc - cpu.acc + v)
            /\ dec' = NoDecimals

\* Doubling a number register by register.
ExecRotateLeft ==
    LET r == RotateLeft(cpu)
    IN  /\ Retire(r)
        /\ bin' = Link("add", Bit(cpu.cy), 2 * cpu.acc - r.acc)
        /\ dec' = NoDecimals

ExecDecimalAdjust ==
    LET r == DecimalAdjust(cpu)
    IN  /\ Retire(r)
        /\ bin' = NoChain
        /\ dec' = IF dec.pending = Nothing THEN NoDecimals
                  ELSE [pending |-> Nothing,
                        owed |-> dec.owed + (dec.pending - Decimal(r.acc)) * dec.weight,
                        weight |-> dec.weight * Pair]

\* MOV, MOVX and the logic, the increments and the shifts of A that leave the
\* flags alone: A takes some value.  A chain goes on with its next registers.
ExecLoad ==
    /\ \E v \in Registers : Retire([cpu EXCEPT !.acc = v])
    /\ dec' = IF dec.pending = Nothing THEN dec ELSE NoDecimals
    /\ UNCHANGED bin

ExecLoadB ==
    /\ \E v \in Registers : Retire([cpu EXCEPT !.b = v])
    /\ UNCHANGED <<bin, dec>>

ExecMultiply == Retire(Multiply(cpu)) /\ Broken
ExecDivide == Retire(Divide(cpu)) /\ Broken
ExecRotateRight == Retire(RotateRight(cpu)) /\ Broken

\* CJNE, CLR C, SETB C, CPL C and the logic on C.
ExecWriteCarry ==
    /\ \E carry \in BOOLEAN : Retire([cpu EXCEPT !.cy = carry])
    /\ Broken

\* PSW is written as a whole, or read, changed in other bits and written back.
ExecWritePsw ==
    /\ \E carry, aux, over, parity \in BOOLEAN :
        /\ parity # cpu.p => "writes_parity" \in Liberties
        /\ Retire([cpu EXCEPT !.cy = carry, !.ac = aux, !.ov = over, !.p = parity])
    /\ Broken

Arithmetic ==
    \/ ExecAdd \/ ExecAddc \/ ExecSubb \/ ExecDecimalAdjust
    \/ ExecRotateLeft \/ ExecRotateRight \/ ExecMultiply \/ ExecDivide
Moves == ExecLoad \/ ExecLoadB \/ ExecWriteCarry \/ ExecWritePsw
Next == Arithmetic \/ Moves

Spec == Init /\ [][Next]_vars

------------------------------------------------------------------------------
\* Properties

\* ADD and ADDC on one register after the other, or RLC, add numbers of any
\* length exactly: what the registers do not hold is the carry.
MultiByteSum == bin.kind = "add" => bin.owed = Bit(cpu.cy) * bin.weight

\* SUBB on one register after the other subtracts numbers of any length
\* exactly: what the registers hold too much is the borrow.
MultiByteDifference == bin.kind = "sub" => bin.owed = Bit(cpu.cy) * bin.weight

\* DA after each ADD or ADDC adds packed decimal numbers of any length: both
\* digits corrected, and CY is the carry to the next pair.
DecimalSum == Adjusted => dec.owed = Bit(cpu.cy) * dec.weight

Overflows(v) == v < -(Byte \div 2) \/ v >= Byte \div 2

\* Whatever the registers hold, ADD and SUBB set OV exactly when the signed
\* result leaves the register, a borrow included.  So does ADDC, except with CY
\* and the largest positive operand.
SignedOverflow ==
    \A v \in Registers :
        LET a == Signed(cpu.acc)
        IN  /\ Add(cpu, v).ov = Overflows(a + Signed(v))
            /\ Subb(cpu, v).ov = Overflows(a - Signed(v) - Bit(cpu.cy))
            /\ ~(cpu.cy /\ v = Byte \div 2 - 1) =>
                   Addc(cpu, v).ov = Overflows(a + Signed(v) + Bit(cpu.cy))

\* DIV leaves quotient and remainder of the dividend, and undoes MUL by the same
\* factor whenever MUL left OV clear.
DivisionExact ==
    LET m == Multiply(cpu)
        d == Divide(cpu)
        undone == Divide([m EXCEPT !.b = cpu.b])
    IN  cpu.b # 0 =>
            /\ d.acc * cpu.b + d.b = cpu.acc /\ d.b < cpu.b
            /\ ~m.ov => undone.acc = cpu.acc /\ undone.b = 0
=============================================================================
