--------------------------- MODULE TableArithmetic ----------------------------
(***************************************************************************)
(* The arithmetic of the library's other interpreter, the exec functions   *)
(* of lib/instr_impl.c, as functions of the registers that module Alu has. *)
(* They repeat cpu_step in their own words: sums in 16 bits, tests of sign *)
(* bits and masks of nibbles.                                              *)
(***************************************************************************)
EXTENDS Alu

Wide == Byte * Byte       \* values of a uint16_t
Cut(v) == v % Byte        \* (uint8_t)
Sign(v) == v \div (Byte \div 2)

exec_add(c, v) ==
    LET sum == c.acc + v
    IN  [c EXCEPT !.acc = Cut(sum),
                  !.cy = sum > Byte - 1,
                  !.ac = (c.acc % Half) + (v % Half) > Half - 1,
                  !.ov = Sign(c.acc) = Sign(v) /\ Sign(c.acc) # Sign(Cut(sum))]

exec_addc(c, v) ==
    LET carry == Bit(c.cy)
        sum == c.acc + v + carry
        value_carry == Cut(v + carry)
    IN  [c EXCEPT !.acc = Cut(sum),
                  !.cy = sum > Byte - 1,
                  !.ac = (c.acc % Half) + (v % Half) + carry > Half - 1,
                  !.ov = Sign(c.acc) = Sign(value_carry) /\ Sign(c.acc) # Sign(Cut(sum))]

exec_subb(c, v) ==
    LET carry == Bit(c.cy)
        value_carry == Cut(v + carry)
        diff == (c.acc - value_carry) % Wide
    IN  [c EXCEPT !.acc = Cut(diff),
                  !.cy = c.acc < value_carry,
                  !.ac = c.acc % Half < (v % Half) + carry,
                  !.ov = Sign(c.acc) # Sign(v) /\ Sign(c.acc) # Sign(Cut(diff))]

exec_da_ignoring_ac(c) ==
    LET low == c.acc % Half > Digit - 1
        high == c.acc > (Digit - 1) * Half + Digit - 1 \/ c.cy
        add == (IF low THEN Half - Digit ELSE 0) + (IF high THEN (Half - Digit) * Half ELSE 0)
    IN  [c EXCEPT !.acc = Cut(@ + add), !.cy = high]
exec_da(c) ==
    LET low == c.acc % Half > Digit - 1 \/ c.ac
        high == c.acc > (Digit - 1) * Half + Digit - 1 \/ c.cy
        add == (IF low THEN Half - Digit ELSE 0) + (IF high THEN (Half - Digit) * Half ELSE 0)
    IN  [c EXCEPT !.acc = Cut(@ + add), !.cy = high]

exec_mul(c) ==
    LET product == (c.acc * c.b) % Wide
    IN  [c EXCEPT !.acc = Cut(product), !.b = product \div Byte,
                  !.cy = FALSE, !.ov = product > Byte - 1]

exec_div(c) ==
    IF c.b = 0 THEN [c EXCEPT !.ov = TRUE, !.cy = FALSE]
    ELSE LET dividend == c.acc
             divisor == c.b
         IN  [c EXCEPT !.acc = dividend \div divisor, !.b = dividend % divisor,
                       !.ov = FALSE, !.cy = FALSE]

exec_rlc(c) == [c EXCEPT !.acc = Cut(2 * @) + Bit(c.cy), !.cy = Sign(c.acc) = 1]
exec_rrc(c) ==
    [c EXCEPT !.acc = (@ \div 2) + Bit(c.cy) * (Byte \div 2), !.cy = c.acc % 2 # 0]

------------------------------------------------------------------------------
\* Whatever the registers hold, the exec function of an arithmetic instruction
\* leaves A, B, CY, AC and OV as cpu_step does; P is left to the caller.
TableArithmeticAgrees ==
    /\ \A v \in Registers :
          /\ exec_add(cpu, v) = Add(cpu, v)
          /\ exec_addc(cpu, v) = Addc(cpu, v)
          /\ exec_subb(cpu, v) = Subb(cpu, v)
    /\ exec_da(cpu) = DecimalAdjust(cpu)
    /\ exec_mul(cpu) = Multiply(cpu) /\ exec_div(cpu) = Divide(cpu)
    /\ exec_rlc(cpu) = RotateLeft(cpu) /\ exec_rrc(cpu) = RotateRight(cpu)
=============================================================================
