------------------------------ MODULE AluProofs -------------------------------
(***************************************************************************)
(* Proofs about Alu and TableArithmetic: for registers and digits of any   *)
(* size and chains of any length, the binary and the decimal chains are    *)
(* exact, OV and P are right, DIV undoes MUL, and the two interpreters     *)
(* compute alike.                                                          *)
(***************************************************************************)
EXTENDS TableArithmetic, Remainders, TLAPS

------------------------------------------------------------------------------
\* Arithmetic of a register

\* A register has an even number of values, at least one.
LEMMA ByteType ==
    /\ Half \in Nat \ {0}
    /\ Byte \in Nat \ {0} /\ Byte % 2 = 0
    /\ Byte \div 2 \in Nat \ {0} /\ Byte = 2 * (Byte \div 2)
<1>1. Half \in Nat /\ Half % 2 = 0 /\ Half >= 2
  BY AluAssumption
<1>2. PICK k \in Nat : Half = 2 * k
  <2>1. Half \div 2 \in Nat /\ Half = 2 * (Half \div 2)
    BY <1>1
  <2> QED
    BY <2>1
<1> DEFINE m == k * Half
<1>3. m \in Nat /\ m # 0
  BY <1>1, <1>2
<1>4. Byte = 2 * m
  BY <1>1, <1>2 DEF Byte
<1> HIDE DEF m
<1> QED
  BY <1>1, <1>3, <1>4

\* What is cut to a register is a value of it.
LEMMA CutType ==
    ASSUME NEW x \in Int
    PROVE  x % Byte \in Registers
BY ByteType, Wrap DEF Registers

\* The low nibble of anything.
LEMMA NibbleType ==
    ASSUME NEW x \in Int
    PROVE  Low(x) \in 0..(Half - 1)
BY ByteType, Wrap DEF Low

\* One register's worth too much or too little is taken off or put back.
LEMMA CutOnce ==
    ASSUME NEW x \in Int, x >= -Byte, x < 2 * Byte
    PROVE  /\ x >= Byte => x % Byte = x - Byte
           /\ x \in Registers => x % Byte = x
           /\ x < 0 => x % Byte = x + Byte
<1>1. Byte \in Nat \ {0}
  BY ByteType
<1>2. ASSUME x >= Byte PROVE x % Byte = x - Byte
  <2>1. x \in Byte..(2 * Byte - 1)
    BY <1>1, <1>2
  <2> QED
    BY <1>1, <2>1, Wrap
<1>3. ASSUME x \in Registers PROVE x % Byte = x
  BY <1>1, <1>3, Wrap DEF Registers
<1>4. ASSUME x < 0 PROVE x % Byte = x + Byte
  <2>1. x \in (-Byte)..(-1)
    BY <1>1, <1>4
  <2> QED
    BY <1>1, <2>1, Wrap
<1> QED
  BY <1>2, <1>3, <1>4

\* A sum of three registers less what the register holds of it is the carry.
LEMMA CarryOut ==
    ASSUME NEW a \in Registers, NEW v \in Registers, NEW c \in 0..1
    PROVE  /\ (a + v + c) % Byte \in Registers
           /\ c + (a + v - ((a + v + c) % Byte)) = Bit(Carries(a, v, c)) * Byte
<1> DEFINE x == a + v + c
<1>1. x \in 0..(2 * Byte - 1) /\ x \in Int
  BY ByteType DEF Registers
<1>2. a \in Int /\ v \in Int /\ c \in Int /\ Byte \in Nat \ {0}
  BY ByteType DEF Registers
<1>3. x % Byte \in 0..(Byte - 1)
  <2> HIDE DEF x
  <2> QED
    BY <1>1, <1>2, Wrap
<1>4. CASE x >= Byte
  <2>1. x % Byte = x - Byte
    <3>1. x \in Byte..(2 * Byte - 1)
      BY <1>1, <1>2, <1>4
    <3> HIDE DEF x
    <3> QED
      BY <1>1, <1>2, <3>1, Wrap
  <2>2. Bit(Carries(a, v, c)) = 1
    BY <1>4 DEF Bit, Carries
  <2> QED
    BY <1>2, <1>3, <2>1, <2>2 DEF Registers
<1>5. CASE ~(x >= Byte)
  <2>1. x % Byte = x
    <3>1. x \in 0..(Byte - 1)
      BY <1>1, <1>2, <1>5
    <3> HIDE DEF x
    <3> QED
      BY <1>1, <1>2, <3>1, Wrap
  <2>2. Bit(Carries(a, v, c)) = 0
    BY <1>5 DEF Bit, Carries
  <2> QED
    BY <1>2, <1>3, <2>1, <2>2 DEF Registers
<1> QED
  BY <1>4, <1>5

\* A difference of a register and less than a full one with a borrow.
LEMMA BorrowOut ==
    ASSUME NEW a \in Registers, NEW w \in Registers
    PROVE  /\ (a - w) % Byte \in Registers
           /\ ((a - w) % Byte) - a + w = Bit(a < w) * Byte
<1> DEFINE x == a - w
<1>1. x \in (-Byte)..(Byte - 1) /\ x \in Int
  BY ByteType DEF Registers
<1>2. a \in Int /\ w \in Int /\ Byte \in Nat \ {0}
  BY ByteType DEF Registers
<1>3. x % Byte \in 0..(Byte - 1)
  <2> HIDE DEF x
  <2> QED
    BY <1>1, <1>2, Wrap
<1>4. CASE a < w
  <2>1. x % Byte = x + Byte
    <3>1. x \in (-Byte)..(-1)
      BY <1>1, <1>2, <1>4
    <3> HIDE DEF x
    <3> QED
      BY <1>1, <1>2, <3>1, Wrap
  <2>2. Bit(a < w) = 1
    BY <1>4 DEF Bit
  <2> QED
    BY <1>2, <1>3, <2>1, <2>2 DEF Registers
<1>5. CASE ~(a < w)
  <2>1. x % Byte = x
    <3>1. x \in 0..(Byte - 1)
      BY <1>1, <1>2, <1>5
    <3> HIDE DEF x
    <3> QED
      BY <1>1, <1>2, <3>1, Wrap
  <2>2. Bit(a < w) = 0
    BY <1>5 DEF Bit
  <2> QED
    BY <1>2, <1>3, <2>1, <2>2 DEF Registers
<1> QED
  BY <1>4, <1>5

------------------------------------------------------------------------------
\* What the instructions do to the registers

RegisterFile == [acc : Registers, b : Registers,
                 cy : BOOLEAN, ac : BOOLEAN, ov : BOOLEAN, p : BOOLEAN]

\* Instructions keep to A, CY, AC and OV.
LEMMA Updated ==
    ASSUME NEW c \in RegisterFile, NEW r,
           r = [c EXCEPT !.acc = r.acc, !.cy = r.cy, !.ac = r.ac, !.ov = r.ov],
           r.acc \in Registers, r.cy \in BOOLEAN, r.ac \in BOOLEAN, r.ov \in BOOLEAN
    PROVE  r \in RegisterFile /\ r.b = c.b
BY DEF RegisterFile

\* MUL and DIV write B too.
LEMMA UpdatedWithB ==
    ASSUME NEW c \in RegisterFile, NEW r,
           r = [c EXCEPT !.acc = r.acc, !.b = r.b, !.cy = r.cy, !.ov = r.ov],
           r.acc \in Registers, r.b \in Registers, r.cy \in BOOLEAN, r.ov \in BOOLEAN
    PROVE  r \in RegisterFile
BY DEF RegisterFile

\* A flag as a number.
LEMMA BitType == \A x \in BOOLEAN : Bit(x) \in 0..1
BY DEF Bit

\* Only P changes at the end of cpu_step.
LEMMA Retired ==
    ASSUME cpu \in RegisterFile, NEW c \in RegisterFile, Retire(c)
    PROVE  /\ cpu' \in RegisterFile
           /\ cpu'.acc = c.acc /\ cpu'.b = c.b
           /\ cpu'.cy = c.cy /\ cpu'.ac = c.ac /\ cpu'.ov = c.ov
<1>1. Parity(c.acc) \in BOOLEAN
  BY DEF Parity
<1>2. cpu' = c \/ cpu' = [c EXCEPT !.p = Parity(c.acc)]
  BY DEF Retire, UpdateParity
<1> HIDE DEF Parity
<1> QED
  BY <1>1, <1>2 DEF RegisterFile

\* ADD: A and CY hold the exact sum.
LEMMA AddEffect ==
    ASSUME NEW c \in RegisterFile, NEW v \in Registers
    PROVE  /\ Add(c, v) \in RegisterFile
           /\ c.acc + v - Add(c, v).acc = Bit(Add(c, v).cy) * Byte
<1>1. c.acc \in Registers /\ c.acc + v + 0 = c.acc + v
  BY ByteType DEF RegisterFile, Registers
<1>2. (c.acc + v) % Byte \in Registers
  BY <1>1, CarryOut
<1>3. 0 + (c.acc + v - ((c.acc + v) % Byte)) = Bit(Carries(c.acc, v, 0)) * Byte
  BY <1>1, CarryOut
<1>4. Add(c, v).acc = (c.acc + v) % Byte /\ Add(c, v).cy = Carries(c.acc, v, 0)
  BY DEF Add, RegisterFile
<1>5. Add(c, v).cy \in BOOLEAN /\ Add(c, v).ac \in BOOLEAN /\ Add(c, v).ov \in BOOLEAN
  BY DEF Add, RegisterFile, Carries
<1>6. Add(c, v) = [c EXCEPT !.acc = Add(c, v).acc, !.cy = Add(c, v).cy,
                            !.ac = Add(c, v).ac, !.ov = Add(c, v).ov]
  BY DEF Add, RegisterFile
<1>7. Add(c, v) \in RegisterFile
  BY <1>2, <1>4, <1>5, <1>6, Updated
<1> QED
  BY <1>1, <1>2, <1>3, <1>4, <1>7, ByteType DEF Registers

\* ADDC: A and CY hold the exact sum, the carry in included.
LEMMA AddcEffect ==
    ASSUME NEW c \in RegisterFile, NEW v \in Registers
    PROVE  /\ Addc(c, v) \in RegisterFile
           /\ Bit(c.cy) + (c.acc + v - Addc(c, v).acc) = Bit(Addc(c, v).cy) * Byte
<1>1. c.acc \in Registers /\ Bit(c.cy) \in 0..1
  BY BitType DEF RegisterFile
<1>2. /\ (c.acc + v + Bit(c.cy)) % Byte \in Registers
      /\ Bit(c.cy) + (c.acc + v - ((c.acc + v + Bit(c.cy)) % Byte))
             = Bit(Carries(c.acc, v, Bit(c.cy))) * Byte
  BY <1>1, CarryOut
<1>3. /\ Addc(c, v).acc = (c.acc + v + Bit(c.cy)) % Byte
      /\ Addc(c, v).cy = Carries(c.acc, v, Bit(c.cy))
  BY DEF Addc, RegisterFile
<1>4. Addc(c, v).cy \in BOOLEAN /\ Addc(c, v).ac \in BOOLEAN /\ Addc(c, v).ov \in BOOLEAN
  BY DEF Addc, RegisterFile, Carries
<1>5. Addc(c, v) = [c EXCEPT !.acc = Addc(c, v).acc, !.cy = Addc(c, v).cy,
                             !.ac = Addc(c, v).ac, !.ov = Addc(c, v).ov]
  BY DEF Addc, RegisterFile
<1>6. Addc(c, v) \in RegisterFile
  BY <1>2, <1>3, <1>4, <1>5, Updated
<1> QED
  BY <1>2, <1>3, <1>6

\* What SUBB does to A and CY: the operand is cut with the borrow in it.
LEMMA SubbFields ==
    ASSUME NEW c \in RegisterFile, NEW v \in Registers
    PROVE  LET w == WithBorrow(v, Bit(c.cy))
           IN  /\ w \in Registers
               /\ Subb(c, v) \in RegisterFile
               /\ Subb(c, v).acc = (c.acc - w) % Byte
               /\ Subb(c, v).cy = (c.acc < w)
<1> DEFINE w == WithBorrow(v, Bit(c.cy))
<1>1. Bit(c.cy) \in 0..1 /\ c.acc \in Registers
  BY BitType DEF RegisterFile
<1>2. w \in Registers
  <2> DEFINE x == v + Bit(c.cy)
  <2>1. x \in Int
    BY <1>1, ByteType DEF Registers
  <2>2. x % Byte \in Registers
    <3> HIDE DEF x
    <3> QED
      BY <2>1, ByteType, Wrap DEF Registers
  <2> QED
    BY <2>2 DEF WithBorrow
<1>3. (c.acc - w) % Byte \in Registers
  <2> HIDE DEF w
  <2> QED
    BY <1>1, <1>2, BorrowOut
<1>4. Subb(c, v).acc = (c.acc - w) % Byte /\ Subb(c, v).cy = (c.acc < w)
  BY DEF Subb, RegisterFile
<1>5. Subb(c, v).cy \in BOOLEAN /\ Subb(c, v).ac \in BOOLEAN /\ Subb(c, v).ov \in BOOLEAN
  BY DEF Subb, RegisterFile, DifferenceOverflows
<1>6. Subb(c, v) = [c EXCEPT !.acc = Subb(c, v).acc, !.cy = Subb(c, v).cy,
                             !.ac = Subb(c, v).ac, !.ov = Subb(c, v).ov]
  BY DEF Subb, RegisterFile
<1>7. Subb(c, v) \in RegisterFile
  BY <1>3, <1>4, <1>5, <1>6, Updated
<1> QED
  BY <1>2, <1>4, <1>7

\* Exact unless the borrow is lost.
LEMMA SubbEffect ==
    ASSUME NEW c \in RegisterFile, NEW v \in Registers, ~(v = Byte - 1 /\ c.cy)
    PROVE  Bit(c.cy) + (Subb(c, v).acc - c.acc + v) = Bit(Subb(c, v).cy) * Byte
<1> DEFINE w == v + Bit(c.cy)
<1>1. Bit(c.cy) \in 0..1 /\ c.acc \in Registers /\ c.cy \in BOOLEAN
  BY BitType DEF RegisterFile
<1>2. w \in Registers
  BY <1>1, ByteType DEF Registers, Bit
<1>3. WithBorrow(v, Bit(c.cy)) = w
  <2>1. w % Byte = w
    <3> HIDE DEF w
    <3> QED
      BY <1>2, ByteType, Wrap DEF Registers
  <2> QED
    BY <2>1 DEF WithBorrow
<1>4. /\ (c.acc - w) % Byte \in Registers
      /\ ((c.acc - w) % Byte) - c.acc + w = Bit(c.acc < w) * Byte
  <2> HIDE DEF w
  <2> QED
    BY <1>1, <1>2, BorrowOut
<1>5. Subb(c, v).acc = (c.acc - w) % Byte /\ Subb(c, v).cy = (c.acc < w)
  <2> HIDE DEF w
  <2> QED
    BY <1>3, SubbFields
<1> DEFINE r == (c.acc - w) % Byte
<1>6. Bit(Subb(c, v).cy) = Bit(c.acc < w)
  BY <1>5
<1> HIDE DEF r
<1>7. Subb(c, v).acc = r /\ r \in Registers /\ r - c.acc + w = Bit(Subb(c, v).cy) * Byte
  BY <1>4, <1>5, <1>6 DEF r
<1> QED
  BY <1>1, <1>7, ByteType DEF Registers

\* RLC adds A to itself and the carry in.
LEMMA RotateLeftEffect ==
    ASSUME NEW c \in RegisterFile
    PROVE  /\ RotateLeft(c) \in RegisterFile
           /\ Bit(c.cy) + (2 * c.acc - RotateLeft(c).acc) = Bit(RotateLeft(c).cy) * Byte
<1>1. /\ c.acc \in Registers /\ Bit(c.cy) \in 0..1
      /\ 2 * c.acc + Bit(c.cy) = c.acc + c.acc + Bit(c.cy)
      /\ c.acc + c.acc = 2 * c.acc
  BY ByteType, BitType DEF RegisterFile, Registers
<1>2. /\ (2 * c.acc + Bit(c.cy)) % Byte \in Registers
      /\ Bit(c.cy) + (2 * c.acc - ((2 * c.acc + Bit(c.cy)) % Byte))
             = Bit(Carries(c.acc, c.acc, Bit(c.cy))) * Byte
  <2> DEFINE a == c.acc
             k == Bit(c.cy)
  <2>1. a \in Registers /\ k \in 0..1 /\ a + a + k = 2 * a + k /\ a + a = 2 * a
    BY <1>1
  <2> HIDE DEF a, k
  <2>2. /\ (a + a + k) % Byte \in Registers
        /\ k + (a + a - ((a + a + k) % Byte)) = Bit(Carries(a, a, k)) * Byte
    BY <2>1, CarryOut
  <2> DEFINE x == (2 * a + k) % Byte
             y == (a + a + k) % Byte
             z == Bit(Carries(a, a, k)) * Byte
  <2>3. x = y
    BY <2>1
  <2>4. y \in Registers /\ k + (a + a - y) = z
    BY <2>2
  <2> HIDE DEF x, y, z
  <2>5. x \in Registers /\ k + (2 * a - x) = z
    BY <2>1, <2>3, <2>4, ByteType DEF Registers
  <2> QED
    BY <2>5 DEF a, k, x, z
<1>3. Carries(c.acc, c.acc, Bit(c.cy)) = Negative(c.acc)
  BY <1>1, ByteType DEF Carries, Negative, Registers
<1>4. /\ RotateLeft(c).acc = (2 * c.acc + Bit(c.cy)) % Byte
      /\ RotateLeft(c).cy = Negative(c.acc)
      /\ RotateLeft(c).ac = c.ac /\ RotateLeft(c).ov = c.ov
  BY DEF RotateLeft, RegisterFile
<1>5. /\ RotateLeft(c).cy \in BOOLEAN
      /\ RotateLeft(c).ac \in BOOLEAN /\ RotateLeft(c).ov \in BOOLEAN
  BY DEF RotateLeft, RegisterFile, Negative
<1>6. RotateLeft(c) = [c EXCEPT !.acc = RotateLeft(c).acc, !.cy = RotateLeft(c).cy,
                                !.ac = RotateLeft(c).ac, !.ov = RotateLeft(c).ov]
  BY DEF RotateLeft, RegisterFile
<1>7. RotateLeft(c) \in RegisterFile
  BY <1>2, <1>4, <1>5, <1>6, Updated
<1> QED
  BY <1>2, <1>3, <1>4, <1>7

\* RRC shifts within a register.
LEMMA RotateRightType ==
    ASSUME NEW c \in RegisterFile
    PROVE  RotateRight(c) \in RegisterFile
<1>1. c.acc \in Registers /\ Bit(c.cy) \in 0..1
  BY BitType DEF RegisterFile
<1>2. c.acc \div 2 + Bit(c.cy) * (Byte \div 2) \in Registers
  <2>1. c.acc \div 2 \in 0..((Byte \div 2) - 1)
    BY <1>1, ByteType DEF Registers
  <2>2. Bit(c.cy) * (Byte \div 2) \in {0, Byte \div 2}
    BY <1>1, ByteType
  <2> QED
    BY <2>1, <2>2, ByteType DEF Registers
<1>3. /\ RotateRight(c).acc = c.acc \div 2 + Bit(c.cy) * (Byte \div 2)
      /\ RotateRight(c).cy = (c.acc % 2 = 1)
      /\ RotateRight(c).ac = c.ac /\ RotateRight(c).ov = c.ov
  BY DEF RotateRight, RegisterFile
<1>4. /\ RotateRight(c).cy \in BOOLEAN
      /\ RotateRight(c).ac \in BOOLEAN /\ RotateRight(c).ov \in BOOLEAN
  BY <1>3 DEF RegisterFile
<1>5. RotateRight(c) = [c EXCEPT !.acc = RotateRight(c).acc, !.cy = RotateRight(c).cy,
                                 !.ac = RotateRight(c).ac, !.ov = RotateRight(c).ov]
  BY DEF RotateRight, RegisterFile
<1> QED
  BY <1>2, <1>3, <1>4, <1>5, Updated

\* DA corrects within a register.
LEMMA DecimalAdjustType ==
    ASSUME NEW c \in RegisterFile
    PROVE  DecimalAdjust(c) \in RegisterFile
<1> DEFINE fix == Bit(Low(c.acc) >= Digit \/ c.ac) * (Half - Digit)
                      + Bit(HighNeedsFix(c)) * (Half - Digit) * Half
           x == c.acc + fix
<1>1. x \in Int
  <2>1. c.acc \in Int /\ Half \in Int /\ Digit \in Int
    BY ByteType, AluAssumption DEF RegisterFile, Registers
  <2>2. Bit(Low(c.acc) >= Digit \/ c.ac) \in Int /\ Bit(HighNeedsFix(c)) \in Int
    BY DEF Bit
  <2>3. fix \in Int
    <3> DEFINE p == Bit(Low(c.acc) >= Digit \/ c.ac)
               q == Bit(HighNeedsFix(c))
    <3>1. p \in Int /\ q \in Int
      BY <2>2
    <3> HIDE DEF p, q
    <3>2. p * (Half - Digit) + q * (Half - Digit) * Half \in Int
      BY <2>1, <3>1
    <3> QED
      BY <3>2 DEF p, q
  <2> HIDE DEF fix
  <2> QED
    BY <2>1, <2>3
<1>2. x % Byte \in Registers
  <2> HIDE DEF x
  <2> QED
    BY <1>1, ByteType, Wrap DEF Registers
<1>3. /\ DecimalAdjust(c).acc = x % Byte
      /\ DecimalAdjust(c).cy = (c.cy \/ HighNeedsFix(c))
      /\ DecimalAdjust(c).ac = c.ac /\ DecimalAdjust(c).ov = c.ov
  BY DEF DecimalAdjust, RegisterFile
<1>4. /\ DecimalAdjust(c).cy \in BOOLEAN
      /\ DecimalAdjust(c).ac \in BOOLEAN /\ DecimalAdjust(c).ov \in BOOLEAN
  BY <1>3 DEF RegisterFile
<1>5. DecimalAdjust(c) = [c EXCEPT !.acc = DecimalAdjust(c).acc, !.cy = DecimalAdjust(c).cy,
                                   !.ac = DecimalAdjust(c).ac, !.ov = DecimalAdjust(c).ov]
  BY DEF DecimalAdjust, RegisterFile
<1> HIDE DEF x
<1> QED
  BY <1>2, <1>3, <1>4, <1>5, Updated

\* A product of two registers fits two registers.
LEMMA ProductInRange ==
    ASSUME NEW a \in Registers, NEW b \in Registers
    PROVE  a * b \in Nat /\ a * b < Byte * Byte
<1>1. a \in Nat /\ b \in Nat /\ a <= Byte - 1 /\ b <= Byte - 1 /\ Byte \in Nat \ {0}
  BY ByteType DEF Registers
<1>2. a * b \in Nat /\ a * b <= (Byte - 1) * b
  BY <1>1
<1>3. (Byte - 1) * b <= (Byte - 1) * Byte /\ (Byte - 1) * Byte < Byte * Byte
  BY <1>1
<1> QED
  BY <1>1, <1>2, <1>3

\* MUL leaves a register in each of A and B.
LEMMA MultiplyType ==
    ASSUME NEW c \in RegisterFile
    PROVE  Multiply(c) \in RegisterFile
<1> DEFINE product == c.acc * c.b
<1>1. c.acc \in Registers /\ c.b \in Registers
  BY DEF RegisterFile
<1>2. product \in Nat /\ product < Byte * Byte
  BY <1>1, ProductInRange
<1> HIDE DEF product
<1>3. product % Byte \in Registers
  BY <1>2, ByteType, Wrap DEF Registers
<1>4. product \div Byte \in Registers
  <2>1. /\ product \div Byte \in Nat
        /\ product = Byte * (product \div Byte) + (product % Byte)
    BY <1>2, ByteType, Quotient
  <2> DEFINE q == product \div Byte
  <2>2. q \in Nat /\ Byte * q < Byte * Byte /\ Byte \in Nat \ {0}
    BY <1>2, <1>3, <2>1, ByteType DEF Registers
  <2> HIDE DEF q
  <2>3. q < Byte
    BY <2>2
  <2> QED
    BY <2>2, <2>3 DEF q, Registers
<1>5. /\ Multiply(c).acc = product % Byte /\ Multiply(c).b = product \div Byte
      /\ Multiply(c).cy = FALSE /\ Multiply(c).ov = (product >= Byte)
  BY DEF Multiply, RegisterFile, product
<1>6. Multiply(c) = [c EXCEPT !.acc = Multiply(c).acc, !.b = Multiply(c).b,
                              !.cy = Multiply(c).cy, !.ov = Multiply(c).ov]
  BY DEF Multiply, RegisterFile
<1>7. Multiply(c).acc \in Registers /\ Multiply(c).b \in Registers
  BY <1>3, <1>4, <1>5
<1>8. Multiply(c).cy \in BOOLEAN /\ Multiply(c).ov \in BOOLEAN
  BY DEF Multiply, RegisterFile
<1> QED
  BY <1>6, <1>7, <1>8, UpdatedWithB

\* DIV leaves a register in each of A and B.
LEMMA DivideType ==
    ASSUME NEW c \in RegisterFile
    PROVE  Divide(c) \in RegisterFile
<1>1. c.acc \in Registers /\ c.b \in Registers
  BY DEF RegisterFile
<1>2. CASE c.b = 0
  BY <1>2 DEF Divide, RegisterFile
<1>3. CASE c.b # 0
  <2>1. c.acc \in Nat /\ c.b \in Nat \ {0} /\ c.acc < Byte /\ c.b < Byte
    BY <1>1, <1>3, ByteType DEF Registers
  <2>2. c.acc \div c.b \in Registers /\ c.acc % c.b \in Registers
    <3> DEFINE a == c.acc
               b == c.b
    <3>1. a \in Nat /\ b \in Nat \ {0} /\ a < Byte /\ b < Byte
      BY <2>1
    <3> HIDE DEF a, b
    <3>2. a \div b \in Nat /\ a \div b <= a
      BY <3>1, Quotient
    <3>3. a % b \in 0..(b - 1)
      BY <3>1, Wrap
    <3>4. a \div b \in Registers /\ a % b \in Registers
      BY <3>1, <3>2, <3>3, ByteType DEF Registers
    <3> QED
      BY <3>4 DEF a, b
  <2>3. /\ Divide(c).acc = c.acc \div c.b /\ Divide(c).b = c.acc % c.b
        /\ Divide(c).cy = FALSE /\ Divide(c).ov = FALSE
    BY <1>3 DEF Divide, RegisterFile
  <2>4. Divide(c) = [c EXCEPT !.acc = Divide(c).acc, !.b = Divide(c).b,
                              !.cy = Divide(c).cy, !.ov = Divide(c).ov]
    BY <1>3 DEF Divide, RegisterFile
  <2> QED
    BY <2>2, <2>3, <2>4, UpdatedWithB
<1> QED
  BY <1>2, <1>3

------------------------------------------------------------------------------
\* Chains

ChainState == [kind : {"none", "add", "sub"}, owed : Int, weight : Nat]

\* A chain whose lower registers owe exactly the carry still owes exactly the
\* carry with one register more.
LEMMA LinkExact ==
    ASSUME bin \in ChainState, NEW kind \in {"add", "sub"},
           NEW carry \in 0..1, NEW exact \in Int, NEW out \in 0..1,
           bin.kind = kind => bin.owed = carry * bin.weight,
           carry + exact = out * Byte
    PROVE  /\ Link(kind, carry, exact).owed = out * Link(kind, carry, exact).weight
<1> DEFINE old == IF Extends(kind) THEN bin ELSE [NoChain EXCEPT !.owed = carry]
<1>1. old \in ChainState /\ old.owed = carry * old.weight
  <2>1. CASE Extends(kind)
    BY <2>1 DEF Extends
  <2>2. CASE ~Extends(kind)
    BY <2>2 DEF NoChain, ChainState
  <2> QED
    BY <2>1, <2>2
<1>2. /\ Link(kind, carry, exact).owed = old.owed + exact * old.weight
      /\ Link(kind, carry, exact).weight = old.weight * Byte
  BY DEF Link
<1> DEFINE w == old.weight
<1>3. w \in Nat /\ Byte \in Nat
  BY <1>1, ByteType DEF ChainState
<1> HIDE DEF w
<1>4. carry * w + exact * w = (carry + exact) * w
  BY <1>3
<1>5. (out * Byte) * w = out * (w * Byte)
  BY <1>3
<1> QED
  BY <1>1, <1>2, <1>4, <1>5 DEF w

\* Link makes a chain of the kind it is given.
LEMMA LinkType ==
    ASSUME bin \in ChainState, NEW kind \in {"add", "sub"},
           NEW carry \in 0..1, NEW exact \in Int
    PROVE  /\ Link(kind, carry, exact) \in ChainState
           /\ Link(kind, carry, exact).kind = kind
<1> DEFINE old == IF Extends(kind) THEN bin ELSE [NoChain EXCEPT !.owed = carry]
<1>1. old.owed \in Int /\ old.weight \in Nat
  BY DEF NoChain, ChainState
<1>2. Link(kind, carry, exact) = [kind |-> kind, owed |-> old.owed + exact * old.weight,
                                  weight |-> old.weight * Byte]
  BY DEF Link
<1> HIDE DEF old
<1>3. old.owed + exact * old.weight \in Int /\ old.weight * Byte \in Nat
  BY <1>1, ByteType
<1> QED
  BY <1>2, <1>3 DEF ChainState

------------------------------------------------------------------------------
\* The inductive invariant

Types == cpu \in RegisterFile /\ bin \in ChainState

\* ADD, ADDC, SUBB, RLC and the rest keep A and B within a register.
LEMMA TypesInit == Init => Types
BY ByteType DEF Init, Types, RegisterFile, ChainState, NoChain, Registers

\* Other instructions end the chain.
LEMMA BrokenChain == Broken => bin' \in ChainState /\ bin'.kind = "none"
BY DEF Broken, NoChain, ChainState

\* What one step does to the chain: it breaks it, leaves it with CY as it was,
\* or adds a register to it.
ChainStep ==
    \/ bin'.kind = "none"
    \/ bin' = bin /\ cpu'.cy = cpu.cy
    \/ \E kind \in {"add", "sub"} : \E exact \in Int :
          /\ bin' = Link(kind, Bit(cpu.cy), exact)
          /\ (kind = "sub" /\ "borrow_into_ff" \in Liberties)
                \/ Bit(cpu.cy) + exact = Bit(cpu'.cy) * Byte
    \/ /\ bin'.kind = "add"
       /\ bin'.owed = Bit(cpu'.cy) * bin'.weight

\* Every instruction keeps the types and does to the chain what ChainStep says.
LEMMA TypesStep == Types /\ [Next]_vars => Types' /\ ChainStep
<1> SUFFICES ASSUME Types, [Next]_vars
             PROVE  Types' /\ ChainStep
  OBVIOUS
<1> USE DEF Types
<1>0. /\ cpu.acc \in Registers /\ cpu.b \in Registers
      /\ cpu.cy \in BOOLEAN /\ Bit(cpu.cy) \in 0..1
  BY BitType DEF RegisterFile
<1>1. CASE ExecAdd
  <2>1. PICK v \in Registers :
            /\ Retire(Add(cpu, v))
            /\ bin' = [NoChain EXCEPT !.kind = "add", !.weight = Byte,
                                      !.owed = cpu.acc + v - Add(cpu, v).acc]
    BY <1>1 DEF ExecAdd
  <2>2. /\ Add(cpu, v) \in RegisterFile
        /\ cpu.acc + v - Add(cpu, v).acc = Bit(Add(cpu, v).cy) * Byte
    BY AddEffect
  <2>3. cpu' \in RegisterFile /\ cpu'.cy = Add(cpu, v).cy
    BY <2>1, <2>2, Retired
  <2>4. /\ bin'.kind = "add" /\ bin'.weight = Byte
        /\ bin'.owed = cpu.acc + v - Add(cpu, v).acc
    BY <2>1 DEF NoChain
  <2>5. bin'.owed = Bit(cpu'.cy) * bin'.weight
    BY <2>2, <2>3, <2>4
  <2>6. cpu.acc + v - Add(cpu, v).acc \in Int
    BY <1>0, <2>2, ByteType DEF RegisterFile, Registers
  <2>7. bin' \in ChainState
    BY <2>1, <2>6, ByteType DEF NoChain, ChainState
  <2> QED
    BY <2>3, <2>4, <2>5, <2>7 DEF ChainStep
<1>2. CASE ExecAddc
  <2>1. PICK v \in Registers :
            /\ Retire(Addc(cpu, v))
            /\ bin' = Link("add", Bit(cpu.cy), cpu.acc + v - Addc(cpu, v).acc)
    BY <1>2 DEF ExecAddc
  <2>2. /\ Addc(cpu, v) \in RegisterFile
        /\ Bit(cpu.cy) + (cpu.acc + v - Addc(cpu, v).acc) = Bit(Addc(cpu, v).cy) * Byte
    BY AddcEffect
  <2>3. cpu' \in RegisterFile /\ cpu'.cy = Addc(cpu, v).cy
    BY <2>1, <2>2, Retired
  <2>4. cpu.acc + v - Addc(cpu, v).acc \in Int
    BY <1>0, <2>2, ByteType DEF RegisterFile, Registers
  <2>5. bin' \in ChainState
    BY <1>0, <2>1, <2>4, LinkType
  <2> QED
    BY <2>1, <2>2, <2>3, <2>4, <2>5 DEF ChainStep
<1>3. CASE ExecSubb
  <2>1. PICK v \in Registers :
            /\ (v = Byte - 1 /\ cpu.cy) => "borrow_into_ff" \in Liberties
            /\ Retire(Subb(cpu, v))
            /\ bin' = Link("sub", Bit(cpu.cy), Subb(cpu, v).acc - cpu.acc + v)
    BY <1>3 DEF ExecSubb
  <2>2. Subb(cpu, v) \in RegisterFile
    BY SubbFields
  <2>3. cpu' \in RegisterFile /\ cpu'.cy = Subb(cpu, v).cy
    BY <2>1, <2>2, Retired
  <2>4. Subb(cpu, v).acc - cpu.acc + v \in Int
    BY <1>0, <2>2, ByteType DEF RegisterFile, Registers
  <2>5. bin' \in ChainState
    BY <1>0, <2>1, <2>4, LinkType
  <2>6. \/ "borrow_into_ff" \in Liberties
        \/ Bit(cpu.cy) + (Subb(cpu, v).acc - cpu.acc + v) = Bit(cpu'.cy) * Byte
    BY <2>1, <2>3, SubbEffect
  <2> QED
    BY <2>1, <2>3, <2>4, <2>5, <2>6 DEF ChainStep
<1>4. CASE ExecRotateLeft
  <2>1. /\ Retire(RotateLeft(cpu))
        /\ bin' = Link("add", Bit(cpu.cy), 2 * cpu.acc - RotateLeft(cpu).acc)
    BY <1>4 DEF ExecRotateLeft
  <2>2. /\ RotateLeft(cpu) \in RegisterFile
        /\ Bit(cpu.cy) + (2 * cpu.acc - RotateLeft(cpu).acc) = Bit(RotateLeft(cpu).cy) * Byte
    BY RotateLeftEffect
  <2>3. cpu' \in RegisterFile /\ cpu'.cy = RotateLeft(cpu).cy
    BY <2>1, <2>2, Retired
  <2>4. 2 * cpu.acc - RotateLeft(cpu).acc \in Int
    BY <1>0, <2>2, ByteType DEF RegisterFile, Registers
  <2>5. bin' \in ChainState
    BY <1>0, <2>1, <2>4, LinkType
  <2> QED
    BY <2>1, <2>2, <2>3, <2>4, <2>5 DEF ChainStep
<1>5. CASE ExecDecimalAdjust
  <2>1. Retire(DecimalAdjust(cpu)) /\ bin' = NoChain
    BY <1>5 DEF ExecDecimalAdjust
  <2> QED
    BY <2>1, DecimalAdjustType, Retired DEF ChainStep, ChainState, NoChain
<1>6. CASE ExecRotateRight
  BY <1>6, RotateRightType, Retired, BrokenChain DEF ExecRotateRight, ChainStep
<1>7. CASE ExecMultiply
  BY <1>7, MultiplyType, Retired, BrokenChain DEF ExecMultiply, ChainStep
<1>8. CASE ExecDivide
  BY <1>8, DivideType, Retired, BrokenChain DEF ExecDivide, ChainStep
<1>9. CASE ExecLoad
  <2>1. PICK v \in Registers : Retire([cpu EXCEPT !.acc = v]) /\ bin' = bin
    BY <1>9 DEF ExecLoad
  <2>2. [cpu EXCEPT !.acc = v] \in RegisterFile /\ [cpu EXCEPT !.acc = v].cy = cpu.cy
    BY DEF RegisterFile
  <2> QED
    BY <2>1, <2>2, Retired DEF ChainStep
<1>10. CASE ExecLoadB
  <2>1. PICK v \in Registers : Retire([cpu EXCEPT !.b = v]) /\ bin' = bin
    BY <1>10 DEF ExecLoadB
  <2>2. [cpu EXCEPT !.b = v] \in RegisterFile /\ [cpu EXCEPT !.b = v].cy = cpu.cy
    BY DEF RegisterFile
  <2> QED
    BY <2>1, <2>2, Retired DEF ChainStep
<1>11. CASE ExecWriteCarry
  <2>1. PICK carry \in BOOLEAN : Retire([cpu EXCEPT !.cy = carry])
    BY <1>11 DEF ExecWriteCarry
  <2>2. [cpu EXCEPT !.cy = carry] \in RegisterFile
    BY DEF RegisterFile
  <2> QED
    BY <1>11, <2>1, <2>2, Retired, BrokenChain DEF ExecWriteCarry, ChainStep
<1>12. CASE ExecWritePsw
  <2>1. PICK carry, aux, over, parity \in BOOLEAN :
            Retire([cpu EXCEPT !.cy = carry, !.ac = aux, !.ov = over, !.p = parity])
    BY <1>12 DEF ExecWritePsw
  <2>2. [cpu EXCEPT !.cy = carry, !.ac = aux, !.ov = over, !.p = parity] \in RegisterFile
    BY DEF RegisterFile
  <2> QED
    BY <1>12, <2>1, <2>2, Retired, BrokenChain DEF ExecWritePsw, ChainStep
<1>13. CASE UNCHANGED vars
  BY <1>13 DEF vars, ChainStep
<1> QED
  BY <1>1, <1>2, <1>3, <1>4, <1>5, <1>6, <1>7, <1>8, <1>9, <1>10, <1>11, <1>12, <1>13
     DEF Next, Arithmetic, Moves

------------------------------------------------------------------------------
\* The theorems

\* Whatever chain of instructions the firmware runs, A and B hold values of a
\* register and the flags are flags.
THEOREM RegistersKeepTheirWidth == Spec => []Types
BY TypesInit, TypesStep, PTL DEF Spec

\* One more register, and the chain still owes the carry.
LEMMA ChainExact ==
    ASSUME Types, Types', ChainStep, NEW kind \in {"add", "sub"},
           ~(kind = "sub" /\ "borrow_into_ff" \in Liberties),
           bin.kind = kind => bin.owed = Bit(cpu.cy) * bin.weight
    PROVE  bin'.kind = kind => bin'.owed = Bit(cpu'.cy) * bin'.weight
<1>0. Bit(cpu.cy) \in 0..1 /\ Bit(cpu'.cy) \in 0..1
  BY BitType DEF Types, RegisterFile
<1>1. CASE bin'.kind = "none"
  BY <1>1
<1>2. CASE bin' = bin /\ cpu'.cy = cpu.cy
  BY <1>2
<1>3. CASE \E k \in {"add", "sub"} : \E exact \in Int :
              /\ bin' = Link(k, Bit(cpu.cy), exact)
              /\ (k = "sub" /\ "borrow_into_ff" \in Liberties)
                    \/ Bit(cpu.cy) + exact = Bit(cpu'.cy) * Byte
  <2>1. PICK k \in {"add", "sub"}, exact \in Int :
              /\ bin' = Link(k, Bit(cpu.cy), exact)
              /\ (k = "sub" /\ "borrow_into_ff" \in Liberties)
                    \/ Bit(cpu.cy) + exact = Bit(cpu'.cy) * Byte
    BY <1>3
  <2>2. bin'.kind = k
    BY <1>0, <2>1, LinkType DEF Types
  <2>3. CASE k = kind
    <3>1. Link(kind, Bit(cpu.cy), exact).owed
              = Bit(cpu'.cy) * Link(kind, Bit(cpu.cy), exact).weight
      BY <1>0, <2>1, <2>3, LinkExact DEF Types
    <3> QED
      BY <2>1, <2>3, <3>1
  <2> QED
    BY <2>2, <2>3
<1>4. CASE bin'.kind = "add" /\ bin'.owed = Bit(cpu'.cy) * bin'.weight
  BY <1>4
<1> QED
  BY <1>1, <1>2, <1>3, <1>4 DEF ChainStep

\* ADD, ADDC and RLC chained over any number of registers add exactly, for
\* registers of any size.
THEOREM ChainedAdditionIsExact == Spec => []MultiByteSum
<1>1. Init => MultiByteSum
  BY DEF Init, MultiByteSum, NoChain
<1>2. Types /\ MultiByteSum /\ [Next]_vars => MultiByteSum'
  <2> SUFFICES ASSUME Types, MultiByteSum, [Next]_vars
               PROVE  MultiByteSum'
    OBVIOUS
  <2>1. Types' /\ ChainStep
    BY TypesStep
  <2>2. bin'.kind = "add" => bin'.owed = Bit(cpu'.cy) * bin'.weight
    BY <2>1, ChainExact DEF MultiByteSum
  <2> QED
    BY <2>2 DEF MultiByteSum
<1> QED
  BY <1>1, <1>2, RegistersKeepTheirWidth, PTL DEF Spec

\* SUBB chained over any number of registers subtracts exactly, for registers of
\* any size, as long as no SUBB of the largest operand finds CY set.
THEOREM ChainedSubtractionIsExact ==
    ASSUME "borrow_into_ff" \notin Liberties
    PROVE  Spec => []MultiByteDifference
<1>1. Init => MultiByteDifference
  BY DEF Init, MultiByteDifference, NoChain
<1>2. Types /\ MultiByteDifference /\ [Next]_vars => MultiByteDifference'
  <2> SUFFICES ASSUME Types, MultiByteDifference, [Next]_vars
               PROVE  MultiByteDifference'
    OBVIOUS
  <2>1. Types' /\ ChainStep
    BY TypesStep
  <2>2. bin'.kind = "sub" => bin'.owed = Bit(cpu'.cy) * bin'.weight
    BY <2>1, ChainExact DEF MultiByteDifference
  <2> QED
    BY <2>2 DEF MultiByteDifference
<1> QED
  BY <1>1, <1>2, RegistersKeepTheirWidth, PTL DEF Spec

------------------------------------------------------------------------------
\* What one instruction does with any registers

\* DIV by anything but zero.
LEMMA DivideFields ==
    ASSUME NEW c \in RegisterFile, c.b # 0
    PROVE  Divide(c).acc = c.acc \div c.b /\ Divide(c).b = c.acc % c.b
BY DEF Divide, RegisterFile

\* DIV is exact on any registers, and undoes a MUL that left OV clear.
LEMMA DivisionIsExact == Types => DivisionExact
<1> SUFFICES ASSUME Types, cpu.b # 0
             PROVE  /\ Divide(cpu).acc * cpu.b + Divide(cpu).b = cpu.acc
                    /\ Divide(cpu).b < cpu.b
                    /\ ~Multiply(cpu).ov =>
                           /\ Divide([Multiply(cpu) EXCEPT !.b = cpu.b]).acc = cpu.acc
                           /\ Divide([Multiply(cpu) EXCEPT !.b = cpu.b]).b = 0
  BY DEF DivisionExact
<1> DEFINE a == cpu.acc
           b == cpu.b
<1>1. /\ cpu \in RegisterFile /\ a \in Registers /\ b \in Registers
      /\ a \in Nat /\ b \in Nat \ {0} /\ Byte \in Nat \ {0}
  BY ByteType DEF Types, RegisterFile, Registers
<1>2. Divide(cpu).acc = a \div b /\ Divide(cpu).b = a % b
  BY <1>1, DivideFields
<1>3. Divide(cpu).acc * b + Divide(cpu).b = a /\ Divide(cpu).b < b
  <2> HIDE DEF a, b
  <2> DEFINE q == a \div b
             r == a % b
  <2>1. q \in Nat /\ a = b * q + r
    BY <1>1, Quotient
  <2>2. r \in 0..(b - 1)
    BY <1>1, Wrap
  <2> HIDE DEF q, r
  <2>3. q * b + r = a /\ r < b
    BY <1>1, <2>1, <2>2
  <2> QED
    BY <1>2, <2>3 DEF q, r
<1>4. ASSUME ~Multiply(cpu).ov
      PROVE  /\ Divide([Multiply(cpu) EXCEPT !.b = b]).acc = a
             /\ Divide([Multiply(cpu) EXCEPT !.b = b]).b = 0
  <2> DEFINE m == [Multiply(cpu) EXCEPT !.b = b]
  <2>1. Multiply(cpu).acc = (a * b) % Byte /\ Multiply(cpu).ov = (a * b >= Byte)
    BY <1>1 DEF Multiply, RegisterFile
  <2>2. (a * b) % Byte = a * b
    <3> HIDE DEF a, b
    <3> DEFINE x == a * b
    <3>1. x \in Nat
      BY <1>1
    <3>2. ~(x >= Byte)
      BY <1>4, <2>1
    <3> HIDE DEF x
    <3>3. x \in 0..(Byte - 1) /\ x \in Int
      BY <1>1, <3>1, <3>2
    <3>4. x % Byte = x
      BY <1>1, <3>3, Wrap
    <3> QED
      BY <3>4 DEF x
  <2>3. m \in RegisterFile /\ m.acc = a * b /\ m.b = b
    BY <1>1, <2>1, <2>2, MultiplyType DEF RegisterFile
  <2>4. m.b # 0
    BY <1>1, <2>3
  <2> HIDE DEF m
  <2>5. Divide(m).acc = (a * b) \div b /\ Divide(m).b = (a * b) % b
    BY <2>3, <2>4, DivideFields
  <2>6. (a * b) \div b = a /\ (a * b) % b = 0
    BY <1>1, Factor
  <2> QED
    BY <2>5, <2>6 DEF m
<1> QED
  BY <1>3, <1>4

\* DIV is exact for every dividend and divisor, and undoes a MUL that fitted.
THEOREM DivideUndoesMultiply == Spec => []DivisionExact
BY RegistersKeepTheirWidth, DivisionIsExact, PTL

\* The upper half of a register has the sign bit.
LEMMA SignBit ==
    ASSUME NEW x \in Registers
    PROVE  Sign(x) = Bit(Negative(x))
<1> DEFINE h == Byte \div 2
           q == x \div h
           r == x % h
<1>1. /\ h \in Nat \ {0} /\ Byte = 2 * h
      /\ Sign(x) = q /\ Negative(x) = (x >= h)
  BY ByteType DEF Sign, Negative
<1> HIDE DEF h
<1>2. x \in Nat /\ x < 2 * h
  BY <1>1 DEF Registers
<1>3. q \in Nat /\ x = h * q + r
  BY <1>1, <1>2, Quotient
<1>4. r \in 0..(h - 1)
  BY <1>1, <1>2, Wrap
<1> HIDE DEF q, r
<1>5. q < 2
  <2> SUFFICES ASSUME q >= 2
               PROVE  FALSE
    BY <1>3
  <2>1. h * q >= h * 2
    BY <1>1, <1>3
  <2> QED
    BY <1>1, <1>2, <1>3, <1>4, <2>1
<1>6. (q = 0 /\ ~(x >= h)) \/ (q = 1 /\ x >= h)
  <2>1. q = 0 \/ q = 1
    BY <1>3, <1>5
  <2> QED
    BY <1>1, <1>2, <1>3, <1>4, <2>1
<1> QED
  BY <1>1, <1>6 DEF Bit

\* Half a register separates the signs, whichever way they are tested.
LEMMA SignTest ==
    ASSUME NEW a \in Registers, NEW b \in Registers
    PROVE  (Sign(a) = Sign(b)) = (Negative(a) = Negative(b))
<1>1. Negative(a) \in BOOLEAN /\ Negative(b) \in BOOLEAN
  BY DEF Negative
<1>2. Sign(a) = Bit(Negative(a)) /\ Sign(b) = Bit(Negative(b))
  BY SignBit
<1> QED
  BY <1>1, <1>2 DEF Bit

\* OV of ADD, ADDC and SUBB tells whether the signed result fits.
LEMMA SignedOverflowIsExact == Types => SignedOverflow
<1> SUFFICES ASSUME Types, NEW v \in Registers
             PROVE  LET a == Signed(cpu.acc)
                    IN  /\ Add(cpu, v).ov = Overflows(a + Signed(v))
                        /\ Subb(cpu, v).ov = Overflows(a - Signed(v) - Bit(cpu.cy))
                        /\ ~(cpu.cy /\ v = Byte \div 2 - 1) =>
                               Addc(cpu, v).ov = Overflows(a + Signed(v) + Bit(cpu.cy))
  BY DEF SignedOverflow
<1> DEFINE a == cpu.acc
           h == Byte \div 2
           k == Bit(cpu.cy)
<1>1. /\ cpu \in RegisterFile /\ a \in Registers /\ k \in 0..1
      /\ cpu.cy \in BOOLEAN /\ (cpu.cy = (k = 1))
      /\ h \in Nat \ {0} /\ Byte = 2 * h /\ Byte \in Nat \ {0}
  BY ByteType, BitType DEF Types, RegisterFile, Bit
<1>2. \A x \in Int : Negative(x) = (x >= h) /\ Overflows(x) = (x < -h \/ x >= h)
  BY DEF Negative, Overflows
<1>3. \A x \in Registers : Signed(x) = IF x >= h THEN x - 2 * h ELSE x
  BY <1>1 DEF Signed, Negative
<1>4. Registers = 0..(2 * h - 1)
  BY <1>1 DEF Registers
<1>5. Add(cpu, v).ov = Overflows(Signed(a) + Signed(v))
  <2> DEFINE s == (a + v) % Byte
  <2>1. Add(cpu, v).ov = (Negative(a) = Negative(v) /\ Negative(a) # Negative(s))
    BY DEF Add, Types, RegisterFile
  <2> HIDE DEF a, h, k
  <2> DEFINE x == a + v
  <2>2. x \in Int /\ x >= -Byte /\ x < 2 * Byte /\ s = x % Byte
    BY <1>1, <1>4
  <2> HIDE DEF s, x
  <2>3. (x >= Byte => s = x - Byte) /\ (x \in Registers => s = x)
    BY <2>2, CutOnce
  <2>4. x = a + v
    BY DEF x
  <2> QED
    BY <1>1, <1>2, <1>3, <1>4, <2>1, <2>3, <2>4
<1>6. ASSUME ~(cpu.cy /\ v = h - 1)
      PROVE  Addc(cpu, v).ov = Overflows(Signed(a) + Signed(v) + k)
  <2> DEFINE s == (a + v + k) % Byte
             u == (v + k) % Byte
  <2>1. Addc(cpu, v).ov = (Negative(a) = Negative(u) /\ Negative(a) # Negative(s))
    BY DEF Addc, Types, RegisterFile
  <2> HIDE DEF a, h, k
  <2> DEFINE x == a + v + k
             y == v + k
  <2>2. /\ x \in Int /\ x >= -Byte /\ x < 2 * Byte /\ s = x % Byte
        /\ y \in Int /\ y >= -Byte /\ y < 2 * Byte /\ u = y % Byte
    BY <1>1, <1>4
  <2> HIDE DEF s, u, x, y
  <2>3. /\ (x >= Byte => s = x - Byte) /\ (x \in Registers => s = x)
        /\ (y >= Byte => u = y - Byte) /\ (y \in Registers => u = y)
    BY <2>2, CutOnce
  <2>4. x = a + v + k /\ y = v + k
    BY DEF x, y
  <2>5. ~(k = 1 /\ v = h - 1)
    BY <1>1, <1>6
  <2> QED
    BY <1>1, <1>2, <1>3, <1>4, <2>1, <2>3, <2>4, <2>5
<1>7. Subb(cpu, v).ov = Overflows(Signed(a) - Signed(v) - k)
  <2> DEFINE u == (v + k) % Byte
             s == (a - u) % Byte
  <2>1. Subb(cpu, v).ov = (Negative(a) # Negative(v) /\ Negative(a) # Negative(s))
    BY DEF Subb, WithBorrow, DifferenceOverflows, Types, RegisterFile
  <2> HIDE DEF a, h, k
  <2> DEFINE y == v + k
             x == a - u
  <2>2. y \in Int /\ y >= -Byte /\ y < 2 * Byte /\ u = y % Byte
    BY <1>1, <1>4
  <2>3. s = x % Byte /\ x = a - u /\ y = v + k
    OBVIOUS
  <2> HIDE DEF s, u, x, y
  <2>4. (y >= Byte => u = y - Byte) /\ (y \in Registers => u = y)
    BY <2>2, CutOnce
  <2>5. u \in Registers
    BY <1>1, <1>4, <2>3, <2>4
  <2>6. x \in Int /\ x >= -Byte /\ x < 2 * Byte
    BY <1>1, <1>4, <2>3, <2>5
  <2>7. (x < 0 => s = x + Byte) /\ (x \in Registers => s = x)
    BY <2>3, <2>6, CutOnce
  <2>8. /\ s \in Registers /\ s \in Int
        /\ s = a - v - k \/ s = a - v - k + 2 * h
    BY <1>1, <1>4, <2>3, <2>4, <2>5, <2>7
  <2> DEFINE A == Signed(a)
             V == Signed(v)
  <2>9. /\ A = IF a >= h THEN a - 2 * h ELSE a
        /\ V = IF v >= h THEN v - 2 * h ELSE v
    BY <1>1, <1>3
  <2>10. /\ Negative(a) = (a >= h) /\ Negative(v) = (v >= h) /\ Negative(s) = (s >= h)
    BY <1>1, <1>2, <1>4, <2>8
  <2> HIDE DEF A, V
  <2>11. A - V - k \in Int
    BY <1>1, <1>4, <2>9
  <2>12. Overflows(A - V - k) = (A - V - k < -h \/ A - V - k >= h)
    BY <1>2, <2>11
  <2>13. ((a >= h) # (v >= h) /\ (a >= h) # (s >= h)) = (A - V - k < -h \/ A - V - k >= h)
    BY <1>1, <1>4, <2>8, <2>9
  <2> QED
    BY <2>1, <2>10, <2>12, <2>13 DEF A, V
<1> QED
  BY <1>5, <1>6, <1>7

\* OV is exact whatever the registers hold, for registers of any size.
THEOREM OverflowFlagIsExact == Spec => []SignedOverflow
BY RegistersKeepTheirWidth, SignedOverflowIsExact, PTL

\* The exec functions of the table agree with cpu_step on any registers.
LEMMA SumAgrees ==
    ASSUME NEW c \in RegisterFile, NEW v \in Registers
    PROVE  exec_add(c, v) = Add(c, v)
<1> DEFINE sum == c.acc + v
           cut == sum % Byte
<1>1. c.acc \in Registers
  BY DEF RegisterFile
<1>2. cut \in Registers /\ sum \in Int
  <2>1. sum \in Int
    BY <1>1, ByteType DEF Registers
  <2> QED
    BY <2>1, CutType
<1>3. (sum > Byte - 1) = Carries(c.acc, v, 0)
  BY <1>1, ByteType DEF Carries, Registers
<1>4. ((c.acc % Half) + (v % Half) > Half - 1) = (Low(c.acc) + Low(v) >= Half)
  <2>1. Low(c.acc) \in Int /\ Low(v) \in Int
    BY <1>1, ByteType, NibbleType DEF Registers
  <2> QED
    BY <2>1, ByteType DEF Low
<1>5. (Sign(c.acc) = Sign(v)) = (Negative(c.acc) = Negative(v))
  BY <1>1, SignTest
<1>6. (Sign(c.acc) = Sign(cut)) = (Negative(c.acc) = Negative(cut))
  BY <1>1, <1>2, SignTest
<1>7. exec_add(c, v) = [c EXCEPT !.acc = cut, !.cy = sum > Byte - 1,
                                 !.ac = (c.acc % Half) + (v % Half) > Half - 1,
                                 !.ov = Sign(c.acc) = Sign(v) /\ Sign(c.acc) # Sign(cut)]
  BY DEF exec_add, Cut
<1>8. Add(c, v) = [c EXCEPT !.acc = cut, !.cy = Carries(c.acc, v, 0),
                            !.ac = Low(c.acc) + Low(v) >= Half,
                            !.ov = /\ Negative(c.acc) = Negative(v)
                                   /\ Negative(c.acc) # Negative(cut)]
  BY DEF Add
<1> HIDE DEF sum, cut
<1> QED
  BY <1>3, <1>4, <1>5, <1>6, <1>7, <1>8, Zenon

\* ADDC in 16 bits.
LEMMA SumWithCarryAgrees ==
    ASSUME NEW c \in RegisterFile, NEW v \in Registers
    PROVE  exec_addc(c, v) = Addc(c, v)
<1> DEFINE k == Bit(c.cy)
           sum == c.acc + v + k
           cut == sum % Byte
           operand == (v + k) % Byte
<1>1. c.acc \in Registers /\ k \in 0..1
  BY BitType DEF RegisterFile
<1>2. cut \in Registers /\ operand \in Registers
  <2> HIDE DEF k
  <2> DEFINE y == v + k
  <2>1. sum \in Int /\ y \in Int
    BY <1>1, ByteType DEF Registers
  <2> HIDE DEF sum, y
  <2>2. sum % Byte \in Registers /\ y % Byte \in Registers
    BY <2>1, ByteType, Wrap DEF Registers
  <2> QED
    BY <2>2 DEF y
<1>3. (sum > Byte - 1) = Carries(c.acc, v, k)
  <2> HIDE DEF k
  <2> QED
    BY <1>1, ByteType DEF Carries, Registers
<1>4. ((c.acc % Half) + (v % Half) + k > Half - 1) = (Low(c.acc) + Low(v) + k >= Half)
  <2> HIDE DEF k
  <2>1. Low(c.acc) \in Int /\ Low(v) \in Int
    BY <1>1, ByteType, NibbleType DEF Registers
  <2> QED
    BY <1>1, <2>1, ByteType DEF Low
<1>5. (Sign(c.acc) = Sign(operand)) = (Negative(c.acc) = Negative(operand))
  BY <1>1, <1>2, SignTest
<1>6. (Sign(c.acc) = Sign(cut)) = (Negative(c.acc) = Negative(cut))
  BY <1>1, <1>2, SignTest
<1>7. exec_addc(c, v) = [c EXCEPT !.acc = cut, !.cy = sum > Byte - 1,
                                  !.ac = (c.acc % Half) + (v % Half) + k > Half - 1,
                                  !.ov = Sign(c.acc) = Sign(operand) /\ Sign(c.acc) # Sign(cut)]
  BY DEF exec_addc, Cut
<1>8. Addc(c, v) = [c EXCEPT !.acc = cut, !.cy = Carries(c.acc, v, k),
                             !.ac = Low(c.acc) + Low(v) + k >= Half,
                             !.ov = /\ Negative(c.acc) = Negative(operand)
                                    /\ Negative(c.acc) # Negative(cut)]
  BY DEF Addc
<1> HIDE DEF k, sum, cut, operand
<1> QED
  BY <1>3, <1>4, <1>5, <1>6, <1>7, <1>8, Zenon

\* A difference cut to 16 bits first.
LEMMA DifferenceAgrees ==
    ASSUME NEW c \in RegisterFile, NEW v \in Registers
    PROVE  exec_subb(c, v) = Subb(c, v)
<1> DEFINE k == Bit(c.cy)
           operand == (v + k) % Byte
           x == c.acc - operand
           cut == x % Byte
           wide == (x % Wide) % Byte
<1>1. c.acc \in Registers /\ k \in 0..1
  BY BitType DEF RegisterFile
<1>2. operand \in Registers
  BY SubbFields DEF WithBorrow
<1>3. cut \in Registers
  <2> HIDE DEF operand
  <2> QED
    BY <1>1, <1>2, BorrowOut
<1>4. wide = cut
  <2> HIDE DEF operand
  <2>1. x \in Int /\ x >= -Byte /\ x < Byte
    BY <1>1, <1>2, ByteType DEF Registers
  <2> HIDE DEF x
  <2>2. Byte \in Nat \ {0} /\ Wide \in Nat \ {0} /\ Wide = Byte * Byte /\ Wide >= Byte
    BY ByteType DEF Wide
  <2>3. CASE x >= 0
    <3>1. x \in 0..(Wide - 1)
      BY <2>1, <2>2, <2>3
    <3>2. x % Wide = x
      BY <2>1, <2>2, <3>1, Wrap
    <3> QED
      BY <3>2
  <2>4. CASE x < 0
    <3>1. x \in (-Wide)..(-1) /\ x \in (-Byte)..(-1)
      BY <2>1, <2>2, <2>4
    <3>2. x % Wide = x + Wide /\ cut = x + Byte
      BY <2>1, <2>2, <3>1, Wrap
    <3> DEFINE d == x + Byte
    <3>3. d \in 0..(Byte - 1) /\ x + Wide = Byte * (Byte - 1) + d
      BY <2>1, <2>2, <3>1
    <3>4. (x + Wide) % Byte = d
      <4> DEFINE y == x + Wide
                 q == y \div Byte
                 r == y % Byte
      <4>1. y \in Nat /\ y = Byte * (Byte - 1) + d
        BY <2>1, <2>2, <3>1, <3>3
      <4> HIDE DEF y, d
      <4>2. q \in Nat /\ y = Byte * q + r
        BY <2>2, <4>1, Quotient
      <4>3. r \in 0..(Byte - 1)
        <5>1. y \in Int
          BY <4>1
        <5> QED
          BY <5>1, CutType DEF Registers
      <4> HIDE DEF q, r
      <4>4. r = d
        <5>1. Byte * (Byte - 1) + d = Byte * q + r
          BY <4>1, <4>2
        <5> DEFINE n == Byte - 1
        <5>2. n \in Nat /\ Byte * n + d = Byte * q + r
          BY <2>2, <5>1
        <5> HIDE DEF n
        <5>3. n = q
          BY <2>2, <3>3, <4>2, <4>3, <5>2, SameQuotient
        <5> QED
          BY <2>2, <3>3, <4>2, <4>3, <5>2, <5>3
      <4> QED
        BY <4>4 DEF r, y
    <3> QED
      BY <3>2, <3>4
  <2> QED
    BY <2>1, <2>3, <2>4
<1>5. (Sign(c.acc) = Sign(v)) = (Negative(c.acc) = Negative(v))
  BY <1>1, SignTest
<1>6. (Sign(c.acc) = Sign(cut)) = (Negative(c.acc) = Negative(cut))
  BY <1>1, <1>3, SignTest
<1>7. exec_subb(c, v) = [c EXCEPT !.acc = wide, !.cy = c.acc < operand,
                                  !.ac = c.acc % Half < (v % Half) + k,
                                  !.ov = Sign(c.acc) # Sign(v) /\ Sign(c.acc) # Sign(wide)]
  BY DEF exec_subb, Cut
<1>8. Subb(c, v) = [c EXCEPT !.acc = cut, !.cy = c.acc < operand,
                             !.ac = c.acc % Half < (v % Half) + k,
                             !.ov = /\ Negative(c.acc) # Negative(v)
                                    /\ Negative(c.acc) # Negative(cut)]
  BY DEF Subb, WithBorrow, DifferenceOverflows, Low
<1> HIDE DEF k, x, operand, cut, wide
<1> QED
  BY <1>4, <1>5, <1>6, <1>7, <1>8, Zenon

\* DA with its corrections added up beforehand.
LEMMA DecimalAdjustAgrees ==
    ASSUME NEW c \in RegisterFile
    PROVE  exec_da(c) = DecimalAdjust(c)
<1> DEFINE low == Low(c.acc) >= Digit \/ c.ac
           wide == c.acc % Half > Digit - 1 \/ c.ac
           high == HighNeedsFix(c)
           fix == Bit(low) * (Half - Digit) + Bit(high) * (Half - Digit) * Half
           add == (IF wide THEN Half - Digit ELSE 0) + (IF high THEN (Half - Digit) * Half ELSE 0)
<1>1. /\ Half - Digit \in Int /\ (Half - Digit) * Half \in Int
      /\ Digit \in Int /\ c.acc \in Int
  BY ByteType, AluAssumption DEF RegisterFile, Registers
<1>2. low = wide
  <2>1. Low(c.acc) \in Int
    BY <1>1, ByteType, NibbleType
  <2> QED
    BY <1>1, <2>1 DEF Low
<1>3. fix = add
  <2> DEFINE g == Half - Digit
  <2>1. g \in Int /\ g * Half \in Int /\ Half \in Int
    BY <1>1, ByteType
  <2> HIDE DEF low, wide, high, g
  <2>2. Bit(low) * g + Bit(high) * g * Half
            = (IF low THEN g ELSE 0) + (IF high THEN g * Half ELSE 0)
    <3>1. CASE low /\ high
      BY <2>1, <3>1 DEF Bit
    <3>2. CASE low /\ ~high
      BY <2>1, <3>2 DEF Bit
    <3>3. CASE ~low /\ high
      BY <2>1, <3>3 DEF Bit
    <3>4. CASE ~low /\ ~high
      BY <2>1, <3>4 DEF Bit
    <3> QED
      BY <3>1, <3>2, <3>3, <3>4
  <2> QED
    BY <1>2, <2>2 DEF g
<1>4. (c.cy \/ high) = high
  BY DEF RegisterFile, HighNeedsFix
<1>5. exec_da(c) = [c EXCEPT !.acc = (c.acc + add) % Byte, !.cy = high]
  BY DEF exec_da, Cut, HighNeedsFix
<1>6. DecimalAdjust(c) = [c EXCEPT !.acc = (c.acc + fix) % Byte, !.cy = c.cy \/ high]
  BY DEF DecimalAdjust
<1> HIDE DEF low, wide, high, fix, add
<1> QED
  BY <1>3, <1>4, <1>5, <1>6, Zenon

\* MUL in 16 bits.
LEMMA MultiplyAgrees ==
    ASSUME NEW c \in RegisterFile
    PROVE  exec_mul(c) = Multiply(c)
<1> DEFINE product == c.acc * c.b
<1>1. product \in Nat /\ product < Byte * Byte
  BY ProductInRange DEF RegisterFile
<1>2. exec_mul(c) = LET wide == product % Wide
                    IN  [c EXCEPT !.acc = wide % Byte, !.b = wide \div Byte,
                                  !.cy = FALSE, !.ov = wide > Byte - 1]
  BY DEF exec_mul, Cut
<1>3. Multiply(c) = [c EXCEPT !.acc = product % Byte, !.b = product \div Byte,
                              !.cy = FALSE, !.ov = product >= Byte]
  BY DEF Multiply
<1> HIDE DEF product
<1>4. product % Wide = product
  <2>1. Wide \in Nat \ {0} /\ product \in 0..(Wide - 1) /\ product \in Int
    BY <1>1, ByteType DEF Wide
  <2> QED
    BY <2>1, Wrap
<1>5. (product > Byte - 1) = (product >= Byte)
  BY <1>1, ByteType
<1> QED
  BY <1>2, <1>3, <1>4, <1>5, Zenon

\* DIV, zero included.
LEMMA DivideAgrees ==
    ASSUME NEW c \in RegisterFile
    PROVE  exec_div(c) = Divide(c)
BY DEF exec_div, Divide

\* The carry fills the bit the shift leaves empty.
LEMMA RotateLeftAgrees ==
    ASSUME NEW c \in RegisterFile
    PROVE  exec_rlc(c) = RotateLeft(c)
<1> DEFINE a == c.acc
           k == Bit(c.cy)
           h == Byte \div 2
<1>1. /\ a \in Registers /\ k \in 0..1 /\ a \in Int
      /\ h \in Nat \ {0} /\ Byte = 2 * h /\ Byte \in Nat \ {0}
      /\ Negative(a) = (a >= h)
  BY ByteType, BitType DEF RegisterFile, Registers, Negative
<1>2. ((2 * a) % Byte) + k = (2 * a + k) % Byte
  <2> HIDE DEF a, k, h
  <2> DEFINE x == 2 * a
             y == 2 * a + k
  <2>1. /\ x \in Int /\ x >= -Byte /\ x < 2 * Byte
        /\ y \in Int /\ y >= -Byte /\ y < 2 * Byte
        /\ y = x + k
    BY <1>1 DEF Registers
  <2>2. CASE a >= h
    <3>1. x >= Byte /\ y >= Byte
      BY <1>1, <2>2
    <3> HIDE DEF x, y
    <3>2. x % Byte = x - Byte /\ y % Byte = y - Byte
      BY <2>1, <3>1, CutOnce
    <3>3. (x % Byte) + k = y % Byte
      BY <1>1, <2>1, <3>2
    <3> QED
      BY <3>3 DEF x, y
  <2>3. CASE a < h
    <3>1. x \in Registers /\ y \in Registers
      BY <1>1, <2>3 DEF Registers
    <3> HIDE DEF x, y
    <3>2. x % Byte = x /\ y % Byte = y
      BY <2>1, <3>1, CutOnce
    <3>3. (x % Byte) + k = y % Byte
      BY <1>1, <2>1, <3>2
    <3> QED
      BY <3>3 DEF x, y
  <2> QED
    BY <1>1, <2>2, <2>3
<1>3. (Sign(a) = 1) = Negative(a)
  <2>1. Negative(a) \in BOOLEAN /\ Sign(a) = Bit(Negative(a))
    BY <1>1, SignBit
  <2> QED
    BY <2>1 DEF Bit
<1>4. exec_rlc(c) = [c EXCEPT !.acc = ((2 * a) % Byte) + k, !.cy = Sign(a) = 1]
  BY DEF exec_rlc, Cut
<1>5. RotateLeft(c) = [c EXCEPT !.acc = (2 * a + k) % Byte, !.cy = Negative(a)]
  BY DEF RotateLeft
<1> HIDE DEF a, k
<1> QED
  BY <1>2, <1>3, <1>4, <1>5, Zenon

\* RRC with masks for the carry.
LEMMA RotateRightAgrees ==
    ASSUME NEW c \in RegisterFile
    PROVE  exec_rrc(c) = RotateRight(c)
<1>1. (c.acc % 2 # 0) = (c.acc % 2 = 1)
  <2>1. c.acc \in Nat
    BY ByteType DEF RegisterFile, Registers
  <2> QED
    BY <2>1
<1>2. exec_rrc(c) = [c EXCEPT !.acc = (c.acc \div 2) + Bit(c.cy) * (Byte \div 2),
                              !.cy = c.acc % 2 # 0]
  BY DEF exec_rrc
<1>3. RotateRight(c) = [c EXCEPT !.acc = (c.acc \div 2) + Bit(c.cy) * (Byte \div 2),
                                 !.cy = c.acc % 2 = 1]
  BY DEF RotateRight
<1> QED
  BY <1>1, <1>2, <1>3, Zenon

\* Both interpreters of the library compute the same A, B, CY, AC and OV in every
\* arithmetic instruction, for registers of any size.
THEOREM InterpretersComputeAlike == Spec => []TableArithmeticAgrees
<1>1. Types => TableArithmeticAgrees
  BY SumAgrees, SumWithCarryAgrees, DifferenceAgrees, DecimalAdjustAgrees,
     MultiplyAgrees, DivideAgrees, RotateLeftAgrees, RotateRightAgrees
     DEF Types, TableArithmeticAgrees
<1> QED
  BY <1>1, RegistersKeepTheirWidth, PTL

------------------------------------------------------------------------------
\* Decimal arithmetic

\* A register is made of its nibbles.
LEMMA Nibbles ==
    ASSUME NEW a \in Registers
    PROVE  /\ High(a) \in Nat /\ Low(a) \in 0..(Half - 1)
           /\ a = Half * High(a) + Low(a)
<1>1. a \in Nat /\ Half \in Nat \ {0}
  BY ByteType DEF Registers
<1>2. High(a) \in Nat /\ a = Half * High(a) + Low(a)
  BY <1>1, Quotient DEF High, Low
<1> QED
  BY <1>1, <1>2, NibbleType

\* Two digits make a register, and are found in it again.
LEMMA Compose ==
    ASSUME NEW h \in 0..(Half - 1), NEW l \in 0..(Half - 1)
    PROVE  /\ Half * h + l \in Registers
           /\ High(Half * h + l) = h /\ Low(Half * h + l) = l
<1> DEFINE x == Half * h + l
           q == x \div Half
           r == x % Half
<1>0. Half \in Nat \ {0} /\ Byte = Half * Half /\ h \in Nat /\ l \in Nat
  BY ByteType DEF Byte
<1>1. x \in Nat
  BY <1>0
<1>2. x < Byte
  <2>1. Half * h <= Half * (Half - 1)
    BY <1>0
  <2>2. Half * (Half - 1) = Half * Half - Half
    BY <1>0
  <2> QED
    BY <1>0, <2>1, <2>2
<1>3. x = Half * h + l
  OBVIOUS
<1>4. High(x) = q /\ Low(x) = r
  BY DEF High, Low
<1> HIDE DEF x
<1>5. q \in Nat /\ x = Half * q + r
  BY <1>0, <1>1, Quotient
<1>6. r \in 0..(Half - 1)
  BY <1>0, <1>1, Wrap
<1> HIDE DEF q, r
<1>7. h = q /\ l = r
  BY <1>0, <1>3, <1>5, <1>6, SameQuotient
<1>8. x \in Registers
  BY <1>0, <1>1, <1>2 DEF Registers
<1> QED
  BY <1>4, <1>7, <1>8 DEF x

\* The digits DA leaves, whatever digits and carry were added: u and t are the
\* sums of the high and of the low digits.
LEMMA AdjustDigits ==
    ASSUME NEW c \in RegisterFile,
           NEW u \in 0..(2 * Digit - 2), NEW t \in 0..(2 * Digit - 1),
           c.acc = (Half * u + t) % Byte,
           c.cy = (Half * u + t >= Byte),
           c.ac = (t >= Half)
    PROVE  \E low, high \in 0..(Digit - 1), c1, c2 \in 0..1 :
              /\ t = low + c1 * Digit /\ u + c1 = high + c2 * Digit
              /\ DecimalAdjust(c).acc = Half * high + low
              /\ DecimalAdjust(c).cy = (c2 = 1)
<1> DEFINE c1 == IF t >= Digit THEN 1 ELSE 0
           c2 == IF u + c1 >= Digit THEN 1 ELSE 0
           low == IF t >= Digit THEN t - Digit ELSE t
           high == IF u + c1 >= Digit THEN u + c1 - Digit ELSE u + c1
           X == Half * u + t
           nibble == IF t >= Half THEN t - Half ELSE t
           w == IF t >= Half THEN u + 1 ELSE u
           top == IF w >= Half THEN w - Half ELSE w
<1>1. /\ Half \in Nat \ {0} /\ Digit \in Nat /\ Digit >= 2 /\ Digit <= Half
      /\ Byte = Half * Half /\ Byte \in Nat \ {0}
      /\ Half * u \in Int /\ Half * Digit \in Int /\ Half * u >= 0
      /\ u \in Int /\ t \in Int
  BY ByteType, AluAssumption DEF Byte
<1>2. /\ low \in 0..(Digit - 1) /\ high \in 0..(Digit - 1)
      /\ c1 \in 0..1 /\ c2 \in 0..1
      /\ t = low + c1 * Digit /\ u + c1 = high + c2 * Digit
  BY <1>1
<1>3. /\ nibble \in 0..(Half - 1) /\ w \in 0..(2 * Half - 1) /\ top \in 0..(Half - 1)
      /\ X \in Int
  BY <1>1
<1>4. X = Half * w + nibble
  BY <1>1
<1>5. (X >= Byte) = (w >= Half)
  <2> HIDE DEF X, w, nibble
  <2> DEFINE n == Half - 1
  <2>1. n \in Nat /\ n \in 0..(Half - 1) /\ w \in Nat
    BY <1>1, <1>3
  <2>2. Half * n + n = Byte - 1
    BY <1>1
  <2> HIDE DEF n
  <2>3. (Half * w + nibble > Half * n + n) = (w > n \/ (w = n /\ nibble > n))
    BY <1>1, <1>3, <2>1, Lexicographic
  <2>4. (X > Byte - 1) = (w > n \/ (w = n /\ nibble > n))
    BY <1>4, <2>2, <2>3
  <2>5. n = Half - 1
    BY DEF n
  <2> QED
    BY <1>1, <1>3, <2>4, <2>5
<1>6. c.acc = IF w >= Half THEN X - Byte ELSE X
  <2>1. X >= -Byte /\ X < 2 * Byte
    <3>1. Half * w <= Half * (2 * Half - 1) /\ Half * (2 * Half - 1) = 2 * Byte - Half
      BY <1>1, <1>3
    <3>2. Half * w \in Int
      BY <1>1, <1>3
    <3> HIDE DEF w, nibble
    <3>3. X < 2 * Byte
      BY <1>1, <1>3, <1>4, <3>1, <3>2
    <3>4. X >= -Byte
      BY <1>1
    <3> QED
      BY <3>3, <3>4
  <2>2. c.acc = X % Byte
    OBVIOUS
  <2>3. X >= 0
    BY <1>1
  <2> HIDE DEF X, w
  <2>4. X \in Registers \/ X >= Byte
    BY <1>1, <1>3, <2>3 DEF Registers
  <2>5. (X >= Byte => X % Byte = X - Byte) /\ (X \in Registers => X % Byte = X)
    BY <1>3, <2>1, CutOnce
  <2>6. X \in Registers => X < Byte
    BY <1>1 DEF Registers
  <2> QED
    BY <1>1, <1>3, <1>5, <2>2, <2>4, <2>5, <2>6
<1>7. c.acc = Half * top + nibble
  <2>1. CASE w >= Half
    <3>1. top = w - Half
      BY <2>1
    <3>2. Half * (w - Half) = Half * w - Byte
      BY <1>1, <1>3
    <3> HIDE DEF X, w, nibble, top
    <3> QED
      BY <1>1, <1>3, <1>4, <1>6, <2>1, <3>1, <3>2
  <2>2. CASE ~(w >= Half)
    <3>1. top = w
      BY <2>2
    <3> HIDE DEF X, w, nibble, top
    <3> QED
      BY <1>4, <1>6, <2>2, <3>1
  <2> QED
    BY <2>1, <2>2
<1>8. Low(c.acc) = nibble
  <2> HIDE DEF nibble, top
  <2> QED
    BY <1>3, <1>7, Compose
<1>9. (Low(c.acc) >= Digit \/ c.ac) = (c1 = 1)
  <2>1. (nibble >= Digit \/ t >= Half) = (c1 = 1)
    BY <1>1
  <2> HIDE DEF nibble, c1
  <2> QED
    BY <1>8, <2>1
<1>10. HighNeedsFix(c) = (c2 = 1)
  <2> DEFINE n == Digit - 1
  <2>1. n \in Nat /\ n \in 0..(Half - 1) /\ top \in Nat
    BY <1>1, <1>3
  <2>2. n * Half + n = Half * n + n
    BY <1>1
  <2>3. HighNeedsFix(c) = (c.acc > n * Half + n \/ c.cy)
    <3>1. n * Half + n = (Digit - 1) * Half + Digit - 1
      BY <1>1
    <3> QED
      BY <3>1 DEF HighNeedsFix
  <2>4. (Half * top + nibble > Half * n + n) = (top > n \/ (top = n /\ nibble > n))
    <3> HIDE DEF n, top, nibble
    <3> QED
      BY <1>1, <1>3, <2>1, Lexicographic
  <2>5. c.cy = (w >= Half)
    BY <1>5
  <2>6. HighNeedsFix(c) = ((top > n \/ (top = n /\ nibble > n)) \/ w >= Half)
    <3> HIDE DEF n, top, nibble, w
    <3> QED
      BY <1>7, <2>2, <2>3, <2>4, <2>5
  <2>7. ((top > n \/ (top = n /\ nibble > n)) \/ w >= Half) = (c2 = 1)
    BY <1>1
  <2> QED
    BY <2>6, <2>7
<1>11. /\ DecimalAdjust(c).acc = (c.acc + (c1 * (Half - Digit) + c2 * (Half - Digit) * Half)) % Byte
       /\ DecimalAdjust(c).cy = (c2 = 1)
  <2>1. /\ DecimalAdjust(c).acc
               = (c.acc + (Bit(Low(c.acc) >= Digit \/ c.ac) * (Half - Digit)
                              + Bit(HighNeedsFix(c)) * (Half - Digit) * Half)) % Byte
        /\ DecimalAdjust(c).cy = (c.cy \/ HighNeedsFix(c))
    BY DEF DecimalAdjust, RegisterFile
  <2>2. Bit(Low(c.acc) >= Digit \/ c.ac) = Bit(c1 = 1) /\ Bit(HighNeedsFix(c)) = Bit(c2 = 1)
    <3> HIDE DEF c1, c2
    <3> QED
      BY <1>9, <1>10
  <2>3. Bit(c1 = 1) = c1 /\ Bit(c2 = 1) = c2
    <3> HIDE DEF c1, c2
    <3> QED
      BY <1>2 DEF Bit
  <2>4. (c.cy \/ HighNeedsFix(c)) = HighNeedsFix(c)
    BY DEF HighNeedsFix
  <2> HIDE DEF c1, c2
  <2> QED
    BY <1>10, <2>1, <2>2, <2>3, <2>4
<1> DEFINE y == Half * high + low
           x == c.acc + (c1 * (Half - Digit) + c2 * (Half - Digit) * Half)
<1>12. y \in Registers
  <2> HIDE DEF high, low
  <2>1. high \in 0..(Half - 1) /\ low \in 0..(Half - 1)
    BY <1>1, <1>2
  <2> QED
    BY <2>1, Compose
<1>13. x = y \/ x = y + Byte
  <2> DEFINE hu == Half * u
             hd == Half * Digit
  <2>1. hu \in Int /\ hd \in Int
    BY <1>1
  <2>2. y = hu + (IF c1 = 1 THEN Half ELSE 0) - (IF c2 = 1 THEN hd ELSE 0) + low
    <3>1. CASE c1 = 0 /\ c2 = 0
      BY <1>1, <3>1
    <3>2. CASE c1 = 1 /\ c2 = 0
      BY <1>1, <3>2
    <3>3. CASE c1 = 0 /\ c2 = 1
      BY <1>1, <3>3
    <3>4. CASE c1 = 1 /\ c2 = 1
      BY <1>1, <3>4
    <3> HIDE DEF c1, c2, high, low
    <3> QED
      BY <1>2, <3>1, <3>2, <3>3, <3>4
  <2>3. x = c.acc + (IF c1 = 1 THEN Half - Digit ELSE 0) + (IF c2 = 1 THEN Byte - hd ELSE 0)
    <3>1. c.acc \in Int
      BY <1>1, <1>3, <1>7
    <3>2. (Half - Digit) * Half = Byte - hd
      BY <1>1
    <3> HIDE DEF c1, c2, hd
    <3>3. c1 = 0 \/ c1 = 1
      BY <1>2
    <3>4. c2 = 0 \/ c2 = 1
      BY <1>2
    <3> DEFINE g == Half - Digit
    <3>5. g \in Int /\ g * Half = Byte - hd /\ Byte - hd \in Int
      BY <1>1, <2>1, <3>2
    <3> HIDE DEF g
    <3>6. c.acc + (c1 * g + c2 * g * Half)
              = c.acc + (IF c1 = 1 THEN g ELSE 0) + (IF c2 = 1 THEN Byte - hd ELSE 0)
      BY <1>1, <3>1, <3>3, <3>4, <3>5
    <3> QED
      BY <3>6 DEF g
  <2>4. c.acc = hu + t - (IF w >= Half THEN Byte ELSE 0)
    <3>1. X = hu + t
      OBVIOUS
    <3> HIDE DEF X, w, hu
    <3> QED
      BY <1>1, <1>6, <2>1, <3>1
  <2>5. low = t - (IF c1 = 1 THEN Digit ELSE 0)
    BY <1>1
  <2>6. w >= Half => c2 = 1
    BY <1>1
  <2>7. c1 \in {0, 1} /\ c2 \in {0, 1}
    OBVIOUS
  <2> HIDE DEF x, y, hu, hd, w, low, c1, c2
  <2>8. CASE w >= Half
    BY <1>1, <2>1, <2>2, <2>3, <2>4, <2>5, <2>6, <2>7, <2>8
  <2>9. CASE ~(w >= Half)
    BY <1>1, <2>1, <2>2, <2>3, <2>4, <2>5, <2>7, <2>9
  <2> QED
    BY <2>8, <2>9
<1>14. x % Byte = y
  <2> HIDE DEF x, y
  <2>1. /\ y \in Int /\ y >= 0 /\ y < Byte
        /\ x \in Int /\ x >= -Byte /\ x < 2 * Byte
    BY <1>1, <1>12, <1>13 DEF Registers
  <2>2. CASE x = y
    BY <1>12, <2>1, <2>2, CutOnce
  <2>3. CASE x = y + Byte
    <3>1. x >= Byte
      BY <1>1, <2>1, <2>3
    <3>2. x % Byte = x - Byte
      BY <2>1, <3>1, CutOnce
    <3> QED
      BY <1>1, <2>1, <2>3, <3>2
  <2> QED
    BY <1>13, <2>2, <2>3
<1>15. DecimalAdjust(c).acc = Half * high + low
  BY <1>11, <1>14
<1> HIDE DEF low, high, c1, c2
<1> QED
  BY <1>2, <1>11, <1>15

\* DA after an addition of two pairs of digits and a carry leaves the digits of
\* the sum, and CY is the carry out of them.
LEMMA AdjustExact ==
    ASSUME NEW c \in RegisterFile, NEW a \in Registers, NEW v \in Registers, NEW k \in 0..1,
           IsDecimal(a), IsDecimal(v),
           c.acc = (a + v + k) % Byte,
           c.cy = (a + v + k >= Byte),
           c.ac = (Low(a) + Low(v) + k >= Half)
    PROVE  Decimal(a) + Decimal(v) + k
               = Decimal(DecimalAdjust(c).acc) + Bit(DecimalAdjust(c).cy) * Pair
<1> DEFINE u == High(a) + High(v)
           t == Low(a) + Low(v) + k
<1>1. /\ Half \in Nat \ {0} /\ Digit \in Nat /\ Digit >= 2 /\ Digit <= Half
      /\ Pair = Digit * Digit
  BY ByteType, AluAssumption DEF Pair
<1>2. /\ High(a) \in 0..(Digit - 1) /\ High(v) \in 0..(Digit - 1)
      /\ Low(a) \in 0..(Digit - 1) /\ Low(v) \in 0..(Digit - 1)
      /\ a = Half * High(a) + Low(a) /\ v = Half * High(v) + Low(v)
  BY <1>1, Nibbles DEF IsDecimal
<1>3. u \in 0..(2 * Digit - 2) /\ t \in 0..(2 * Digit - 1)
  BY <1>1, <1>2
<1>4. a + v + k = Half * u + t
  <2> DEFINE p == High(a)
             q == High(v)
             r == Low(a)
             s == Low(v)
  <2>1. /\ p \in Int /\ q \in Int /\ r \in Int /\ s \in Int
        /\ a = Half * p + r /\ v = Half * q + s
    BY <1>1, <1>2
  <2> HIDE DEF p, q, r, s
  <2>2. a + v + k = Half * (p + q) + (r + s + k)
    BY <1>1, <2>1
  <2> QED
    BY <2>2 DEF p, q, r, s
<1>5. Decimal(a) + Decimal(v) + k = u * Digit + t
  <2> DEFINE p == High(a)
             q == High(v)
             r == Low(a)
             s == Low(v)
  <2>1. /\ p \in Int /\ q \in Int /\ r \in Int /\ s \in Int
        /\ Decimal(a) = p * Digit + r /\ Decimal(v) = q * Digit + s
    BY <1>1, <1>2 DEF Decimal
  <2> HIDE DEF p, q, r, s
  <2>2. (p * Digit + r) + (q * Digit + s) + k = (p + q) * Digit + (r + s + k)
    BY <1>1, <2>1
  <2> QED
    BY <2>1, <2>2 DEF p, q, r, s
<1>6. /\ c.acc = (Half * u + t) % Byte /\ c.cy = (Half * u + t >= Byte)
      /\ c.ac = (t >= Half)
  BY <1>4
<1> HIDE DEF u, t
<1>7. PICK low \in 0..(Digit - 1), high \in 0..(Digit - 1), c1 \in 0..1, c2 \in 0..1 :
          /\ t = low + c1 * Digit /\ u + c1 = high + c2 * Digit
          /\ DecimalAdjust(c).acc = Half * high + low
          /\ DecimalAdjust(c).cy = (c2 = 1)
  BY <1>3, <1>6, AdjustDigits
<1>8. Decimal(DecimalAdjust(c).acc) = high * Digit + low
  <2>1. high \in 0..(Half - 1) /\ low \in 0..(Half - 1)
    BY <1>1
  <2> QED
    BY <1>7, <2>1, Compose DEF Decimal
<1>9. Bit(DecimalAdjust(c).cy) = c2
  <2>1. Bit(c2 = 1) = c2
    BY DEF Bit
  <2> QED
    BY <1>7, <2>1
<1>10. u * Digit + t = (high * Digit + low) + c2 * (Digit * Digit)
  <2>1. u = high + c2 * Digit - c1
    BY <1>1, <1>3, <1>7
  <2>2. (high + c2 * Digit - c1) * Digit = high * Digit + c2 * (Digit * Digit) - c1 * Digit
    BY <1>1
  <2>3. /\ high * Digit \in Int /\ c2 * (Digit * Digit) \in Int /\ c1 * Digit \in Int
    BY <1>1
  <2> QED
    BY <1>7, <2>1, <2>2, <2>3
<1> QED
  BY <1>1, <1>5, <1>8, <1>9, <1>10

\* The decimal chain: an addition waiting for DA shows in A, CY and AC.
DecimalState == [pending : Int, owed : Int, weight : Nat]

Shown(k) ==
    \E a, v \in Registers :
        /\ IsDecimal(a) /\ IsDecimal(v)
        /\ dec.pending = Decimal(a) + Decimal(v)
        /\ cpu.acc = (a + v + k) % Byte
        /\ cpu.cy = (a + v + k >= Byte)
        /\ cpu.ac = (Low(a) + Low(v) + k >= Half)

Awaiting ==
    dec.pending # Nothing => \E k \in 0..1 : dec.owed = k * dec.weight /\ Shown(k)

DecimalInv == dec \in DecimalState /\ DecimalSum /\ Awaiting

\* No chain is under way after a reset.
LEMMA DecimalInit == Init => DecimalInv
BY DEF Init, DecimalInv, DecimalState, DecimalSum, Adjusted, Awaiting, NoDecimals, Nothing

\* Without a chain there is nothing to keep.
LEMMA DecimalsDropped ==
    ASSUME dec' = NoDecimals
    PROVE  DecimalInv'
BY DEF DecimalInv, DecimalState, DecimalSum, Adjusted, Awaiting, NoDecimals, Nothing

\* Steps that leave A, CY and AC leave the chain as it was.
LEMMA DecimalsKept ==
    ASSUME DecimalInv, dec' = dec, cpu'.acc = cpu.acc, cpu'.cy = cpu.cy, cpu'.ac = cpu.ac
    PROVE  DecimalInv'
BY DEF DecimalInv, DecimalSum, Adjusted, Awaiting, Shown

\* The number two digits stand for.
LEMMA DecimalOfPair ==
    ASSUME NEW a \in Registers
    PROVE  Decimal(a) \in Nat
<1>1. High(a) \in Nat /\ Low(a) \in Nat /\ Digit \in Nat
  BY Nibbles, AluAssumption, ByteType
<1> QED
  BY <1>1 DEF Decimal

\* An addition to a chain that owes its carry in.
LEMMA AwaitExact ==
    ASSUME Types, NEW v \in Registers, NEW k \in 0..1, NEW old \in DecimalState,
           old.owed = k * old.weight,
           cpu'.acc = (cpu.acc + v + k) % Byte,
           cpu'.cy = (cpu.acc + v + k >= Byte),
           cpu'.ac = (Low(cpu.acc) + Low(v) + k >= Half),
           dec' = Await(old, v)
    PROVE  DecimalInv'
<1>1. CASE IsDecimal(cpu.acc) /\ IsDecimal(v)
  <2> DEFINE sum == Decimal(cpu.acc) + Decimal(v)
  <2>1. cpu.acc \in Registers /\ sum \in Nat
    BY DecimalOfPair DEF Types, RegisterFile
  <2>2. dec' = [old EXCEPT !.pending = sum]
    BY <1>1 DEF Await
  <2> HIDE DEF sum
  <2>3. /\ dec' \in DecimalState /\ dec'.pending = sum
        /\ dec'.owed = old.owed /\ dec'.weight = old.weight
    BY <2>1, <2>2 DEF DecimalState
  <2>4. dec'.pending # Nothing
    BY <2>1, <2>3 DEF Nothing
  <2>5. Shown(k)'
    BY <1>1, <2>1, <2>3 DEF Shown, sum
  <2>6. dec'.owed = k * dec'.weight
    BY <2>3
  <2> QED
    BY <2>3, <2>4, <2>5, <2>6 DEF DecimalInv, DecimalSum, Adjusted, Awaiting
<1>2. CASE ~(IsDecimal(cpu.acc) /\ IsDecimal(v))
  BY <1>2, DecimalsDropped DEF Await
<1> QED
  BY <1>1, <1>2

\* DA turns what waited into digits and the carry.
LEMMA AdjustedExact ==
    ASSUME Types, DecimalInv, ExecDecimalAdjust
    PROVE  DecimalInv'
<1> DEFINE r == DecimalAdjust(cpu)
<1>1. /\ Retire(r) /\ r \in RegisterFile /\ cpu \in RegisterFile
      /\ cpu'.acc = r.acc /\ cpu'.cy = r.cy /\ r.acc \in Registers /\ r.cy \in BOOLEAN
  <2>1. Retire(r) /\ cpu \in RegisterFile /\ r \in RegisterFile
    BY DecimalAdjustType DEF ExecDecimalAdjust, Types
  <2> HIDE DEF r
  <2> QED
    BY <2>1, Retired DEF RegisterFile
<1>2. CASE dec.pending = Nothing
  BY <1>2, DecimalsDropped DEF ExecDecimalAdjust
<1>3. CASE dec.pending # Nothing
  <2>1. PICK k \in 0..1 : dec.owed = k * dec.weight /\ Shown(k)
    BY <1>3 DEF DecimalInv, Awaiting
  <2>2. PICK a \in Registers, v \in Registers :
            /\ IsDecimal(a) /\ IsDecimal(v)
            /\ dec.pending = Decimal(a) + Decimal(v)
            /\ cpu.acc = (a + v + k) % Byte
            /\ cpu.cy = (a + v + k >= Byte)
            /\ cpu.ac = (Low(a) + Low(v) + k >= Half)
    BY <2>1 DEF Shown
  <2>3. dec.pending + k = Decimal(r.acc) + Bit(r.cy) * Pair
    BY <1>1, <2>2, AdjustExact
  <2>4. dec' = [pending |-> Nothing,
                owed |-> dec.owed + (dec.pending - Decimal(r.acc)) * dec.weight,
                weight |-> dec.weight * Pair]
    BY <1>3 DEF ExecDecimalAdjust
  <2> DEFINE d == Decimal(r.acc)
             b == Bit(r.cy)
             w == dec.weight
             n == dec.pending
  <2>5. /\ d \in Int /\ b \in 0..1 /\ w \in Nat /\ n \in Int /\ Pair \in Nat
    <3>1. d \in Int
      BY <1>1, DecimalOfPair
    <3>2. b \in 0..1
      BY <1>1, BitType
    <3>3. Pair \in Nat
      BY AluAssumption, ByteType DEF Pair
    <3> QED
      BY <3>1, <3>2, <3>3 DEF DecimalInv, DecimalState
  <2>6. dec'.owed = k * w + (n - d) * w /\ dec'.weight = w * Pair /\ dec'.pending = Nothing
    BY <2>1, <2>4
  <2> HIDE DEF r, d, b, w, n
  <2>7. k * w + (n - d) * w = b * (w * Pair)
    <3>1. k * w + (n - d) * w = (k + n - d) * w
      BY <2>5
    <3>2. k + n - d = b * Pair
      <4>1. n + k = d + b * Pair /\ b * Pair \in Int
        BY <2>3, <2>5 DEF n, d, b
      <4> QED
        BY <2>5, <4>1
    <3>3. (b * Pair) * w = b * (w * Pair)
      BY <2>5
    <3> QED
      BY <3>1, <3>2, <3>3
  <2>8. dec'.owed = b * dec'.weight
    BY <2>6, <2>7
  <2>9. dec' \in DecimalState
    <3>1. k * w + (n - d) * w \in Int /\ w * Pair \in Nat
      BY <2>5
    <3>2. dec' = [pending |-> Nothing, owed |-> k * w + (n - d) * w, weight |-> w * Pair]
      BY <2>1, <2>4 DEF d, w, n
    <3> QED
      BY <3>1, <3>2 DEF DecimalState, Nothing
  <2>10. Bit(cpu'.cy) = b
    BY <1>1 DEF b
  <2> QED
    BY <2>6, <2>8, <2>9, <2>10 DEF DecimalInv, DecimalSum, Adjusted, Awaiting
<1> QED
  BY <1>2, <1>3

\* Every instruction keeps the decimal chain exact.
LEMMA DecimalStep == Types /\ DecimalInv /\ [Next]_vars => DecimalInv'
<1> SUFFICES ASSUME Types, DecimalInv, [Next]_vars
             PROVE  DecimalInv'
  OBVIOUS
<1>0. /\ cpu \in RegisterFile /\ cpu.acc \in Registers /\ Bit(cpu.cy) \in 0..1
      /\ dec \in DecimalState
  BY BitType DEF Types, RegisterFile, DecimalInv
<1>1. CASE ExecAdd
  <2>1. PICK v \in Registers : Retire(Add(cpu, v)) /\ dec' = Await(NoDecimals, v)
    BY <1>1 DEF ExecAdd
  <2>2. /\ cpu'.acc = Add(cpu, v).acc /\ cpu'.cy = Add(cpu, v).cy
        /\ cpu'.ac = Add(cpu, v).ac
    BY <1>0, <2>1, AddEffect, Retired
  <2>3. /\ Add(cpu, v).acc = (cpu.acc + v) % Byte
        /\ Add(cpu, v).cy = (cpu.acc + v + 0 >= Byte)
        /\ Add(cpu, v).ac = (Low(cpu.acc) + Low(v) >= Half)
    BY <1>0 DEF Add, RegisterFile, Carries
  <2>4. cpu.acc + v = cpu.acc + v + 0 /\ Low(cpu.acc) + Low(v) = Low(cpu.acc) + Low(v) + 0
    <3>1. cpu.acc \in Int /\ v \in Int /\ Low(cpu.acc) \in Int /\ Low(v) \in Int
      BY <1>0, ByteType, NibbleType DEF Registers
    <3> QED
      BY <3>1
  <2>5. /\ cpu'.acc = (cpu.acc + v + 0) % Byte
        /\ cpu'.cy = (cpu.acc + v + 0 >= Byte)
        /\ cpu'.ac = (Low(cpu.acc) + Low(v) + 0 >= Half)
    BY <2>2, <2>3, <2>4
  <2>6. NoDecimals \in DecimalState /\ NoDecimals.owed = 0 * NoDecimals.weight
    BY DEF NoDecimals, DecimalState, Nothing
  <2> QED
    BY <2>1, <2>5, <2>6, AwaitExact
<1>2. CASE ExecAddc
  <2> DEFINE k == Bit(cpu.cy)
             fresh == [NoDecimals EXCEPT !.owed = k]
  <2>1. PICK v \in Registers :
            /\ Retire(Addc(cpu, v))
            /\ dec' = IF Adjusted /\ dec.weight < Pair ^ MaxDigits
                      THEN Await(dec, v) ELSE Await(fresh, v)
    BY <1>2 DEF ExecAddc
  <2>2. /\ cpu'.acc = Addc(cpu, v).acc /\ cpu'.cy = Addc(cpu, v).cy
        /\ cpu'.ac = Addc(cpu, v).ac
    BY <1>0, <2>1, AddcEffect, Retired
  <2>3. /\ Addc(cpu, v).acc = (cpu.acc + v + k) % Byte
        /\ Addc(cpu, v).cy = (cpu.acc + v + k >= Byte)
        /\ Addc(cpu, v).ac = (Low(cpu.acc) + Low(v) + k >= Half)
    BY <1>0 DEF Addc, RegisterFile, Carries
  <2>4. /\ cpu'.acc = (cpu.acc + v + k) % Byte
        /\ cpu'.cy = (cpu.acc + v + k >= Byte)
        /\ cpu'.ac = (Low(cpu.acc) + Low(v) + k >= Half)
    BY <2>2, <2>3
  <2>5. k \in 0..1
    BY <1>0
  <2>6. CASE Adjusted /\ dec.weight < Pair ^ MaxDigits
    <3>1. dec.owed = k * dec.weight
      BY <2>6 DEF DecimalInv, DecimalSum
    <3>2. dec' = Await(dec, v)
      BY <2>1, <2>6
    <3> HIDE DEF k
    <3> QED
      BY <1>0, <2>4, <2>5, <3>1, <3>2, AwaitExact
  <2>7. CASE ~(Adjusted /\ dec.weight < Pair ^ MaxDigits)
    <3>1. dec' = Await(fresh, v)
      BY <2>1, <2>7
    <3> HIDE DEF k
    <3>2. fresh \in DecimalState /\ fresh.owed = k * fresh.weight
      BY <2>5 DEF NoDecimals, DecimalState, Nothing
    <3> HIDE DEF fresh
    <3> QED
      BY <2>4, <2>5, <3>1, <3>2, AwaitExact
  <2> QED
    BY <2>6, <2>7
<1>3. CASE ExecSubb \/ ExecRotateLeft
  BY <1>3, DecimalsDropped DEF ExecSubb, ExecRotateLeft
<1>4. CASE ExecDecimalAdjust
  BY <1>4, AdjustedExact
<1>5. CASE ExecRotateRight \/ ExecMultiply \/ ExecDivide \/ ExecWriteCarry \/ ExecWritePsw
  BY <1>5, DecimalsDropped
     DEF ExecRotateRight, ExecMultiply, ExecDivide, ExecWriteCarry, ExecWritePsw, Broken
<1>6. CASE ExecLoad
  <2>1. CASE dec.pending = Nothing
    <3>1. PICK v \in Registers : Retire([cpu EXCEPT !.acc = v]) /\ dec' = dec
      BY <1>6, <2>1 DEF ExecLoad
    <3>2. /\ [cpu EXCEPT !.acc = v] \in RegisterFile
          /\ [cpu EXCEPT !.acc = v].cy = cpu.cy
      BY <1>0 DEF RegisterFile
    <3>3. cpu'.cy = cpu.cy
      BY <1>0, <3>1, <3>2, Retired
    <3> QED
      BY <2>1, <3>1, <3>3 DEF DecimalInv, DecimalSum, Adjusted, Awaiting
  <2>2. CASE dec.pending # Nothing
    BY <1>6, <2>2, DecimalsDropped DEF ExecLoad
  <2> QED
    BY <2>1, <2>2
<1>7. CASE ExecLoadB
  <2>1. PICK v \in Registers : Retire([cpu EXCEPT !.b = v]) /\ dec' = dec
    BY <1>7 DEF ExecLoadB
  <2>2. /\ [cpu EXCEPT !.b = v] \in RegisterFile
        /\ [cpu EXCEPT !.b = v].acc = cpu.acc
        /\ [cpu EXCEPT !.b = v].cy = cpu.cy /\ [cpu EXCEPT !.b = v].ac = cpu.ac
    BY <1>0 DEF RegisterFile
  <2>3. cpu'.acc = cpu.acc /\ cpu'.cy = cpu.cy /\ cpu'.ac = cpu.ac
    BY <1>0, <2>1, <2>2, Retired
  <2> QED
    BY <2>1, <2>3, DecimalsKept
<1>8. CASE UNCHANGED vars
  BY <1>8, DecimalsKept DEF vars
<1> QED
  BY <1>1, <1>2, <1>3, <1>4, <1>5, <1>6, <1>7, <1>8 DEF Next, Arithmetic, Moves

\* DA after each ADD or ADDC adds packed decimal numbers of any length exactly,
\* for digits and registers of any size.
THEOREM DecimalAdditionIsExact == Spec => []DecimalSum
<1>1. DecimalInv => DecimalSum
  BY DEF DecimalInv
<1> QED
  BY <1>1, DecimalInit, DecimalStep, RegistersKeepTheirWidth, PTL DEF Spec
=============================================================================
