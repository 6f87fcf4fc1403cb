------------------------------ MODULE CoreProofs ------------------------------
(***************************************************************************)
(* Proofs about Core: whatever firmware does within its discipline, and    *)
(* wherever and however deep interrupts strike, the stack holds what was   *)
(* put on it, and what RET and RETI resume is what was left; every bit     *)
(* address names one bit; cpu_step and the table-driven exec functions     *)
(* agree.  The lemmas go from bits and addresses through instructions, in  *)
(* both interpreters, to the stack; the theorems are at the end.           *)
(***************************************************************************)
EXTENDS Core, Remainders, SequenceTheorems

------------------------------------------------------------------------------
\* Bits

\* The weights of bits are the powers of two.
LEMMA Weights ==
    /\ Weight[0] = 1
    /\ \A i \in 0..Bits : Weight[i] \in Nat \ {0}
    /\ \A i \in 1..Bits : Weight[i] = 2 * Weight[i - 1]
<1> DEFINE X == Nat \ {0}
           step == [p \in Nat \X X |-> 2 * p[2]]
           one == 1
<1>1. Bits \in Nat
  BY InstructionsAssumption
<1>2. step \in [Nat \X X -> X] /\ \A k \in Nat, x \in X : step[<<k, x>>] = 2 * x
  OBVIOUS
<1>3. one \in X /\ X = Nat \ {0}
  OBVIOUS
<1> HIDE DEF step, X, one
<1>4. PICK G : Computes(G, Bits, X, one, step)
  BY <1>1, <1>2, <1>3, Iterates
<1>5. G \in [0..Bits -> X] /\ G[0] = one
      /\ \A k \in 0..Bits : k # 0 => G[k] = step[<<k, G[k - 1]>>]
  BY <1>4 DEF Computes
<1>6. \A k \in 0..Bits : G[k] = IF k = 0 THEN one ELSE 2 * G[k - 1]
  <2> SUFFICES ASSUME NEW k \in 0..Bits, k # 0 PROVE G[k] = 2 * G[k - 1]
    BY <1>5
  <2>1. k \in Nat /\ k - 1 \in 0..Bits
    BY <1>1
  <2>2. G[k - 1] \in X
    BY <1>5, <2>1
  <2> QED
    BY <1>2, <1>5, <2>1, <2>2
<1> DEFINE H(f) == [i \in 0..Bits |-> IF i = 0 THEN 1 ELSE 2 * f[i - 1]]
<1>7. G = H(G)
  BY <1>5, <1>6 DEF one
<1>8. Weight = CHOOSE f : f = H(f)
  BY DEF Weight
<1>9. Weight = H(Weight)
  BY <1>7, <1>8
<1>10. \A i \in 0..Bits : Weight[i] = IF i = 0 THEN 1 ELSE 2 * Weight[i - 1]
  BY <1>9
<1> DEFINE S == {i \in Nat : i <= Bits => Weight[i] \in Nat \ {0}}
<1>11. 0 \in S
  BY <1>1, <1>10
<1>12. \A i \in Nat : i \in S => i + 1 \in S
  <2> SUFFICES ASSUME NEW i \in Nat, i \in S, i + 1 <= Bits PROVE Weight[i + 1] \in Nat \ {0}
    OBVIOUS
  <2>1. i + 1 \in 0..Bits /\ (i + 1) - 1 = i /\ i + 1 # 0 /\ i <= Bits
    BY <1>1
  <2>2. Weight[i + 1] = 2 * Weight[i] /\ Weight[i] \in Nat \ {0}
    BY <1>10, <2>1
  <2> QED
    BY <2>2
<1> HIDE DEF S
<1>13. \A i \in Nat : i \in S
  BY <1>11, <1>12, Induction
<1>14. \A i \in 0..Bits : Weight[i] \in Nat \ {0}
  <2> SUFFICES ASSUME NEW i \in 0..Bits PROVE Weight[i] \in Nat \ {0}
    OBVIOUS
  <2>1. i \in Nat /\ i <= Bits
    BY <1>1
  <2> QED
    BY <1>13, <2>1 DEF S
<1>15. Weight[0] = 1
  BY <1>1, <1>10
<1>16. \A i \in 1..Bits : Weight[i] = 2 * Weight[i - 1]
  BY <1>1, <1>10
<1> QED
  BY <1>14, <1>15, <1>16

\* They multiply as their exponents add.
LEMMA WeightOfSum ==
    ASSUME NEW i \in 0..Bits, NEW j \in 0..Bits, i + j <= Bits
    PROVE  Weight[i + j] = Weight[i] * Weight[j]
<1> DEFINE P(k) == i + k <= Bits => Weight[i + k] = Weight[i] * Weight[k]
           S == {k \in Nat : P(k)}
<1>1. Bits \in Nat /\ i \in Nat /\ j \in Nat
  BY InstructionsAssumption
<1>2. 0 \in S
  <2>1. i + 0 = i /\ Weight[i] \in Nat /\ Weight[0] = 1
    BY <1>1, Weights
  <2> QED
    BY <2>1
<1>3. \A k \in Nat : k \in S => k + 1 \in S
  <2> HIDE DEF P
  <2> SUFFICES ASSUME NEW k \in Nat, P(k) PROVE P(k + 1)
    OBVIOUS
  <2> USE DEF P
  <2> SUFFICES ASSUME i + (k + 1) <= Bits
               PROVE  Weight[i + (k + 1)] = Weight[i] * Weight[k + 1]
    OBVIOUS
  <2>1. /\ i + (k + 1) \in 1..Bits /\ (i + (k + 1)) - 1 = i + k
        /\ k + 1 \in 1..Bits /\ (k + 1) - 1 = k /\ i + k <= Bits /\ k \in 0..Bits
    BY <1>1
  <2>2. Weight[i + (k + 1)] = 2 * Weight[i + k] /\ Weight[k + 1] = 2 * Weight[k]
    BY <2>1, Weights
  <2>3. Weight[i + k] = Weight[i] * Weight[k]
    BY <2>1
  <2> DEFINE a == Weight[i]
             b == Weight[k]
  <2>4. a \in Nat /\ b \in Nat
    BY <2>1, Weights
  <2>5. Weight[i + (k + 1)] = 2 * (a * b) /\ Weight[k + 1] = 2 * b
    BY <2>2, <2>3
  <2> HIDE DEF a, b
  <2>6. 2 * (a * b) = a * (2 * b)
    BY <2>4
  <2> QED
    BY <2>5, <2>6 DEF a
<1> HIDE DEF S
<1>4. j \in S
  BY <1>1, <1>2, <1>3, Induction
<1> QED
  BY <1>1, <1>4 DEF S

\* A byte in halves, in nibbles, and two of them.
LEMMA Sizes ==
    /\ Bits \in Nat /\ Bits >= 2 /\ CyBit = Bits - 1 /\ CyBit \in 0..(Bits - 1)
    /\ Half \in Nat /\ Half >= 2 /\ Half % 2 = 0
    /\ Byte \in Nat /\ Byte = 2 * Half /\ Byte >= 4
    /\ Word \in Nat /\ Word = Byte * Byte /\ Word >= Byte
    /\ Nibble \in Nat \ {0} /\ Nibble * Nibble = Byte
    /\ 0 \in Bytes /\ 1 \in Bytes
<1>1. Bits \in Nat /\ Bits >= 2 /\ Bits % 2 = 0
  BY InstructionsAssumption
<1>2. CyBit = Bits - 1 /\ CyBit \in 0..(Bits - 1)
  BY <1>1 DEF CyBit
<1>3. Byte = 2 * Half
  BY <1>1, Weights DEF Byte, Half
<1> DEFINE q == Weight[Bits - 2]
<1>4. Half = 2 * q /\ q \in Nat \ {0}
  <2>1. Bits - 1 \in 1..Bits /\ (Bits - 1) - 1 = Bits - 2 /\ Bits - 2 \in 0..Bits
    BY <1>1
  <2> QED
    BY <2>1, Weights DEF Half
<1> HIDE DEF q
<1>5. Half \in Nat /\ Half >= 2 /\ Half % 2 = 0
  BY <1>4
<1>6. Byte \in Nat /\ Byte >= 4
  BY <1>3, <1>5
<1>7. Word \in Nat /\ Word = Byte * Byte /\ Word >= Byte
  <2> DEFINE b == Byte
  <2>1. b \in Nat /\ b >= 1
    BY <1>6
  <2> HIDE DEF b
  <2>2. b * b \in Nat /\ b * b >= b
    BY <2>1
  <2> QED
    BY <2>2 DEF Word, b
<1>8. Nibble \in Nat \ {0} /\ Nibble * Nibble = Byte
  <2>1. Bits \div 2 \in 0..Bits /\ (Bits \div 2) + (Bits \div 2) = Bits
    BY <1>1
  <2>2. Weight[(Bits \div 2) + (Bits \div 2)] = Weight[Bits \div 2] * Weight[Bits \div 2]
    BY <1>1, <2>1, WeightOfSum
  <2> QED
    BY <2>1, <2>2, Weights DEF Nibble, Byte
<1>9. 0 \in Bytes /\ 1 \in Bytes
  BY <1>6 DEF Bytes
<1> QED
  BY <1>1, <1>2, <1>3, <1>5, <1>6, <1>7, <1>8, <1>9

\* Bit k of a byte, with what is above and below it.
LEMMA BitParts ==
    ASSUME NEW v \in Bytes, NEW k \in 0..(Bits - 1)
    PROVE  LET w == Weight[k]
               u == Weight[Bits - 1 - k]
           IN  /\ w \in Nat \ {0} /\ u \in Nat \ {0} /\ Byte = w * (2 * u)
               /\ Bit(v, k) \in 0..1
               /\ \E s \in 0..(u - 1), r \in 0..(w - 1) : v = w * (2 * s + Bit(v, k)) + r
<1> DEFINE w == Weight[k]
           u == Weight[Bits - 1 - k]
<1>1. /\ Bits \in Nat /\ k \in 0..Bits /\ Bits - 1 - k \in 0..Bits
      /\ k + (Bits - 1 - k) = Bits - 1 /\ Bits - 1 \in 0..Bits
  BY Sizes
<1>2. w \in Nat \ {0} /\ u \in Nat \ {0}
  BY <1>1, Weights
<1>3. Half = w * u
  <2>1. Weight[k + (Bits - 1 - k)] = w * u
    BY <1>1, WeightOfSum
  <2> QED
    BY <1>1, <2>1 DEF Half
<1>4. v \in Nat /\ v < Byte /\ Byte = 2 * Half
  BY Sizes DEF Bytes
<1>5. Bit(v, k) = (v \div w) % 2
  BY DEF Bit
<1> HIDE DEF w, u
<1>6. Byte = w * (2 * u)
  BY <1>2, <1>3, <1>4
<1> DEFINE q == v \div w
           r == v % w
<1>7. q \in Nat /\ v = w * q + r /\ r \in 0..(w - 1)
  BY <1>2, <1>4, Quotient, RestOf
<1>8. Bit(v, k) = q % 2
  BY <1>5
<1> HIDE DEF q, r
<1> DEFINE s == q \div 2
           t == q % 2
<1>9. s \in Nat /\ t \in 0..1 /\ q = 2 * s + t
  BY <1>7
<1>10. t = Bit(v, k)
  BY <1>8
<1> HIDE DEF s, t
<1>11. s < u
  <2> SUFFICES ASSUME s >= u PROVE FALSE
    BY <1>2, <1>9
  <2>1. PICK d \in Nat : s = u + d
    <3>1. s - u \in Nat /\ s = u + (s - u)
      BY <1>2, <1>9
    <3> QED
      BY <3>1
  <2> DEFINE x == 2 * u
             y == 2 * d + t
  <2>2. x \in Nat /\ y \in Nat /\ q = x + y
    BY <1>2, <1>9, <2>1
  <2> HIDE DEF x, y
  <2>3. w * q = w * x + w * y /\ w * y \in Nat /\ w * x \in Nat
    BY <1>2, <2>2
  <2>4. w * x = Byte
    BY <1>6 DEF x
  <2> QED
    BY <1>4, <1>7, <2>3, <2>4
<1>12. s \in 0..(u - 1)
  BY <1>2, <1>9, <1>11
<1> QED
  BY <1>2, <1>6, <1>7, <1>9, <1>10, <1>12 DEF w, u

\* A product of sums, term by term.
LEMMA Distribute ==
    ASSUME NEW a \in Int, NEW b \in Int, NEW c \in Int
    PROVE  a * (b + c) = a * b + a * c /\ a * b \in Int /\ a * c \in Int
OBVIOUS

\* What PutBit makes of the parts, in range.
LEMMA PutBitParts ==
    ASSUME NEW v \in Bytes, NEW k \in 0..(Bits - 1), NEW b \in 0..1,
           NEW s \in 0..(Weight[Bits - 1 - k] - 1), NEW r \in 0..(Weight[k] - 1),
           v = Weight[k] * (2 * s + Bit(v, k)) + r
    PROVE  /\ PutBit(v, k, b) = Weight[k] * (2 * s + b) + r
           /\ PutBit(v, k, b) \in Bytes
<1> DEFINE w == Weight[k]
           u == Weight[Bits - 1 - k]
           t == Bit(v, k)
<1>1. w \in Nat \ {0} /\ u \in Nat \ {0} /\ Byte = w * (2 * u) /\ t \in 0..1
  BY BitParts
<1>2. PutBit(v, k, b) = v + (b - t) * w
  BY DEF PutBit
<1>3. v = w * (2 * s + t) + r /\ s \in Nat /\ s <= u - 1 /\ r \in Nat /\ r <= w - 1
  BY <1>1
<1> HIDE DEF w, u, t
<1>4. w * (2 * s + t) = w * (2 * s) + w * t /\ w * (2 * s) \in Int /\ w * t \in Int
  BY <1>1, <1>3, Distribute
<1>5. w * (2 * s + b) = w * (2 * s) + w * b /\ w * b \in Int
  BY <1>1, <1>3, Distribute
<1>6. (b - t) * w = w * b - w * t
  BY <1>1
<1>7. PutBit(v, k, b) = w * (2 * s + b) + r
  BY <1>2, <1>3, <1>4, <1>5, <1>6
<1> DEFINE q == 2 * s + b
           n == 2 * u
<1>8. q \in Nat /\ q + 1 <= n /\ n \in Nat
  BY <1>1, <1>3
<1> HIDE DEF q, n
<1>9. w * (q + 1) <= w * n /\ w * (q + 1) = w * q + w /\ w * q \in Nat
  <2>1. PICK d \in Nat : n = (q + 1) + d
    <3>1. n - (q + 1) \in Nat /\ n = (q + 1) + (n - (q + 1))
      BY <1>8
    <3> QED
      BY <3>1
  <2>2. w * n = w * (q + 1) + w * d /\ w * d \in Nat /\ w * (q + 1) \in Nat
    BY <1>1, <1>8, <2>1, Distribute
  <2>3. w * (q + 1) = w * q + w * 1 /\ w * 1 = w /\ w * q \in Nat
    BY <1>1, <1>8, Distribute
  <2> QED
    BY <1>1, <2>2, <2>3
<1>10. w * q + r \in Nat /\ w * q + r < Byte
  BY <1>1, <1>3, <1>9 DEF n
<1>11. PutBit(v, k, b) \in Bytes
  <2>1. PutBit(v, k, b) = w * q + r
    BY <1>7 DEF q
  <2> QED
    BY <1>10, <2>1, Sizes DEF Bytes
<1> QED
  BY <1>7, <1>11 DEF w, q

\* x is q times w * 2 * y, and r.
HasParts(x, w, y, q, r) == x = (w * (2 * y)) * q + r

\* Bits below a multiple are those of the rest.
LEMMA LowerBit ==
    ASSUME NEW w \in Nat \ {0}, NEW y \in Nat, NEW q \in Nat, NEW r \in Nat,
           NEW x, HasParts(x, w, y, q, r)
    PROVE  (x \div w) % 2 = (r \div w) % 2
<1> DEFINE z == y * q
           d == r \div w
           e == r % w
<1>2. z \in Nat /\ (w * (2 * y)) * q = w * (2 * z)
  OBVIOUS
<1> HIDE DEF z
<1>1. z \in Nat /\ d \in Nat /\ e \in 0..(w - 1) /\ r = w * d + e
  BY <1>2, Quotient, RestOf
<1> HIDE DEF d, e
<1>3. w * (2 * z) + r = w * (2 * z + d) + e
  <2>1. w * (2 * z + d) = w * (2 * z) + w * d /\ w * (2 * z) \in Int /\ w * d \in Int
    BY <1>1, Distribute
  <2> QED
    BY <1>1, <2>1
<1>4. (w * (2 * z) + r) \div w = 2 * z + d
  <2>1. w * (2 * z) + r \in Nat /\ 2 * z + d \in Nat
    BY <1>1
  <2> QED
    BY <1>1, <1>3, <2>1, QuotientIs
<1>5. (2 * z + d) % 2 = d % 2
  BY <1>1
<1>6. x = w * (2 * z) + r
  BY <1>2 DEF HasParts
<1> QED
  BY <1>4, <1>5, <1>6 DEF d

\* Writing a bit: it is read back, every other bit is as before.
LEMMA PutBitBits ==
    ASSUME NEW v \in Bytes, NEW k \in 0..(Bits - 1), NEW b \in 0..1, NEW j \in 0..(Bits - 1)
    PROVE  /\ PutBit(v, k, b) \in Bytes
           /\ Bit(PutBit(v, k, b), j) = IF j = k THEN b ELSE Bit(v, j)
<1> DEFINE w == Weight[k]
           u == Weight[Bits - 1 - k]
           t == Bit(v, k)
           x == PutBit(v, k, b)
<1>1. w \in Nat \ {0} /\ u \in Nat \ {0} /\ t \in 0..1
  BY BitParts
<1>2. PICK s \in 0..(u - 1), r \in 0..(w - 1) : v = w * (2 * s + t) + r
  BY BitParts
<1>3. x = w * (2 * s + b) + r /\ x \in Bytes
  BY <1>2, PutBitParts
<1>4. s \in Nat /\ r \in Nat /\ Bits \in Nat /\ k \in Nat /\ j \in Nat
  BY <1>1, Sizes
<1>5. x \in Nat /\ v \in Nat
  BY <1>3, Sizes DEF Bytes
<1>6. Bit(x, j) = (x \div Weight[j]) % 2 /\ Bit(v, j) = (v \div Weight[j]) % 2
  BY DEF Bit
<1>7. t = (v \div w) % 2
  BY DEF Bit
<1> HIDE DEF x, t
<1> DEFINE X == 2 * s + b
           V == 2 * s + t
<1>8. X \in Nat /\ V \in Nat /\ X \div 2 = s /\ V \div 2 = s /\ X % 2 = b
  BY <1>1, <1>4
<1>9. x \div w = X /\ v \div w = V
  <2>1. x = w * X + r /\ v = w * V + r
    BY <1>2, <1>3
  <2> HIDE DEF X, V, w
  <2> QED
    BY <1>1, <1>2, <1>5, <1>8, <2>1, QuotientIs
<1>10. CASE j = k
  BY <1>3, <1>6, <1>8, <1>9, <1>10 DEF x
<1>11. CASE j > k
  <2> DEFINE y == Weight[j - k - 1]
  <2>1. y \in Nat \ {0} /\ Weight[j] = w * (2 * y)
    <3>1. /\ j - k \in 1..Bits /\ k \in 0..Bits /\ k + (j - k) = j /\ j <= Bits
          /\ j - k \in 0..Bits /\ (j - k) - 1 \in 0..Bits
      BY <1>4, <1>11
    <3>2. Weight[k + (j - k)] = Weight[k] * Weight[j - k]
      BY <3>1, WeightOfSum
    <3>3. Weight[j - k] = 2 * y /\ y \in Nat \ {0}
      BY <3>1, Weights
    <3> QED
      BY <3>1, <3>2, <3>3
  <2> HIDE DEF y, w
  <2>2. 2 * y \in Nat \ {0}
    BY <2>1
  <2> HIDE DEF X, V
  <2> DEFINE n == 2 * y
  <2> HIDE DEF n
  <2>3. x \div Weight[j] = X \div (2 * y) /\ v \div Weight[j] = V \div (2 * y)
    <3>1. n \in Nat \ {0} /\ Weight[j] = w * n
      BY <2>1, <2>2 DEF n
    <3>2. (x \div w) \div n = x \div (w * n) /\ (v \div w) \div n = v \div (w * n)
      BY <1>1, <1>5, <3>1, NestedQuotient
    <3> QED
      BY <1>9, <3>1, <3>2 DEF n
  <2>4. X \div (2 * y) = (X \div 2) \div y /\ V \div (2 * y) = (V \div 2) \div y
    <3>1. 2 \in Nat \ {0}
      OBVIOUS
    <3> QED
      BY <1>8, <2>1, <3>1, NestedQuotient
  <2>5. Bit(x, j) = Bit(v, j)
    BY <1>6, <1>8, <2>3, <2>4
  <2> QED
    BY <1>3, <1>4, <1>11, <2>5 DEF x
<1>12. CASE j < k
  <2> DEFINE z == Weight[j]
             y == Weight[k - j - 1]
  <2>1. y \in Nat \ {0} /\ z \in Nat \ {0} /\ w = z * (2 * y)
    <3>1. /\ k - j \in 1..Bits /\ j \in 0..Bits /\ j + (k - j) = k /\ k <= Bits
          /\ k - j \in 0..Bits /\ (k - j) - 1 \in 0..Bits
      BY <1>4, <1>12
    <3>2. Weight[j + (k - j)] = Weight[j] * Weight[k - j]
      BY <3>1, WeightOfSum
    <3>3. Weight[k - j] = 2 * y /\ y \in Nat \ {0} /\ z \in Nat \ {0}
      BY <3>1, Weights
    <3> QED
      BY <3>1, <3>2, <3>3
  <2> HIDE DEF y, z, w, X, V
  <2>2. HasParts(x, z, y, X, r) /\ HasParts(v, z, y, V, r)
    BY <1>2, <1>3, <2>1 DEF X, V, HasParts
  <2>3. (x \div z) % 2 = (r \div z) % 2 /\ (v \div z) % 2 = (r \div z) % 2
    <3>1. y \in Nat
      BY <2>1
    <3>2. (x \div z) % 2 = (r \div z) % 2
      BY <1>4, <1>8, <2>1, <2>2, <3>1, LowerBit
    <3>3. (v \div z) % 2 = (r \div z) % 2
      BY <1>4, <1>8, <2>1, <2>2, <3>1, LowerBit
    <3> QED
      BY <3>2, <3>3
  <2>4. Bit(x, j) = Bit(v, j)
    BY <1>6, <2>3 DEF z
  <2> QED
    BY <1>3, <1>4, <1>12, <2>4 DEF x
<1> QED
  BY <1>4, <1>10, <1>11, <1>12

\* Writing a bit again, writing what is there, and bit 0.
LEMMA PutBitAgain ==
    ASSUME NEW v \in Bytes, NEW b \in 0..1, NEW k \in 0..(Bits - 1)
    PROVE  /\ Bit(v, k) \in 0..1
           /\ PutBit(v, k, Bit(v, k)) = v
           /\ PutBit(v, 0, b) \in Bytes
           /\ PutBit(v, 0, b) = 2 * (v \div 2) + b
           /\ PutBit(PutBit(v, 0, b), 0, 0) = PutBit(v, 0, 0)
<1>1. /\ Bits \in Nat /\ k \in 0..Bits /\ 0 \in 0..Bits /\ 0 \in 0..(Bits - 1)
      /\ v \in Nat /\ Byte \in Nat
  BY Sizes DEF Bytes
<1>2. Bit(v, k) \in 0..1 /\ Weight[k] \in Nat
  BY <1>1, Weights, BitParts
<1>3. PutBit(v, k, Bit(v, k)) = v
  BY <1>1, <1>2 DEF PutBit
<1>4. Weight[0] = 1
  BY Weights
<1>5. \A x \in Nat, c \in 0..1 : PutBit(x, 0, c) = 2 * (x \div 2) + c
  <2> SUFFICES ASSUME NEW x \in Nat, NEW c \in 0..1 PROVE PutBit(x, 0, c) = 2 * (x \div 2) + c
    OBVIOUS
  <2>1. x \div 1 = x /\ x = 2 * (x \div 2) + (x % 2)
    OBVIOUS
  <2>2. PutBit(x, 0, c) = x + (c - (x % 2)) * 1
    BY <1>4, <2>1 DEF PutBit, Bit
  <2> QED
    BY <2>1, <2>2
<1>6. PutBit(v, 0, b) = 2 * (v \div 2) + b
  BY <1>1, <1>5
<1>7. PutBit(PutBit(v, 0, b), 0, 0) = PutBit(v, 0, 0)
  <2>1. PutBit(v, 0, b) \in Nat
    BY <1>1, <1>6
  <2>2. (2 * (v \div 2) + b) \div 2 = v \div 2
    BY <1>1
  <2> QED
    BY <1>1, <1>5, <1>6, <2>1, <2>2
<1>8. PutBit(v, 0, b) \in Bytes
  BY <1>1, PutBitBits
<1> QED
  BY <1>2, <1>3, <1>6, <1>7, <1>8

\* What of PSW selects the bank.
BankField(v) == (v \div RsUnit) % Banks

\* The carry and P are not in the bank field.
LEMMA BankFieldKept ==
    ASSUME NEW v \in Bytes, NEW b \in 0..1
    PROVE  /\ BankField(PutBit(v, 0, b)) = BankField(v)
           /\ BankField(PutBit(v, CyBit, b)) = BankField(v)
           /\ BankField(v) \in 0..(Banks - 1)
           /\ BankField(RsUnit) = 1 /\ RsUnit \in Bytes
           /\ BankField(0) = 0
<1>1. v \in Nat /\ v < Byte /\ Byte \in Nat /\ Byte = 2 * Half /\ Half \in Nat /\ Half >= 2
  BY Sizes DEF Bytes
<1>2. /\ RsUnit \in Nat \ {0} /\ RsUnit % 2 = 0 /\ Banks \in Nat \ {0, 1}
      /\ Half % (RsUnit * Banks) = 0
  BY InstructionsAssumption
<1>3. RsUnit = 2 * (RsUnit \div 2) /\ RsUnit \div 2 \in Nat \ {0}
  BY <1>2
<1> DEFINE e == RsUnit \div 2
           h == v \div 2
<1>4. h \in Nat /\ v \div 2 = h
  BY <1>1
<1>5. 2 * h + b \in Nat /\ (2 * h + b) \div 2 = h
  BY <1>4
<1> HIDE DEF e
<1>6. v \div RsUnit = h \div e /\ (2 * h + b) \div RsUnit = h \div e
  <2>1. e \in Nat \ {0} /\ 2 \in Nat \ {0} /\ RsUnit = 2 * e
    BY <1>3 DEF e
  <2> DEFINE y == 2 * h + b
  <2>2. y \in Nat /\ y \div 2 = h
    BY <1>5
  <2> HIDE DEF y, h
  <2>3. (v \div 2) \div e = v \div (2 * e) /\ (y \div 2) \div e = y \div (2 * e)
    BY <1>1, <2>1, <2>2, NestedQuotient
  <2> QED
    BY <1>4, <2>1, <2>2, <2>3 DEF y
<1>7. BankField(PutBit(v, 0, b)) = BankField(v)
  <2>1. 0 \in 0..(Bits - 1)
    BY Sizes
  <2>2. PutBit(v, 0, b) = 2 * h + b
    BY <2>1, PutBitAgain
  <2> QED
    BY <1>6, <2>2 DEF BankField
<1>8. BankField(PutBit(v, CyBit, b)) = BankField(v)
  <2>1. CyBit \in 0..(Bits - 1) /\ CyBit = Bits - 1 /\ Bits \in Nat /\ Weight[CyBit] = Half
    BY Sizes DEF Half
  <2> DEFINE t == Bit(v, CyBit)
  <2>2. t \in 0..1
    BY <2>1, BitParts
  <2>3. PICK s \in 0..(Weight[Bits - 1 - CyBit] - 1), r \in 0..(Half - 1) :
            v = Half * (2 * s + t) + r
    BY <2>1, BitParts
  <2>4. Weight[Bits - 1 - CyBit] = 1
    BY <2>1, Weights
  <2>5. s = 0
    BY <2>3, <2>4
  <2>6. v = Half * (2 * 0 + t) + r /\ PutBit(v, CyBit, b) = Half * (2 * 0 + b) + r
    BY <2>1, <2>3, <2>4, <2>5, PutBitParts
  <2>7. v = Half * t + r /\ PutBit(v, CyBit, b) = Half * b + r /\ r \in Nat
    BY <1>1, <2>2, <2>3, <2>6
  <2> HIDE DEF t
  <2> DEFINE k == RsUnit * Banks
             g == Half \div k
  <2>8. k \in Nat \ {0}
    BY <1>2
  <2> HIDE DEF k
  <2>9. g \in Nat /\ Half = k * g + (Half % k) /\ Half % k = 0
    BY <1>1, <1>2, <2>8, Quotient DEF k
  <2> HIDE DEF g
  <2>10. \A c \in 0..1 : BankField(Half * c + r) = BankField(r)
    <3> SUFFICES ASSUME NEW c \in 0..1 PROVE BankField(Half * c + r) = BankField(r)
      OBVIOUS
    <3> DEFINE z == g * c
               d == r \div RsUnit
               f == r % RsUnit
    <3>1. z \in Nat /\ Half * c = RsUnit * (Banks * z)
      <4>1. z \in Nat /\ Half = k * g
        BY <2>8, <2>9
      <4>2. (k * g) * c = k * (g * c)
        BY <2>8, <2>9
      <4> HIDE DEF z
      <4>3. (RsUnit * Banks) * z = RsUnit * (Banks * z)
        BY <1>2, <4>1
      <4> QED
        BY <4>1, <4>2, <4>3 DEF k, z
    <3> HIDE DEF z
    <3>2. d \in Nat /\ f \in 0..(RsUnit - 1) /\ r = RsUnit * d + f
      BY <1>2, <2>7, Quotient, RestOf
    <3> HIDE DEF d, f
    <3> DEFINE q == Banks * z + d
    <3>3. Banks * z \in Nat /\ q \in Nat
      BY <1>2, <3>1, <3>2
    <3>4. RsUnit * (Banks * z) + r = RsUnit * q + f
      <4> DEFINE y == Banks * z
      <4>2. y \in Int
        BY <3>3
      <4> HIDE DEF y
      <4>1. RsUnit * (y + d) = RsUnit * y + RsUnit * d /\ RsUnit * y \in Int /\ RsUnit * d \in Int
        BY <1>2, <3>2, <4>2, Distribute
      <4> QED
        BY <3>2, <4>1 DEF y
    <3>5. (Half * c + r) \div RsUnit = q
      <4> HIDE DEF q
      <4> DEFINE x == Half * c + r
      <4>3. x \in Nat
        BY <1>1, <2>7
      <4>4. x = RsUnit * q + f
        BY <3>1, <3>4
      <4>1. x \in Nat /\ x = RsUnit * q + f
        BY <4>3, <4>4
      <4> HIDE DEF x
      <4>2. x \div RsUnit = q
        BY <1>2, <3>2, <3>3, <4>1, QuotientIs
      <4> QED
        BY <4>2 DEF x
    <3>6. q % Banks = d % Banks
      BY <1>2, <3>1, <3>2, DropMultiple
    <3> QED
      BY <3>5, <3>6 DEF BankField, d
  <2> QED
    BY <2>2, <2>7, <2>10
<1>9. BankField(v) \in 0..(Banks - 1)
  <2>1. v \div RsUnit \in Nat
    BY <1>1, <1>2, Quotient
  <2> QED
    BY <1>2, <2>1, RestOf DEF BankField
<1>10. BankField(RsUnit) = 1 /\ BankField(0) = 0
  <2>1. RsUnit \div RsUnit = 1 /\ 0 \div RsUnit = 0
    BY <1>2
  <2>2. 1 % Banks = 1 /\ 0 % Banks = 0
    BY <1>2
  <2> QED
    BY <2>1, <2>2 DEF BankField
<1>11. RsUnit \in Bytes
  <2> DEFINE k == RsUnit * Banks
  <2>1. k \in Nat \ {0} /\ RsUnit <= k
    BY <1>2
  <2> HIDE DEF k
  <2>2. k <= Half
    <3> SUFFICES ASSUME k > Half PROVE FALSE
      BY <1>1, <2>1
    <3>1. Half % k = Half
      BY <1>1, <2>1
    <3> QED
      BY <1>1, <1>2, <3>1 DEF k
  <2> QED
    BY <1>1, <1>2, <2>1, <2>2 DEF Bytes
<1> QED
  BY <1>7, <1>8, <1>9, <1>10, <1>11

\* Bits add up from bit 0.
LEMMA RunningSum ==
    ASSUME NEW a \in [0..(Bits - 1) -> Nat]
    PROVE  \E f \in [0..Bits -> Nat] :
              f = [n \in 0..Bits |-> IF n = 0 THEN 0 ELSE f[n - 1] + a[n - 1]]
<1> DEFINE After(k, x) == IF k \in 1..Bits THEN x + a[k - 1] ELSE x
           step == [p \in Nat \X Nat |-> After(p[1], p[2])]
<1>1. Bits \in Nat
  BY Sizes
<1>2. \A k \in Nat, x \in Nat : After(k, x) \in Nat
  <2> SUFFICES ASSUME NEW k \in 1..Bits, NEW x \in Nat PROVE x + a[k - 1] \in Nat
    OBVIOUS
  <2>1. k - 1 \in 0..(Bits - 1)
    BY <1>1
  <2>2. a[k - 1] \in Nat
    BY <2>1
  <2> QED
    BY <2>2
<1> HIDE DEF After
<1>3. step \in [Nat \X Nat -> Nat] /\ \A k \in Nat, x \in Nat : step[<<k, x>>] = After(k, x)
  BY <1>2
<1>4. 0 \in Nat
  OBVIOUS
<1> HIDE DEF step
<1>5. PICK f : Computes(f, Bits, Nat, 0, step)
  BY <1>1, <1>3, <1>4, Iterates
<1>6. f \in [0..Bits -> Nat] /\ f[0] = 0 /\ \A k \in 0..Bits : k # 0 => f[k] = step[<<k, f[k - 1]>>]
  BY <1>5 DEF Computes
<1>7. \A n \in 0..Bits : f[n] = IF n = 0 THEN 0 ELSE f[n - 1] + a[n - 1]
  <2> SUFFICES ASSUME NEW n \in 0..Bits, n # 0 PROVE f[n] = f[n - 1] + a[n - 1]
    BY <1>6
  <2>1. n \in Nat /\ n \in 1..Bits /\ n - 1 \in 0..Bits
    BY <1>1
  <2>2. f[n - 1] \in Nat
    BY <1>6, <2>1
  <2>3. f[n] = After(n, f[n - 1])
    BY <1>3, <1>6, <2>1, <2>2
  <2> QED
    BY <2>1, <2>3 DEF After
<1>8. f = [n \in 0..Bits |-> IF n = 0 THEN 0 ELSE f[n - 1] + a[n - 1]]
  BY <1>6, <1>7
<1> QED
  BY <1>6, <1>8

\* P is a bit.
LEMMA ParityIsBit ==
    ASSUME NEW v \in Bytes
    PROVE  Parity(v) \in 0..1
<1> DEFINE a == [k \in 0..(Bits - 1) |-> Bit(v, k)]
           H(f) == [n \in 0..Bits |-> IF n = 0 THEN 0 ELSE f[n - 1] + Bit(v, n - 1)]
           ones == CHOOSE f : f = H(f)
<1>1. Bits \in Nat
  BY Sizes
<1>2. \A k \in 0..(Bits - 1) : Bit(v, k) \in Nat
  <2> SUFFICES ASSUME NEW k \in 0..(Bits - 1) PROVE Bit(v, k) \in Nat
    OBVIOUS
  <2>1. Bit(v, k) \in 0..1
    BY BitParts
  <2> QED
    BY <2>1
<1>3. a \in [0..(Bits - 1) -> Nat]
  BY <1>2
<1> HIDE DEF a
<1>4. PICK g \in [0..Bits -> Nat] :
          g = [n \in 0..Bits |-> IF n = 0 THEN 0 ELSE g[n - 1] + a[n - 1]]
  BY <1>3, RunningSum
<1>5. \A n \in 0..Bits : n # 0 => n - 1 \in 0..(Bits - 1)
  BY <1>1
<1>6. g = H(g)
  BY <1>4, <1>5 DEF a
<1>7. ones = H(ones)
  BY <1>6
<1>8. Parity(v) = ones[Bits] % 2
  BY DEF Parity
<1> HIDE DEF ones
<1>9. \A n \in 0..Bits : ones[n] = IF n = 0 THEN 0 ELSE ones[n - 1] + Bit(v, n - 1)
  BY <1>7
<1> DEFINE S == {n \in Nat : n <= Bits => ones[n] \in Nat}
<1>10. 0 \in S
  BY <1>1, <1>9
<1>11. \A n \in Nat : n \in S => n + 1 \in S
  <2> SUFFICES ASSUME NEW n \in Nat, n \in S, n + 1 <= Bits PROVE ones[n + 1] \in Nat
    OBVIOUS
  <2>1. n + 1 \in 0..Bits /\ n + 1 # 0 /\ (n + 1) - 1 = n /\ n <= Bits /\ n \in 0..(Bits - 1)
    BY <1>1
  <2>2. ones[n + 1] = ones[n] + Bit(v, n) /\ Bit(v, n) \in Nat
    BY <1>2, <1>9, <2>1
  <2> QED
    BY <2>1, <2>2
<1> HIDE DEF S
<1>12. Bits \in S
  BY <1>1, <1>10, <1>11, Induction
<1>13. ones[Bits] \in Nat
  BY <1>1, <1>12 DEF S
<1> QED
  BY <1>8, <1>13

\* Two bits combine to a bit.
LEMMA CombineBitsType ==
    ASSUME NEW mn \in {"ANL", "ORL", "XRL"}, NEW x \in 0..1, NEW y \in 0..1
    PROVE  CombineBits(mn, x, y) \in 0..1 /\ CombineBits(mn, 0, 0) = 0
           /\ CombineBits("ANL", x, y) = (IF x = 1 /\ y = 1 THEN 1 ELSE 0)
           /\ CombineBits("ORL", x, y) = (IF x = 0 /\ y = 0 THEN 0 ELSE 1)
<1>1. (x = 0 \/ x = 1) /\ (y = 0 \/ y = 1)
  OBVIOUS
<1> QED
  BY <1>1 DEF CombineBits, AndBit, OrBit, XorBit

\* Bytes combine to a byte, bits to what the two bits combine to.
LEMMA CombineType ==
    ASSUME NEW mn \in {"ANL", "ORL", "XRL"}, NEW v \in Bytes, NEW w \in Bytes
    PROVE  /\ Combine(mn, v, w) \in Bytes
           /\ v \in 0..1 /\ w \in 0..1 => Combine(mn, v, w) = CombineBits(mn, v, w)
<1> DEFINE Part(k) == CombineBits(mn, Bit(v, k), Bit(w, k))
           a == [k \in 0..(Bits - 1) |-> Part(k) * Weight[k]]
           H(f) == [n \in 0..Bits |-> IF n = 0 THEN 0
                        ELSE f[n - 1] + CombineBits(mn, Bit(v, n - 1), Bit(w, n - 1)) * Weight[n - 1]]
           low == CHOOSE f : f = H(f)
<1>1. Bits \in Nat /\ Bits >= 2
  BY Sizes
<1>2. \A k \in 0..(Bits - 1) : Part(k) \in 0..1 /\ Weight[k] \in Nat
  <2> SUFFICES ASSUME NEW k \in 0..(Bits - 1) PROVE Part(k) \in 0..1 /\ Weight[k] \in Nat
    OBVIOUS
  <2>1. Bit(v, k) \in 0..1 /\ Bit(w, k) \in 0..1
    BY BitParts
  <2>2. k \in 0..Bits
    BY <1>1
  <2> QED
    BY <2>1, <2>2, CombineBitsType, Weights
<1>3. a \in [0..(Bits - 1) -> Nat]
  <2> SUFFICES ASSUME NEW k \in 0..(Bits - 1) PROVE Part(k) * Weight[k] \in Nat
    OBVIOUS
  <2> HIDE DEF Part
  <2>1. Part(k) = 0 \/ Part(k) = 1
    BY <1>2
  <2> QED
    BY <1>2, <2>1
<1>4. PICK g \in [0..Bits -> Nat] :
          g = [n \in 0..Bits |-> IF n = 0 THEN 0 ELSE g[n - 1] + a[n - 1]]
  <2> HIDE DEF a
  <2> QED
    BY <1>3, RunningSum
<1>5. \A n \in 0..Bits : n # 0 => n - 1 \in 0..(Bits - 1)
  BY <1>1
<1>6. g = H(g)
  <2>1. \A n \in 0..Bits : n # 0 => a[n - 1] = Part(n - 1) * Weight[n - 1]
    <3> HIDE DEF Part
    <3> QED
      BY <1>5
  <2> HIDE DEF a
  <2> QED
    BY <1>4, <2>1
<1>7. low = H(low)
  BY <1>6
<1>8. Combine(mn, v, w) = low[Bits]
  BY DEF Combine
<1> HIDE DEF low, a
<1>9. \A n \in 0..Bits : low[n] = IF n = 0 THEN 0 ELSE low[n - 1] + Part(n - 1) * Weight[n - 1]
  BY <1>7
<1> HIDE DEF Part, H
<1> DEFINE S == {n \in Nat : n <= Bits => low[n] \in 0..(Weight[n] - 1)}
<1>10. 0 \in S
  <2>1. Weight[0] = 1 /\ low[0] = 0
    BY <1>1, <1>9, Weights
  <2> QED
    BY <2>1
<1>11. \A n \in Nat : n \in S => n + 1 \in S
  <2> SUFFICES ASSUME NEW n \in Nat, n \in S, n + 1 <= Bits
               PROVE  low[n + 1] \in 0..(Weight[n + 1] - 1)
    OBVIOUS
  <2>1. n + 1 \in 0..Bits /\ n + 1 # 0 /\ (n + 1) - 1 = n /\ n <= Bits /\ n \in 0..(Bits - 1)
        /\ n + 1 \in 1..Bits
    BY <1>1
  <2>2. low[n + 1] = low[n] + Part(n) * Weight[n] /\ (Part(n) = 0 \/ Part(n) = 1) /\ Weight[n] \in Nat
    BY <1>2, <1>9, <2>1
  <2>3. Weight[n + 1] = 2 * Weight[n] /\ low[n] \in 0..(Weight[n] - 1)
    BY <2>1, Weights
  <2>4. Part(n) * Weight[n] = 0 \/ Part(n) * Weight[n] = Weight[n]
    BY <2>2
  <2> QED
    BY <2>2, <2>3, <2>4
<1> HIDE DEF S
<1>12. Bits \in S
  BY <1>1, <1>10, <1>11, Induction
<1>13. Combine(mn, v, w) \in Bytes
  <2>1. low[Bits] \in 0..(Weight[Bits] - 1)
    BY <1>1, <1>12 DEF S
  <2> QED
    BY <1>8, <2>1 DEF Bytes, Byte
<1>14. ASSUME v \in 0..1, w \in 0..1 PROVE Combine(mn, v, w) = CombineBits(mn, v, w)
  <2>1. \A k \in 0..(Bits - 1) : Part(k) = IF k = 0 THEN CombineBits(mn, v, w) ELSE 0
    <3> SUFFICES ASSUME NEW k \in 0..(Bits - 1)
                 PROVE  Part(k) = IF k = 0 THEN CombineBits(mn, v, w) ELSE 0
      OBVIOUS
    <3>1. CASE k = 0
      <4>1. Weight[0] = 1
        BY Weights
      <4>2. Bit(v, 0) = v /\ Bit(w, 0) = w
        BY <1>14, <4>1 DEF Bit
      <4> QED
        BY <3>1, <4>2 DEF Part
    <3>2. CASE k # 0
      <4>1. k \in 1..Bits /\ k - 1 \in 0..Bits
        BY <1>1, <3>2
      <4>2. Weight[k] = 2 * Weight[k - 1] /\ Weight[k - 1] \in Nat \ {0}
        BY <4>1, Weights
      <4>3. \A x \in 0..1 : x \div Weight[k] = 0
        BY <4>2
      <4>4. Bit(v, k) = 0 /\ Bit(w, k) = 0
        BY <1>14, <4>3 DEF Bit
      <4>5. CombineBits(mn, 0, 0) = 0
        BY <1>14, CombineBitsType
      <4> QED
        BY <3>2, <4>4, <4>5 DEF Part
    <3> QED
      BY <3>1, <3>2
  <2> DEFINE c == CombineBits(mn, v, w)
             T == {n \in Nat : n >= 1 /\ n <= Bits => low[n] = c}
  <2>2. c \in 0..1
    BY <1>14, CombineBitsType
  <2> HIDE DEF c
  <2>3. 0 \in T
    OBVIOUS
  <2>4. \A n \in Nat : n \in T => n + 1 \in T
    <3> SUFFICES ASSUME NEW n \in Nat, n \in T, n + 1 <= Bits PROVE low[n + 1] = c
      OBVIOUS
    <3>1. n + 1 \in 0..Bits /\ n + 1 # 0 /\ (n + 1) - 1 = n /\ n <= Bits /\ n \in 0..(Bits - 1)
      BY <1>1
    <3>2. low[n + 1] = low[n] + Part(n) * Weight[n] /\ Weight[n] \in Nat
      BY <1>2, <1>9, <3>1
    <3>3. CASE n = 0
      <4>1. low[0] = 0 /\ Part(0) = c /\ Weight[0] = 1
        BY <1>1, <1>9, <2>1, <3>1, <3>3, Weights DEF c
      <4> QED
        BY <2>2, <3>2, <3>3, <4>1
    <3>4. CASE n # 0
      <4>1. low[n] = c /\ Part(n) = 0
        BY <2>1, <3>1, <3>4
      <4> QED
        BY <2>2, <3>2, <4>1
    <3> QED
      BY <3>3, <3>4
  <2> HIDE DEF T
  <2>5. Bits \in T
    BY <1>1, <2>3, <2>4, Induction
  <2>6. low[Bits] = c
    BY <1>1, <2>5 DEF T
  <2> QED
    BY <1>8, <2>6 DEF c
<1> QED
  BY <1>13, <1>14

------------------------------------------------------------------------------
\* Addresses

\* The SFRs of the CPU are six addresses in the upper half.
LEMMA Addresses ==
    /\ {SP, DPL, DPH, PSW, ACC, B} \subseteq Half..(Byte - 1)
    /\ SP \notin {DPL, DPH, PSW, ACC, B} /\ DPL \notin {DPH, PSW, ACC, B}
    /\ DPH \notin {PSW, ACC, B} /\ PSW \notin {ACC, B} /\ ACC # B
<1>1. /\ Hooked[1] = SP /\ Hooked[2] = DPL /\ Hooked[3] = DPH
      /\ Hooked[4] = PSW /\ Hooked[5] = ACC /\ Hooked[6] = B
  BY DEF Hooked
<1>2. \A i \in 1..6 : Hooked[i] \in Half..(Byte - 1)
  BY InstructionsAssumption
<1>3. \A i, j \in 1..6 : Hooked[i] = Hooked[j] => i = j
  BY InstructionsAssumption
<1> HIDE DEF Hooked
<1>4. /\ Hooked[1] \in Half..(Byte - 1) /\ Hooked[2] \in Half..(Byte - 1)
      /\ Hooked[3] \in Half..(Byte - 1) /\ Hooked[4] \in Half..(Byte - 1)
      /\ Hooked[5] \in Half..(Byte - 1) /\ Hooked[6] \in Half..(Byte - 1)
  BY <1>2
<1>5. SP \notin {DPL, DPH, PSW, ACC, B} /\ DPL \notin {DPH, PSW, ACC, B}
  BY <1>1, <1>3
<1>6. DPH \notin {PSW, ACC, B} /\ PSW \notin {ACC, B} /\ ACC # B
  BY <1>1, <1>3
<1> QED
  BY <1>1, <1>4, <1>5, <1>6

\* Addresses are bytes; the lower ones are not those of SFRs.
LEMMA AddressBytes ==
    /\ SP \in Bytes /\ DPL \in Bytes /\ DPH \in Bytes /\ PSW \in Bytes /\ ACC \in Bytes /\ B \in Bytes
    /\ \A a \in Bytes : a < Half => a \notin {SP, DPL, DPH, PSW, ACC, B}
    /\ \A a \in Bytes : ~(a < Half) => a \in Half..(Byte - 1)
<1>1. Half \in Nat /\ Byte \in Nat
  BY Sizes
<1> QED
  BY <1>1, Addresses DEF Bytes

\* What an SFR write does.
LEMMA WriteDirectCases ==
    ASSUME NEW c, NEW a \in Bytes, NEW v
    PROVE  /\ a < Half => WriteDirect(c, a, v) = [c EXCEPT !.iram[a] = v]
           /\ a = ACC => WriteDirect(c, a, v) = [c EXCEPT !.acc = v]
           /\ a = B => WriteDirect(c, a, v) = [c EXCEPT !.b = v]
           /\ a = PSW => WriteDirect(c, a, v) = [c EXCEPT !.psw = v]
           /\ a = SP => WriteDirect(c, a, v) = [c EXCEPT !.sp = v]
           /\ a = DPL => WriteDirect(c, a, v) = [c EXCEPT !.dptr = @ - (@ % Byte) + v]
           /\ a = DPH => WriteDirect(c, a, v) = [c EXCEPT !.dptr = SetHigh(@, v)]
           /\ ~(a < Half) /\ a \notin {SP, DPL, DPH, PSW, ACC, B} =>
                 WriteDirect(c, a, v) = [c EXCEPT !.sfr[a] = v]
<1>1. a < Half => a \notin {SP, DPL, DPH, PSW, ACC, B}
  BY AddressBytes
<1> QED
  BY <1>1, Addresses DEF WriteDirect

\* What cpu_read_direct reads, address by address.
LEMMA ReadDirectCases ==
    ASSUME NEW c, NEW a \in Bytes
    PROVE  /\ a < Half => ReadDirect(c, a) = c.iram[a]
           /\ a = ACC => ReadDirect(c, a) = c.acc
           /\ a = B => ReadDirect(c, a) = c.b
           /\ a = PSW => ReadDirect(c, a) = c.psw
           /\ a = SP => ReadDirect(c, a) = c.sp
           /\ a = DPL => ReadDirect(c, a) = c.dptr % Byte
           /\ a = DPH => ReadDirect(c, a) = c.dptr \div Byte
           /\ ~(a < Half) /\ a \notin {SP, DPL, DPH, PSW, ACC, B} => ReadDirect(c, a) = c.sfr[a]
<1>1. a < Half => a \notin {SP, DPL, DPH, PSW, ACC, B}
  BY AddressBytes
<1> QED
  BY <1>1, Addresses DEF ReadDirect

\* The bytes of a word, and words of bytes.
LEMMA WordBytes ==
    ASSUME NEW w \in 0..(Word - 1), NEW v \in Bytes
    PROVE  /\ w \div Byte \in Bytes /\ w % Byte \in Bytes
           /\ w = Byte * (w \div Byte) + (w % Byte)
           /\ SetHigh(w, v) \in 0..(Word - 1)
           /\ w - (w % Byte) + v \in 0..(Word - 1)
           /\ \A hi \in Bytes : hi * Byte + v \in 0..(Word - 1)
<1>1. Byte \in Nat \ {0} /\ Word = Byte * Byte
  BY Sizes
<1>2. /\ w \div Byte \in Bytes /\ w % Byte \in Bytes
      /\ w = Byte * (w \div Byte) + (w % Byte)
  BY <1>1, Digits DEF Bytes
<1>3. \A hi \in Bytes, lo \in Bytes : Byte * hi + lo \in 0..(Word - 1)
  BY <1>1, OfDigits DEF Bytes
<1>4. \A hi \in Bytes : hi * Byte = Byte * hi
  BY <1>1 DEF Bytes
<1>5. SetHigh(w, v) \in 0..(Word - 1)
  <2>1. SetHigh(w, v) = Byte * v + (w % Byte)
    BY <1>4 DEF SetHigh
  <2> QED
    BY <1>2, <1>3, <2>1
<1>6. w - (w % Byte) + v \in 0..(Word - 1)
  <2> DEFINE h == w \div Byte
             l == w % Byte
             x == Byte * h
  <2>1. x \in Int /\ l \in Int /\ w = x + l /\ v \in Int
    BY <1>1, <1>2 DEF Bytes
  <2>2. x + v \in 0..(Word - 1)
    BY <1>2, <1>3
  <2> HIDE DEF x, l
  <2>3. w - l + v = x + v
    BY <2>1
  <2> QED
    BY <2>2, <2>3 DEF l
<1> QED
  BY <1>2, <1>3, <1>4, <1>5, <1>6

\* Direct accesses keep to bytes.
LEMMA DirectType ==
    ASSUME NEW c \in Cpu, NEW a \in Bytes, NEW v \in Bytes
    PROVE  ReadDirect(c, a) \in Bytes /\ WriteDirect(c, a, v) \in Cpu
<1>1. CASE a < Half
  BY <1>1, ReadDirectCases, WriteDirectCases DEF Cpu
<1>2. CASE a \in {DPL, DPH}
  <2> DEFINE w == c.dptr
             x == SetHigh(w, v)
             y == w - (w % Byte) + v
  <2>1. w \in 0..(Word - 1)
    BY DEF Cpu
  <2> HIDE DEF w
  <2>2. w \div Byte \in Bytes /\ w % Byte \in Bytes /\ x \in 0..(Word - 1) /\ y \in 0..(Word - 1)
    BY <2>1, WordBytes
  <2>3. ReadDirect(c, a) \in {w \div Byte, w % Byte}
    <3>1. a = DPL => ReadDirect(c, a) = c.dptr % Byte
      BY ReadDirectCases
    <3>2. a = DPH => ReadDirect(c, a) = c.dptr \div Byte
      BY ReadDirectCases
    <3> QED
      BY <1>2, <3>1, <3>2 DEF w
  <2>4. WriteDirect(c, a, v) \in {[c EXCEPT !.dptr = x], [c EXCEPT !.dptr = y]}
    <3>1. a = DPL => WriteDirect(c, a, v) = [c EXCEPT !.dptr = y]
      BY AddressBytes, Addresses DEF WriteDirect, w
    <3>2. a = DPH => WriteDirect(c, a, v) = [c EXCEPT !.dptr = x]
      BY AddressBytes, Addresses DEF WriteDirect, w
    <3> QED
      BY <1>2, <3>1, <3>2
  <2> HIDE DEF x, y
  <2>5. [c EXCEPT !.dptr = x] \in Cpu /\ [c EXCEPT !.dptr = y] \in Cpu
    BY <2>2 DEF Cpu
  <2> QED
    BY <2>2, <2>3, <2>4, <2>5
<1>3. CASE a \in {ACC, B, PSW, SP}
  BY <1>3, ReadDirectCases, WriteDirectCases DEF Cpu
<1>4. CASE ~(a < Half) /\ a \notin {SP, DPL, DPH, PSW, ACC, B}
  <2>1. a \in Half..(Byte - 1)
    BY <1>4, AddressBytes
  <2>2. ReadDirect(c, a) = c.sfr[a]
    BY <1>4, <2>1, AddressBytes DEF ReadDirect
  <2> DEFINE S == Half..(Byte - 1)
             f == [c.sfr EXCEPT ![a] = v]
  <2>3. WriteDirect(c, a, v) = [c EXCEPT !.sfr = f]
    BY <1>4, <2>1, AddressBytes DEF WriteDirect
  <2>4. c.sfr \in [S -> Bytes] /\ a \in S
    BY <2>1 DEF Cpu
  <2>5. \A g \in [S -> Bytes] : [c EXCEPT !.sfr = g] \in Cpu
    BY DEF Cpu
  <2> HIDE DEF S
  <2>6. f \in [S -> Bytes] /\ c.sfr[a] \in Bytes
    BY <2>4
  <2> HIDE DEF f
  <2> QED
    BY <2>2, <2>3, <2>5, <2>6
<1> QED
  BY <1>1, <1>2, <1>3, <1>4

------------------------------------------------------------------------------
\* Cells and operands

\* The upper half begins where the address of a byte of bits does.
LEMMA BitBytes ==
    /\ Half \div Bits \in Nat /\ Half = Bits * (Half \div Bits)
    /\ BitBase \in Nat /\ BitBase + (Half \div Bits) <= Half
<1>1. Bits \in Nat \ {0} /\ Half \in Nat
  BY Sizes
<1>2. Half % Bits = 0
  BY InstructionsAssumption
<1>3. Half \div Bits \in Nat /\ Half = Bits * (Half \div Bits) + (Half % Bits)
  BY <1>1, Quotient
<1>4. Bits * (Half \div Bits) \in Int
  BY <1>1, <1>3
<1>5. Half = Bits * (Half \div Bits)
  BY <1>2, <1>3, <1>4
<1>6. BitBase \in Nat /\ BitBase + (Half \div Bits) <= Half
  BY InstructionsAssumption
<1> QED
  BY <1>3, <1>5, <1>6

\* A bit lives in a byte of internal RAM or in an SFR.
LEMMA ByteOfType ==
    ASSUME NEW b \in Bytes
    PROVE  /\ b \in Nat /\ b % Bits \in 0..(Bits - 1) /\ b \div Bits \in Nat
           /\ b = Bits * (b \div Bits) + (b % Bits)
           /\ ByteOf(b) \in Bytes
           /\ b < Half => ByteOf(b) = BitBase + b \div Bits /\ ByteOf(b) < Half
           /\ ~(b < Half) => ByteOf(b) = b - (b % Bits) /\ ~(ByteOf(b) < Half)
<1> DEFINE d == b \div Bits
           e == b % Bits
           g == Half \div Bits
<1>1. Bits \in Nat \ {0} /\ Half \in Nat /\ Byte = 2 * Half /\ b \in Nat /\ b < Byte
  BY Sizes DEF Bytes
<1>2. d \in Nat /\ e \in 0..(Bits - 1) /\ b = Bits * d + e
  BY <1>1, Quotient, RestOf
<1>3. g \in Nat /\ Half = Bits * g /\ BitBase \in Nat /\ BitBase + g <= Half
  BY BitBytes
<1>4. ByteOf(b) = IF b < Half THEN BitBase + d ELSE b - e
  BY DEF ByteOf
<1> HIDE DEF d, e, g
<1>5. \A x \in Nat, y \in Nat : x < y => Bits * x + Bits <= Bits * y
  <2> SUFFICES ASSUME NEW x \in Nat, NEW y \in Nat, x < y PROVE Bits * x + Bits <= Bits * y
    OBVIOUS
  <2>1. y - (x + 1) \in Nat /\ y = (x + 1) + (y - (x + 1))
    OBVIOUS
  <2>2. PICK k \in Nat : y = (x + 1) + k
    BY <2>1
  <2>3. Bits * y = Bits * (x + 1) + Bits * k /\ Bits * k \in Nat
    BY <1>1, <2>2, Distribute
  <2>4. Bits * (x + 1) = Bits * x + Bits * 1 /\ Bits * x \in Nat
    BY <1>1, Distribute
  <2> QED
    BY <1>1, <2>3, <2>4
<1>6. Bits * d \in Nat /\ Bits * g \in Nat
  BY <1>1, <1>2, <1>3
<1>7. CASE b < Half
  <2>1. d < g
    <3> SUFFICES ASSUME ~(d < g) PROVE FALSE
      OBVIOUS
    <3>1. d = g \/ g < d
      BY <1>2, <1>3
    <3>2. Bits * g <= Bits * d
      BY <1>1, <1>2, <1>3, <1>5, <1>6, <3>1
    <3> QED
      BY <1>2, <1>3, <1>6, <1>7, <3>2
  <2>2. BitBase + d < Half /\ BitBase + d \in Nat
    BY <1>1, <1>2, <1>3, <2>1
  <2> QED
    BY <1>1, <1>2, <1>4, <1>7, <2>2 DEF Bytes, d, e
<1>8. CASE ~(b < Half)
  <2>1. ~(d < g)
    <3> SUFFICES ASSUME d < g PROVE FALSE
      OBVIOUS
    <3>1. Bits * d + Bits <= Bits * g
      BY <1>2, <1>3, <1>5
    <3> QED
      BY <1>1, <1>2, <1>3, <1>6, <1>8, <3>1
  <2>2. Bits * g <= Bits * d
    <3>1. d = g \/ g < d
      BY <1>2, <1>3, <2>1
    <3> QED
      BY <1>1, <1>2, <1>3, <1>5, <1>6, <3>1
  <2>3. b - e = Bits * d
    BY <1>1, <1>2, <1>6
  <2>4. b - e \in Nat /\ ~(b - e < Half) /\ b - e <= b
    BY <1>1, <1>2, <1>3, <1>6, <2>2, <2>3
  <2> QED
    BY <1>1, <1>2, <1>4, <1>8, <2>4 DEF Bytes, d, e
<1> QED
  BY <1>7, <1>8

\* Bits keep to bits, and bytes with bits written to bytes.
LEMMA BitType ==
    ASSUME NEW c \in Cpu, NEW b \in Bytes, NEW v \in 0..1
    PROVE  ReadBit(c, b) \in 0..1 /\ WriteBit(c, b, v) \in Cpu
<1>1. ByteOf(b) \in Bytes /\ b % Bits \in 0..(Bits - 1)
  BY ByteOfType
<1>2. ReadDirect(c, ByteOf(b)) \in Bytes
  BY <1>1, Sizes, DirectType
<1>3. Bit(ReadDirect(c, ByteOf(b)), b % Bits) \in 0..1
  BY <1>1, <1>2, BitParts
<1>4. PutBit(ReadDirect(c, ByteOf(b)), b % Bits, v) \in Bytes
  BY <1>1, <1>2, PutBitBits
<1> QED
  BY <1>1, <1>3, <1>4, DirectType DEF ReadBit, WriteBit

\* The carry, and P.
LEMMA FlagType ==
    ASSUME NEW c \in Cpu, NEW v \in 0..1
    PROVE  /\ Carry(c) \in 0..1
           /\ SetCarry(c, v) \in Cpu
           /\ SetCarry(c, v) = [c EXCEPT !.psw = PutBit(c.psw, CyBit, v)]
<1>1. c.psw \in Bytes /\ CyBit \in 0..(Bits - 1)
  BY Sizes DEF Cpu
<1>2. PutBit(c.psw, CyBit, v) \in Bytes /\ Bit(c.psw, CyBit) \in 0..1
  BY <1>1, PutBitBits, BitParts
<1>3. SetCarry(c, v) = [c EXCEPT !.psw = PutBit(c.psw, CyBit, v)]
  BY DEF SetCarry
<1> QED
  BY <1>2, <1>3 DEF Cpu, Carry

\* Registers live below the stack and the bytes of bits; those of bank 0 first.
LEMMA RegCellType ==
    ASSUME NEW c \in Cpu, NEW n \in 0..(Regs - 1)
    PROVE  /\ Bank(c) = BankField(c.psw) /\ Bank(c) \in 0..(Banks - 1)
           /\ RegCell(c, n) \in Bytes /\ RegCell(c, n) < Half /\ RegCell(c, n) <= StackBase
           /\ RegCell(c, n) < Regs * Banks
           /\ Bank(c) # 0 => RegCell(c, n) >= Regs
           /\ AtCell(c, n) \in Bytes
<1> DEFINE k == Bank(c)
           x == Regs * k
           z == Regs * Banks
<1>1. k = BankField(c.psw) /\ k \in 0..(Banks - 1)
  <2>1. c.psw \in Bytes /\ 0 \in 0..1
    BY DEF Cpu
  <2> QED
    BY <2>1, BankFieldKept DEF Bank, BankField
<1>2. /\ Regs \in Nat \ {0} /\ Banks \in Nat \ {0} /\ z <= BitBase /\ BitBase \in Nat
      /\ BitBase <= Half
  BY BitBytes, InstructionsAssumption
<1>3. Half \in Nat /\ Byte = 2 * Half /\ StackBase \in z..(Byte - 1)
  BY Sizes, CoreAssumption
<1>4. RegCell(c, n) = x + n
  BY <1>1, <1>2 DEF RegCell
<1> HIDE DEF k
<1>5. k \in Nat /\ k + 1 <= Banks
  BY <1>1, <1>2
<1>6. x \in Nat /\ z \in Nat
  BY <1>2, <1>5
<1>7. x + Regs <= z
  <2>1. Banks - (k + 1) \in Nat /\ Banks = (k + 1) + (Banks - (k + 1))
    BY <1>2, <1>5
  <2>2. PICK d \in Nat : Banks = (k + 1) + d
    BY <2>1
  <2>3. z = Regs * (k + 1) + Regs * d /\ Regs * d \in Nat
    BY <1>2, <1>5, <2>2, Distribute
  <2>4. Regs * (k + 1) = Regs * k + Regs * 1
    BY <1>2, <1>5, Distribute
  <2> QED
    BY <1>2, <1>6, <2>3, <2>4
<1>8. k # 0 => x >= Regs
  <2> SUFFICES ASSUME k # 0 PROVE x >= Regs
    OBVIOUS
  <2>1. k - 1 \in Nat /\ k = (k - 1) + 1
    BY <1>5
  <2>2. PICK d \in Nat : k = d + 1
    BY <2>1
  <2>3. x = Regs * d + Regs * 1 /\ Regs * d \in Nat
    BY <1>2, <2>2, Distribute
  <2> QED
    BY <1>2, <2>3
<1> HIDE DEF x, z
<1>9. /\ x + n \in Nat /\ x + n < Half /\ x + n <= StackBase /\ x + n < z
      /\ k # 0 => x + n >= Regs
  BY <1>2, <1>3, <1>6, <1>7, <1>8
<1>10. x + n \in Bytes
  BY <1>3, <1>9 DEF Bytes
<1>11. AtCell(c, n) \in Bytes
  BY <1>4, <1>10 DEF AtCell, Cpu
<1> QED
  BY <1>1, <1>4, <1>9, <1>10, <1>11 DEF k, z

------------------------------------------------------------------------------
\* The rows of the table

ValueModes == {"A", "IMM8", "DIRECT", "RN", "AT_RI"}
PlaceModes == {"A", "DIRECT", "RN", "AT_RI"}

\* Operands by mnemonic: data, bits, branches, and the rest.
LEMMA DataRows ==
    ASSUME NEW mn, NEW d, NEW s, NEW size, <<mn, d, s, size>> \in Table
    PROVE  /\ mn = "MOV" => \/ d = "C" /\ s = "BIT"
                            \/ d = "BIT" /\ s = "C"
                            \/ d \in PlaceModes /\ s \in ValueModes
           /\ mn \in {"ANL", "ORL"} => \/ d = "C" /\ s \in {"BIT", "BIT_NOT"}
                                       \/ d \in PlaceModes /\ s \in ValueModes
           /\ mn = "XRL" => d \in PlaceModes /\ s \in ValueModes
           /\ mn = "MOV_DIRECT_DIRECT" => d = "DIRECT" /\ s = "DIRECT"
           /\ mn = "MOV_DPTR_IMM" => d = "ADDR16" /\ s = "NONE"
           /\ mn = "INC" => (d \in PlaceModes \/ d = "DPTR") /\ s = "NONE"
           /\ mn = "DEC" => d \in PlaceModes /\ s = "NONE"
           /\ mn = "XCH" => d \in {"DIRECT", "RN", "AT_RI"} /\ s = "NONE"
           /\ mn = "XCHD" => d = "AT_RI" /\ s = "NONE"
BY DEF Table, Rows, PlaceModes, ValueModes

\* The operands of the bit, branch and compare instructions.
LEMMA BitRows ==
    ASSUME NEW mn, NEW d, NEW s, NEW size, <<mn, d, s, size>> \in Table
    PROVE  /\ mn \in {"CLR", "CPL"} => d \in {"A", "C", "BIT"} /\ s = "NONE"
           /\ mn = "SETB" => d \in {"C", "BIT"} /\ s = "NONE"
           /\ mn \in {"JB", "JNB", "JBC"} => d = "BIT" /\ s = "REL8"
           /\ mn \in {"JC", "JNC", "JZ", "JNZ", "SJMP"} => d = "REL8" /\ s = "NONE"
           /\ mn \in {"CJNE_A_IMM", "CJNE_AT_RI_IMM", "CJNE_RN_IMM"} => d = "REL8" /\ s = "IMM8"
           /\ mn = "CJNE_A_DIRECT" => d = "REL8" /\ s = "DIRECT"
           /\ mn = "DJNZ" => d \in {"DIRECT", "RN"} /\ s = "REL8"
BY DEF Table, Rows

\* The operands of jumps, calls, stack and code-memory instructions.
LEMMA OtherRows ==
    ASSUME NEW mn, NEW d, NEW s, NEW size, <<mn, d, s, size>> \in Table
    PROVE  /\ mn \in {"AJMP", "ACALL"} => d = "ADDR11" /\ s = "NONE"
           /\ mn \in {"LJMP", "LCALL"} => d = "ADDR16" /\ s = "NONE"
           /\ mn \in {"MOVX_A_AT_RI", "MOVX_AT_RI_A"} => d = "AT_RI" /\ s = "NONE"
           /\ mn \in {"PUSH", "POP"} => d = "DIRECT" /\ s = "NONE"
           /\ mn \in {"NOP", "SWAP", "RL", "RR", "RET", "RETI", "JMPA_DPTR", "MOVC_A_DPTR",
                      "MOVC_A_PC", "MOVX_A_DPTR", "MOVX_DPTR_A"} => d = "NONE" /\ s = "NONE"
BY DEF Table, Rows

\* The mnemonics of the table.
Mnemonics ==
    {"MOV", "ANL", "ORL", "XRL", "MOV_DIRECT_DIRECT", "MOV_DPTR_IMM", "INC", "DEC", "XCH", "XCHD",
     "CLR", "CPL", "SETB", "JB", "JNB", "JBC", "JC", "JNC", "JZ", "JNZ", "SJMP",
     "CJNE_A_IMM", "CJNE_AT_RI_IMM", "CJNE_RN_IMM", "CJNE_A_DIRECT", "DJNZ",
     "AJMP", "ACALL", "LJMP", "LCALL", "MOVX_A_AT_RI", "MOVX_AT_RI_A", "PUSH", "POP",
     "NOP", "SWAP", "RL", "RR", "RET", "RETI", "JMPA_DPTR", "MOVC_A_DPTR", "MOVC_A_PC",
     "MOVX_A_DPTR", "MOVX_DPTR_A"}

\* A row's size is that of its operands and the opcode.
LEMMA RowSize ==
    ASSUME NEW mn, NEW d, NEW s, NEW size, <<mn, d, s, size>> \in Table
    PROVE  /\ mn \in Mnemonics
           /\ d \in DOMAIN Args /\ s \in DOMAIN Args
           /\ size = 1 + OperandBytes(d) + OperandBytes(s)
<1>1. mn \in Mnemonics
  BY DEF Table, Rows, Mnemonics
<1>2. d \in DOMAIN Args /\ s \in DOMAIN Args
  <2>1. DOMAIN Args = {"A", "C", "DPTR", "NONE", "IMM8", "DIRECT", "BIT", "BIT_NOT", "REL8", "RN",
                       "AT_RI", "ADDR11", "ADDR16"}
    BY CoreAssumption
  <2> QED
    BY <2>1 DEF Table, Rows
<1>3. /\ \A x \in {"DIRECT", "IMM8", "BIT", "BIT_NOT", "REL8", "ADDR11"} : OperandBytes(x) = 1
      /\ OperandBytes("ADDR16") = 2
      /\ \A x \in {"A", "C", "DPTR", "NONE", "RN", "AT_RI"} : OperandBytes(x) = 0
  BY DEF OperandBytes
<1>4. size = 1 + OperandBytes(d) + OperandBytes(s)
  BY <1>3 DEF Table, Rows
<1> QED
  BY <1>1, <1>2, <1>4

\* An operand of an addressing mode.
IsOperand(o) == o.mode \in DOMAIN Args /\ o.arg \in Operands(o.mode)

\* What the argument of an operand can be.
LEMMA OperandArgs ==
    ASSUME NEW o, IsOperand(o)
    PROVE  /\ o.mode \in {"IMM8", "DIRECT", "BIT", "BIT_NOT", "REL8"} => o.arg \in Bytes
           /\ o.mode \in {"RN", "AT_RI"} => o.arg \in 0..(Regs - 1)
           /\ o.mode = "ADDR11" => o.arg \in 0..(Page - 1)
           /\ o.mode = "ADDR16" => o.arg \in 0..(Word - 1)
BY DEF IsOperand, Operands

\* An instruction has the modes of a row, and operands of those modes.
IsInstruction(i) ==
    /\ IsOperand(i.dst) /\ IsOperand(i.src)
    /\ \E size : <<i.mn, i.dst.mode, i.src.mode, size>> \in Table
    /\ IsOperand(i.lhs) /\ i.lhs.mode = LhsMode(i.mn)

\* What CJNE compares is of one of these modes.
LEMMA LhsModes ==
    ASSUME NEW mn
    PROVE  LhsMode(mn) \in {"A", "RN", "AT_RI", "NONE"} /\ LhsMode(mn) \in DOMAIN Args
BY CoreAssumption DEF LhsMode

\* What a row of the table renders is an instruction with that row's modes.
LEMMA RowInstructions ==
    ASSUME NEW row \in Table, NEW i \in Rendered(row)
    PROVE  IsInstruction(i) /\ <<i.mn, i.dst.mode, i.src.mode, row[4]>> \in Table
<1>1. PICK d \in OperandSet(row[2]), s \in OperandSet(row[3]), l \in OperandSet(LhsMode(row[1])) :
          i = [mn |-> row[1], dst |-> d, src |-> s, lhs |-> l]
  BY DEF Rendered
<1>2. row = <<row[1], row[2], row[3], row[4]>>
  BY DEF Table, Rows
<1>3. <<row[1], row[2], row[3], row[4]>> \in Table
  BY <1>2
<1>4. row[2] \in DOMAIN Args /\ row[3] \in DOMAIN Args
  BY <1>3, RowSize
<1>5. \A mode \in DOMAIN Args : Args[mode] \subseteq Operands(mode)
  BY CoreAssumption
<1>6. /\ d.mode = row[2] /\ d.arg \in Args[row[2]] /\ s.mode = row[3] /\ s.arg \in Args[row[3]]
      /\ l.mode = LhsMode(row[1]) /\ l.arg \in Args[LhsMode(row[1])]
  BY DEF OperandSet
<1>7. IsOperand(d) /\ IsOperand(s) /\ IsOperand(l)
  BY <1>4, <1>5, <1>6, LhsModes DEF IsOperand
<1>8. i.mn = row[1] /\ i.dst = d /\ i.src = s /\ i.lhs = l
  BY <1>1
<1> QED
  BY <1>3, <1>6, <1>7, <1>8 DEF IsInstruction

\* What firmware executes is an instruction.
LEMMA InstructionsAre ==
    ASSUME NEW i \in Instructions
    PROVE  IsInstruction(i)
BY RowInstructions DEF Instructions

\* What CJNE compares is the accumulator or an operand.
LEMMA ComparedForm ==
    ASSUME NEW i, IsInstruction(i)
    PROVE  i.mn \in {"CJNE_A_IMM", "CJNE_A_DIRECT", "CJNE_AT_RI_IMM", "CJNE_RN_IMM"} =>
              /\ i.lhs.mode \in {"A", "RN", "AT_RI"}
              /\ i.lhs.mode \in {"RN", "AT_RI"} => i.lhs.arg \in 0..(Regs - 1)
BY OperandArgs DEF IsInstruction, LhsMode

------------------------------------------------------------------------------
\* From bytes to instructions

\* A page number and a byte are an address below that of the last page's end.
LEMMA PageDigits ==
    ASSUME NEW n \in Nat \ {0}, NEW p \in Nat, NEW q \in 0..(p - 1), NEW r \in 0..(n - 1)
    PROVE  n * q + r \in 0..(n * p - 1)
<1>1. n * q <= n * (p - 1) /\ n * q \in Nat
  OBVIOUS
<1>2. n * (p - 1) = n * p - n /\ n * p \in Nat
  OBVIOUS
<1> QED
  BY <1>1, <1>2

\* An operand made of the opcode's number and the bytes after it is one of its mode.
LEMMA OperandIs ==
    ASSUME NEW mode \in DOMAIN Args, NEW n, NEW code \in Bytes \X Bytes, NEW at,
           OperandBytes(mode) = 1 => at \in 1..2,
           OperandBytes(mode) = 2 => at = 1,
           mode \in {"RN", "AT_RI"} => n \in 0..(Regs - 1),
           mode = "ADDR11" => n \in 0..((Page \div Byte) - 1)
    PROVE  IsOperand(Operand(mode, n, code, at))
<1> DEFINE o == Operand(mode, n, code, at)
<1>1. o.mode = mode
  BY DEF Operand
<1>2. code[1] \in Bytes /\ code[2] \in Bytes
  OBVIOUS
<1>3. Byte \in Nat \ {0} /\ Bytes = 0..(Byte - 1) /\ Word = Byte * Byte
  BY Sizes DEF Bytes
<1>4. CASE mode \in {"IMM8", "DIRECT", "BIT", "BIT_NOT", "REL8"}
  <2>1. at \in 1..2
    BY <1>4 DEF OperandBytes
  <2>2. o.arg = code[at]
    BY <1>4 DEF Operand
  <2> QED
    BY <1>1, <1>2, <1>4, <2>1, <2>2 DEF IsOperand, Operands
<1>5. CASE mode = "ADDR11"
  <2>1. at \in 1..2 /\ o.arg = n * Byte + code[at]
    BY <1>5 DEF Operand, OperandBytes
  <2>2. PICK x \in Bytes : o.arg = n * Byte + x
    BY <1>2, <2>1
  <2> DEFINE pages == Page \div Byte
  <2>3. pages \in Nat /\ Page = Byte * pages
    <3>1. Page \in Nat /\ Page % Byte = 0
      BY InstructionsAssumption
    <3>2. pages \in Nat /\ Page = Byte * pages + 0
      BY <1>3, <3>1, Quotient
    <3> HIDE DEF pages
    <3> QED
      BY <1>3, <3>2
  <2>4. n \in 0..(pages - 1)
    BY <1>5
  <2> HIDE DEF pages, o
  <2>5. Byte * n + x \in 0..(Byte * pages - 1)
    BY <1>3, <2>3, <2>4, PageDigits
  <2>6. o.arg = Byte * n + x
    BY <1>3, <2>2, <2>3, <2>4
  <2>7. o.arg \in Operands(mode)
    BY <1>5, <2>3, <2>5, <2>6 DEF Operands
  <2>8. IsOperand(o)
    BY <1>1, <2>7 DEF IsOperand
  <2> QED
    BY <2>8 DEF o
<1>6. CASE mode = "ADDR16"
  <2>1. o.arg = code[1] * Byte + code[2]
    BY <1>6 DEF Operand, OperandBytes
  <2> HIDE DEF o
  <2>2. Byte * code[1] + code[2] \in 0..(Word - 1)
    BY <1>2, <1>3, OfDigits
  <2>3. o.arg = Byte * code[1] + code[2]
    BY <1>2, <1>3, <2>1
  <2>4. o.arg \in Operands(mode)
    BY <1>6, <2>2, <2>3 DEF Operands
  <2>5. IsOperand(o)
    BY <1>1, <2>4 DEF IsOperand
  <2> QED
    BY <2>5 DEF o
<1>7. CASE mode \in {"RN", "AT_RI"}
  BY <1>1, <1>7 DEF IsOperand, Operands, Operand
<1>8. CASE mode \in {"A", "C", "DPTR", "NONE"}
  BY <1>1, <1>8 DEF IsOperand, Operands, Operand
<1> QED
  BY <1>4, <1>5, <1>6, <1>7, <1>8, CoreAssumption

\* Where a row's operands are, and what the number in its opcode is.
LEMMA RowBytes ==
    ASSUME NEW mn, NEW d, NEW s, NEW size, <<mn, d, s, size>> \in Table,
           NEW n \in Numbers(<<mn, d, s, size>>)
    PROVE  /\ d # "BIT_NOT" /\ s \notin {"ADDR11", "ADDR16"}
           /\ OperandBytes(s) = 1 => OperandBytes(d) \in 0..1
           /\ mn \in SrcFetchedFirst => OperandBytes(d) = 1 /\ OperandBytes(s) = 1
           /\ {d, s, LhsMode(mn)} \cap {"RN", "AT_RI"} # {} => n \in 0..(Regs - 1)
           /\ d = "ADDR11" => n \in 0..((Page \div Byte) - 1)
<1>1. /\ d # "BIT_NOT" /\ s \notin {"ADDR11", "ADDR16"}
      /\ d \in {"ADDR11", "ADDR16"} => s = "NONE"
      /\ d = "ADDR11" => mn \in {"AJMP", "ACALL"}
  BY DEF Table, Rows
<1>2. /\ OperandBytes("NONE") = 0
      /\ d # "ADDR16" => OperandBytes(d) \in 0..1
  BY DEF OperandBytes
<1>3. ASSUME mn \in SrcFetchedFirst PROVE OperandBytes(d) = 1 /\ OperandBytes(s) = 1
  <2>1. d \in {"DIRECT", "REL8"} /\ s \in {"DIRECT", "IMM8"}
    BY <1>3, DataRows, BitRows DEF SrcFetchedFirst
  <2> QED
    BY <2>1 DEF OperandBytes
<1>4. /\ {d, s, LhsMode(mn)} \cap {"RN", "AT_RI"} # {} => n \in 0..(Regs - 1)
  BY DEF Numbers
<1>5. ASSUME d = "ADDR11" PROVE n \in 0..((Page \div Byte) - 1)
  <2>1. s = "NONE" /\ LhsMode(mn) = "NONE"
    BY <1>1, <1>5 DEF LhsMode
  <2> QED
    BY <1>5, <2>1 DEF Numbers
<1> QED
  BY <1>1, <1>2, <1>3, <1>4, <1>5

\* What cpu_step decodes is an instruction with the row's modes.
LEMMA DecodedIs ==
    ASSUME NEW row \in Table, NEW n \in Numbers(row), NEW code \in Bytes \X Bytes
    PROVE  LET i == Decoded(row, n, code)
           IN  IsInstruction(i) /\ <<i.mn, i.dst.mode, i.src.mode, row[4]>> \in Table
<1> DEFINE i == Decoded(row, n, code)
           mn == row[1]
           d == row[2]
           s == row[3]
           first == mn \in SrcFetchedFirst
           dstAt == IF first THEN 1 + OperandBytes(s) ELSE 1
           srcAt == IF first THEN 1 ELSE 1 + OperandBytes(d)
<1>1. row = <<mn, d, s, row[4]>>
  BY DEF Table, Rows
<1>2. <<mn, d, s, row[4]>> \in Table /\ n \in Numbers(<<mn, d, s, row[4]>>)
  BY <1>1
<1>3. /\ i.mn = mn /\ i.dst = Operand(d, n, code, dstAt) /\ i.src = Operand(s, n, code, srcAt)
      /\ i.lhs = Operand(LhsMode(mn), n, code, 1)
  BY DEF Decoded
<1>4. i.dst.mode = d /\ i.src.mode = s /\ i.lhs.mode = LhsMode(mn)
  BY <1>3 DEF Operand
<1>5. d \in DOMAIN Args /\ s \in DOMAIN Args
  BY <1>2, RowSize
<1> HIDE DEF i, mn, d, s
<1>6. /\ s \notin {"ADDR11", "ADDR16"}
      /\ OperandBytes(s) = 1 => OperandBytes(d) \in 0..1
      /\ first => OperandBytes(d) = 1 /\ OperandBytes(s) = 1
      /\ {d, s, LhsMode(mn)} \cap {"RN", "AT_RI"} # {} => n \in 0..(Regs - 1)
      /\ d = "ADDR11" => n \in 0..((Page \div Byte) - 1)
  BY <1>2, RowBytes
<1>7. IsOperand(i.dst)
  <2>1. (OperandBytes(d) = 1 => dstAt \in 1..2) /\ (OperandBytes(d) = 2 => dstAt = 1)
    BY <1>6
  <2> HIDE DEF dstAt
  <2> QED
    BY <1>3, <1>5, <1>6, <2>1, OperandIs
<1>8. IsOperand(i.src)
  <2>1. OperandBytes(s) = 1 => srcAt \in 1..2
    BY <1>6
  <2>2. OperandBytes(s) # 2
    BY <1>6 DEF OperandBytes
  <2> HIDE DEF srcAt
  <2> QED
    BY <1>3, <1>5, <1>6, <2>1, <2>2, OperandIs
<1>9. IsOperand(i.lhs)
  <2> DEFINE l == LhsMode(mn)
  <2>1. l \in {"A", "RN", "AT_RI", "NONE"} /\ l \in DOMAIN Args
    BY LhsModes
  <2>2. OperandBytes(l) # 1 /\ OperandBytes(l) # 2 /\ l # "ADDR11"
    BY <2>1 DEF OperandBytes
  <2>3. l \in {"RN", "AT_RI"} => n \in 0..(Regs - 1)
    BY <1>6
  <2>4. i.lhs = Operand(l, n, code, 1)
    BY <1>3
  <2> HIDE DEF l
  <2> QED
    BY <2>1, <2>2, <2>3, <2>4, OperandIs
<1> QED
  BY <1>2, <1>3, <1>4, <1>7, <1>8, <1>9 DEF IsInstruction, i

\* fetch_operand takes the operand that cpu_step takes at the same place, but for
\* complemented bits.
LEMMA FetchAlike ==
    ASSUME NEW mode \in DOMAIN Args, mode # "BIT_NOT", NEW n, NEW code, NEW at
    PROVE  fetch_operand(mode, n, code, at)
              = [op |-> Operand(mode, n, code, at), next |-> at + OperandBytes(mode)]
<1>1. mode \in {"IMM8", "DIRECT", "BIT", "REL8", "ADDR16", "ADDR11", "RN", "AT_RI",
                "A", "C", "DPTR", "NONE"}
  BY CoreAssumption
<1>2. CASE mode \in {"IMM8", "DIRECT", "BIT", "REL8"}
  BY <1>2 DEF fetch_operand, Operand, OperandBytes
<1>3. CASE mode \in {"ADDR16", "ADDR11"}
  BY <1>3 DEF fetch_operand, Operand, OperandBytes
<1>4. CASE mode \in {"RN", "AT_RI", "A", "C", "DPTR", "NONE"}
  BY <1>4 DEF fetch_operand, Operand, OperandBytes
<1> QED
  BY <1>1, <1>2, <1>3, <1>4

\* Fetched in the order of the exec function's parameters, the operands are those of
\* cpu_step, and together they are as long as the row says.
LEMMA FetchesDecoded ==
    ASSUME NEW row \in Table, NEW n, NEW code, row[2] # "BIT_NOT", row[3] # "BIT_NOT"
    PROVE  FetchOperands(row, n, code) = [size |-> row[4], instr |-> Decoded(row, n, code)]
<1> DEFINE mn == row[1]
           d == row[2]
           s == row[3]
           l == LhsMode(mn)
           first == mn \in SrcParameterFirst
           one == fetch_operand(IF first THEN s ELSE d, n, code, 1)
           two == fetch_operand(IF first THEN d ELSE s, n, code, one.next)
<1>1. row = <<mn, d, s, row[4]>>
  BY DEF Table, Rows
<1>2. <<mn, d, s, row[4]>> \in Table
  BY <1>1
<1>3. /\ d \in DOMAIN Args /\ s \in DOMAIN Args
      /\ row[4] = 1 + OperandBytes(d) + OperandBytes(s)
  BY <1>2, RowSize
<1>4. l \in DOMAIN Args /\ l # "BIT_NOT"
  BY LhsModes
<1>5. first <=> mn \in SrcFetchedFirst
  BY DEF SrcParameterFirst, SrcFetchedFirst
<1>6. FetchOperands(row, n, code) =
         [size |-> two.next,
          instr |-> [mn |-> mn, dst |-> IF first THEN two.op ELSE one.op,
                     src |-> IF first THEN one.op ELSE two.op,
                     lhs |-> fetch_operand(l, n, code, 1).op]]
  BY DEF FetchOperands
<1>7. Decoded(row, n, code) =
         [mn |-> mn,
          dst |-> Operand(d, n, code, IF mn \in SrcFetchedFirst THEN 1 + OperandBytes(s) ELSE 1),
          src |-> Operand(s, n, code, IF mn \in SrcFetchedFirst THEN 1 ELSE 1 + OperandBytes(d)),
          lhs |-> Operand(l, n, code, 1)]
  BY DEF Decoded
<1>8. d # "BIT_NOT" /\ s # "BIT_NOT"
  OBVIOUS
<1>9. OperandBytes(d) \in Int /\ OperandBytes(s) \in Int
  BY DEF OperandBytes
<1>10. fetch_operand(l, n, code, 1).op = Operand(l, n, code, 1)
  BY <1>4, FetchAlike
<1> HIDE DEF mn, d, s, l
<1>11. CASE first
  <2>1. one = [op |-> Operand(s, n, code, 1), next |-> 1 + OperandBytes(s)]
    BY <1>3, <1>8, <1>11, FetchAlike
  <2>2. two = [op |-> Operand(d, n, code, one.next), next |-> one.next + OperandBytes(d)]
    BY <1>3, <1>8, <1>11, FetchAlike
  <2> HIDE DEF one, two, first
  <2>3. two.next = row[4]
    BY <1>3, <1>9, <2>1, <2>2
  <2>4. one.op = Operand(s, n, code, 1) /\ two.op = Operand(d, n, code, 1 + OperandBytes(s))
    BY <2>1, <2>2
  <2> QED
    BY <1>5, <1>6, <1>7, <1>10, <1>11, <2>3, <2>4
<1>12. CASE ~first
  <2>1. one = [op |-> Operand(d, n, code, 1), next |-> 1 + OperandBytes(d)]
    BY <1>3, <1>8, <1>12, FetchAlike
  <2>2. two = [op |-> Operand(s, n, code, one.next), next |-> one.next + OperandBytes(s)]
    BY <1>3, <1>8, <1>12, FetchAlike
  <2> HIDE DEF one, two, first
  <2>3. two.next = row[4]
    BY <1>3, <1>9, <2>1, <2>2
  <2>4. one.op = Operand(d, n, code, 1) /\ two.op = Operand(s, n, code, 1 + OperandBytes(d))
    BY <2>1, <2>2
  <2> QED
    BY <1>5, <1>6, <1>7, <1>10, <1>12, <2>3, <2>4
<1> QED
  BY <1>11, <1>12

------------------------------------------------------------------------------
\* What an instruction leaves alone

\* At most A, flags, PC and the bus are others.
Quiet(c, d) ==
    /\ d \in Cpu
    /\ d.sp = c.sp /\ d.b = c.b /\ d.dptr = c.dptr /\ d.iram = c.iram /\ Bank(d) = Bank(c)

KeepsStack(c, d) ==
    /\ d.sp = c.sp
    /\ \A a \in Bytes : a > StackBase => d.iram[a] = c.iram[a]

KeepsContext(c, d) ==
    /\ d.b = c.b /\ d.dptr = c.dptr /\ Bank(d) = Bank(c)
    /\ \A a \in 0..(Regs - 1) : d.iram[a] = c.iram[a]

\* Storable, in any state.
Fits(c, o) ==
    CASE o.mode = "DIRECT" -> o.arg \in Data
      [] o.mode = "AT_RI"  -> AtCell(c, o.arg) \in Data \ (Half..(Byte - 1))
      [] o.mode = "BIT"    -> o.arg = PSW + CyBit \/ ByteOf(o.arg) \in Data
      [] OTHER -> TRUE

\* What firmware's discipline makes of a store to o.
Effect(c, d, o) ==
    /\ d \in Cpu
    /\ Fits(c, o) => /\ KeepsStack(c, d)
                     /\ Own(o) /\ Bank(c) = 1 => KeepsContext(c, d)

\* What firmware may store to is what the CPU of the moment has room for.
LEMMA StorableFits == \A o : Storable(o) = Fits(m, o)
BY DEF Storable, Fits

\* A quiet step leaves room where there was room.
LEMMA QuietFits ==
    ASSUME NEW c, NEW d, Quiet(c, d)
    PROVE  \A o : Fits(c, o) = Fits(d, o)
<1>1. \A n : RegCell(d, n) = RegCell(c, n)
  BY DEF Quiet, RegCell
<1>2. \A n : AtCell(d, n) = AtCell(c, n)
  BY <1>1 DEF Quiet, AtCell
<1> QED
  BY <1>2 DEF Fits

\* A quiet step affects nothing.
LEMMA QuietEffect ==
    ASSUME NEW c, NEW d, Quiet(c, d), NEW o
    PROVE  Effect(c, d, o)
BY DEF Quiet, Effect, KeepsStack, KeepsContext

\* Effects add up.
LEMMA EffectsAdd ==
    ASSUME NEW c, NEW d, NEW e, NEW o
    PROVE  /\ Quiet(c, d) /\ Quiet(d, e) => Quiet(c, e)
           /\ Quiet(c, d) /\ Effect(d, e, o) => Effect(c, e, o)
           /\ Effect(c, d, o) /\ Quiet(d, e) => Effect(c, e, o)
BY QuietFits DEF Quiet, Effect, KeepsStack, KeepsContext

\* The quiet steps.
LEMMA QuietSteps ==
    ASSUME NEW c \in Cpu
    PROVE  /\ Quiet(c, c)
           /\ \A v \in Bytes : Quiet(c, [c EXCEPT !.acc = v])
           /\ \A x \in 0..(Word - 1) : Quiet(c, [c EXCEPT !.pc = x])
           /\ \A x \in 0..(Word - 1) : Quiet(c, [c EXCEPT !.bus = [addr |-> x, val |-> c.acc]])
           /\ \A v \in 0..1 : Quiet(c, SetCarry(c, v))
           /\ \A v \in 0..1 : Quiet(c, [c EXCEPT !.psw = PutBit(c.psw, 0, v)])
<1>1. \A d : d.psw = c.psw => Bank(d) = Bank(c)
  BY DEF Bank
<1>2. Quiet(c, c)
  BY DEF Quiet
<1>3. ASSUME NEW v \in Bytes PROVE Quiet(c, [c EXCEPT !.acc = v])
  <2> DEFINE d == [c EXCEPT !.acc = v]
  <2>1. /\ d \in Cpu /\ d.psw = c.psw
        /\ d.sp = c.sp /\ d.b = c.b /\ d.dptr = c.dptr /\ d.iram = c.iram
    BY <1>3 DEF Cpu
  <2> HIDE DEF d
  <2>2. Quiet(c, d)
    BY <1>1, <2>1 DEF Quiet
  <2> QED
    BY <2>2 DEF d
<1>4. ASSUME NEW x \in 0..(Word - 1) PROVE Quiet(c, [c EXCEPT !.pc = x])
  <2> DEFINE d == [c EXCEPT !.pc = x]
  <2>1. /\ d \in Cpu /\ d.psw = c.psw
        /\ d.sp = c.sp /\ d.b = c.b /\ d.dptr = c.dptr /\ d.iram = c.iram
    BY <1>4 DEF Cpu
  <2> HIDE DEF d
  <2>2. Quiet(c, d)
    BY <1>1, <2>1 DEF Quiet
  <2> QED
    BY <2>2 DEF d
<1>5. ASSUME NEW x \in 0..(Word - 1) PROVE Quiet(c, [c EXCEPT !.bus = [addr |-> x, val |-> c.acc]])
  <2> DEFINE d == [c EXCEPT !.bus = [addr |-> x, val |-> c.acc]]
  <2>1. /\ d \in Cpu /\ d.psw = c.psw
        /\ d.sp = c.sp /\ d.b = c.b /\ d.dptr = c.dptr /\ d.iram = c.iram
    BY <1>5 DEF Cpu
  <2> HIDE DEF d
  <2>2. Quiet(c, d)
    BY <1>1, <2>1 DEF Quiet
  <2> QED
    BY <2>2 DEF d
<1>6. c.psw \in Bytes /\ 0 \in 0..(Bits - 1)
  BY Sizes DEF Cpu
<1>7. ASSUME NEW p \in Bytes, BankField(p) = BankField(c.psw)
      PROVE  Quiet(c, [c EXCEPT !.psw = p])
  <2> DEFINE d == [c EXCEPT !.psw = p]
  <2>1. /\ d \in Cpu /\ d.psw = p
        /\ d.sp = c.sp /\ d.b = c.b /\ d.dptr = c.dptr /\ d.iram = c.iram
    BY <1>7 DEF Cpu
  <2> HIDE DEF d
  <2>2. Quiet(c, d)
    BY <1>7, <2>1 DEF Quiet, Bank, BankField
  <2> QED
    BY <2>2 DEF d
<1>8. ASSUME NEW v \in 0..1 PROVE Quiet(c, SetCarry(c, v))
  <2>1. CyBit \in 0..(Bits - 1)
    BY Sizes
  <2>2. PutBit(c.psw, CyBit, v) \in Bytes
    BY <1>6, <2>1, PutBitBits
  <2>3. BankField(PutBit(c.psw, CyBit, v)) = BankField(c.psw)
    BY <1>6, BankFieldKept
  <2>4. SetCarry(c, v) = [c EXCEPT !.psw = PutBit(c.psw, CyBit, v)]
    BY FlagType
  <2> QED
    BY <1>7, <2>2, <2>3, <2>4
<1>9. ASSUME NEW v \in 0..1 PROVE Quiet(c, [c EXCEPT !.psw = PutBit(c.psw, 0, v)])
  <2>1. PutBit(c.psw, 0, v) \in Bytes
    BY <1>6, PutBitBits
  <2>2. BankField(PutBit(c.psw, 0, v)) = BankField(c.psw)
    BY <1>6, BankFieldKept
  <2> QED
    BY <1>7, <2>1, <2>2
<1> QED
  BY <1>2, <1>3, <1>4, <1>5, <1>8, <1>9

\* Fetching, branching and the end of cpu_step are quiet.
LEMMA QuietEnds ==
    ASSUME NEW c \in Cpu
    PROVE  /\ \A i : Quiet(c, Fetched(c, i))
           /\ \A rel \in Bytes : \A taken : Quiet(c, Branch(c, rel, taken))
           /\ \A x \in 0..(Word - 1) : Quiet(c, Jump(c, x))
           /\ \A old : Quiet(c, Retire(old, c))
<1>1. Word \in Nat \ {0} /\ c.pc \in Nat
  BY Sizes DEF Cpu
<1>2. \A x \in Nat : x % Word \in 0..(Word - 1)
  BY <1>1, RestOf
<1>3. ASSUME NEW i PROVE Quiet(c, Fetched(c, i))
  <2> DEFINE n == c.pc + 1 + OperandBytes(i.dst.mode) + OperandBytes(i.src.mode)
  <2>1. \A mode : OperandBytes(mode) \in Nat
    BY DEF OperandBytes
  <2>2. n \in Nat
    BY <1>1, <2>1
  <2>3. Fetched(c, i) = [c EXCEPT !.pc = n % Word]
    BY DEF Fetched
  <2> HIDE DEF n
  <2> QED
    BY <1>2, <2>2, <2>3, QuietSteps
<1>4. ASSUME NEW rel \in Bytes, NEW taken PROVE Quiet(c, Branch(c, rel, taken))
  <2> DEFINE n == c.pc + Signed(rel)
  <2>1. n \in Int
    BY <1>1, Sizes DEF Signed, Bytes
  <2>2. n % Word \in 0..(Word - 1)
    BY <1>1, <2>1, Wrap
  <2>3. Branch(c, rel, taken) = IF taken THEN [c EXCEPT !.pc = n % Word] ELSE c
    BY DEF Branch
  <2> HIDE DEF n
  <2> QED
    BY <2>2, <2>3, QuietSteps
<1>5. ASSUME NEW x \in 0..(Word - 1) PROVE Quiet(c, Jump(c, x))
  BY <1>5, QuietSteps DEF Jump
<1>6. ASSUME NEW old PROVE Quiet(c, Retire(old, c))
  <2>1. c.acc \in Bytes
    BY DEF Cpu
  <2>2. Parity(c.acc) \in 0..1
    BY <2>1, ParityIsBit
  <2> QED
    BY <2>2, QuietSteps DEF Retire
<1> QED
  BY <1>3, <1>4, <1>5, <1>6

------------------------------------------------------------------------------
\* What a store leaves alone

\* Values are bytes.
LEMMA ValueType ==
    ASSUME NEW c \in Cpu, NEW o, o.mode \in ValueModes,
           o.mode \in {"IMM8", "DIRECT"} => o.arg \in Bytes,
           o.mode \in {"RN", "AT_RI"} => o.arg \in 0..(Regs - 1)
    PROVE  Value(c, o) \in Bytes
<1>1. CASE o.mode = "A"
  BY <1>1 DEF Value, Cpu
<1>2. CASE o.mode = "IMM8"
  BY <1>2 DEF Value
<1>3. CASE o.mode = "DIRECT"
  <2>1. ReadDirect(c, o.arg) \in Bytes
    BY <1>3, Sizes, DirectType
  <2> QED
    BY <1>3, <2>1 DEF Value
<1>4. CASE o.mode = "RN"
  <2>1. RegCell(c, o.arg) \in Bytes
    BY <1>4, RegCellType
  <2> QED
    BY <1>4, <2>1 DEF Value, Cpu
<1>5. CASE o.mode = "AT_RI"
  <2>1. AtCell(c, o.arg) \in Bytes
    BY <1>5, RegCellType
  <2> QED
    BY <1>5, <2>1 DEF Value, Cpu
<1> QED
  BY <1>1, <1>2, <1>3, <1>4, <1>5 DEF ValueModes

\* Data is not above the start of the stack, nor SP or PSW.
LEMMA DataPlaces ==
    ASSUME NEW a \in Data
    PROVE  /\ a \in Bytes /\ a # SP /\ a # PSW
           /\ a < Half => a <= StackBase
<1>1. a \in Bytes /\ a \notin {SP, PSW}
  BY CoreAssumption
<1>2. a < Regs \/ a \in Half..(Byte - 1) \/ a \in Regs * Banks..StackBase
  BY CoreAssumption
<1>3. a \in Nat /\ Half \in Nat /\ Byte \in Nat /\ StackBase \in Nat
  <2>1. Regs * Banks \in Nat
    BY InstructionsAssumption
  <2>2. StackBase \in Regs * Banks..(Byte - 1)
    BY CoreAssumption
  <2> QED
    BY <1>1, <2>1, <2>2, Sizes DEF Bytes
<1>4. Regs \in Nat /\ Regs <= StackBase
  <2>1. Regs \in Nat /\ Banks \in Nat \ {0}
    BY InstructionsAssumption
  <2>2. Regs <= Regs * Banks /\ Regs * Banks \in Nat
    <3>1. Banks - 1 \in Nat /\ Banks = 1 + (Banks - 1)
      BY <2>1
    <3>2. PICK d \in Nat : Banks = 1 + d
      BY <3>1
    <3>3. Regs * Banks = Regs * 1 + Regs * d /\ Regs * d \in Nat
      BY <2>1, <3>2, Distribute
    <3> QED
      BY <2>1, <3>3
  <2>3. StackBase \in Regs * Banks..(Byte - 1)
    BY CoreAssumption
  <2> QED
    BY <1>3, <2>1, <2>2, <2>3
<1> QED
  BY <1>1, <1>2, <1>3, <1>4

\* A cell of internal RAM below the stack, not of bank 0 if that matters.
LEMMA CellEffect ==
    ASSUME NEW c \in Cpu, NEW a \in Bytes, NEW v \in Bytes, NEW o,
           Fits(c, o) => a <= StackBase /\ (Own(o) /\ Bank(c) = 1 => a >= Regs)
    PROVE  Effect(c, [c EXCEPT !.iram[a] = v], o)
<1> DEFINE f == [c.iram EXCEPT ![a] = v]
           d == [c EXCEPT !.iram = f]
<1>1. f \in [Bytes -> Bytes] /\ \A x \in Bytes : x # a => f[x] = c.iram[x]
  BY DEF Cpu
<1> HIDE DEF f
<1>2. /\ d \in Cpu /\ d.psw = c.psw /\ d.iram = f
      /\ d.sp = c.sp /\ d.b = c.b /\ d.dptr = c.dptr
  BY <1>1 DEF Cpu
<1> HIDE DEF d
<1>3. Bank(d) = Bank(c)
  BY <1>2 DEF Bank
<1>4. a \in Int /\ StackBase \in Int /\ Regs \in Int /\ \A x \in Bytes : x \in Int
  BY CoreAssumption, InstructionsAssumption DEF Bytes
<1>5. Fits(c, o) => KeepsStack(c, d)
  BY <1>1, <1>2, <1>4 DEF KeepsStack
<1>6. ASSUME Fits(c, o), Own(o), Bank(c) = 1 PROVE KeepsContext(c, d)
  <2>1. \A x \in 0..(Regs - 1) : x \in Bytes /\ x # a
    <3>1. Regs <= Half /\ Half \in Int /\ Byte = 2 * Half /\ Half >= 2
      <4>1. /\ RegCell(c, Regs - 1) < Half /\ RegCell(c, Regs - 1) = Bank(c) * Regs + (Regs - 1)
            /\ Bank(c) \in Nat
        <5>1. Regs - 1 \in 0..(Regs - 1) /\ Banks \in Nat
          BY InstructionsAssumption
        <5> QED
          BY <5>1, RegCellType DEF RegCell
      <4> QED
        BY <1>4, <1>6, <4>1, Sizes
    <3> QED
      BY <1>4, <1>6, <3>1 DEF Bytes
  <2>2. \A x \in 0..(Regs - 1) : d.iram[x] = c.iram[x]
    BY <1>1, <1>2, <2>1
  <2> QED
    BY <1>2, <1>3, <2>2 DEF KeepsContext
<1>7. Effect(c, d, o)
  BY <1>2, <1>5, <1>6 DEF Effect
<1> QED
  BY <1>7 DEF d, f

\* An SFR of data.
LEMMA SfrEffect ==
    ASSUME NEW c \in Cpu, NEW a \in Bytes, ~(a < Half), NEW v \in Bytes, NEW o,
           Fits(c, o) => a \in Data /\ (Own(o) /\ Bank(c) = 1 => a = ACC)
    PROVE  Effect(c, WriteDirect(c, a, v), o)
<1> DEFINE d == WriteDirect(c, a, v)
<1>1. a \in Data => a # SP /\ a # PSW
  BY DataPlaces
<1>2. d \in Cpu
  BY DirectType
<1>3. ASSUME a \in Data PROVE d.sp = c.sp /\ d.iram = c.iram /\ d.psw = c.psw
  <2>1. CASE a = ACC
    BY <1>1, <2>1, WriteDirectCases DEF Cpu
  <2>2. CASE a = B
    BY <1>1, <2>2, WriteDirectCases DEF Cpu
  <2>3. CASE a = DPL
    BY <1>1, <2>3, AddressBytes, Addresses DEF WriteDirect, Cpu
  <2>4. CASE a = DPH
    BY <1>1, <2>4, AddressBytes, Addresses DEF WriteDirect, Cpu
  <2>5. CASE a \notin {SP, DPL, DPH, PSW, ACC, B}
    BY <1>1, <2>5 DEF WriteDirect, Cpu
  <2> QED
    BY <1>1, <1>3, <2>1, <2>2, <2>3, <2>4, <2>5
<1>4. a = ACC => d.b = c.b /\ d.dptr = c.dptr
  BY WriteDirectCases DEF Cpu
<1> HIDE DEF d
<1>5. a \in Data => Bank(d) = Bank(c)
  BY <1>3 DEF Bank
<1> QED
  BY <1>2, <1>3, <1>4, <1>5 DEF Effect, KeepsStack, KeepsContext, d

\* A store that fits.
LEMMA StoreEffect ==
    ASSUME NEW c \in Cpu, NEW o, o.mode \in PlaceModes, NEW v \in Bytes,
           o.mode = "DIRECT" => o.arg \in Bytes,
           o.mode \in {"RN", "AT_RI"} => o.arg \in 0..(Regs - 1)
    PROVE  Effect(c, Store(c, o, v), o)
<1>1. CASE o.mode = "A"
  <2>1. Store(c, o, v) = [c EXCEPT !.acc = v]
    BY <1>1 DEF Store
  <2> QED
    BY <2>1, QuietSteps, QuietEffect
<1>2. CASE o.mode = "DIRECT"
  <2>1. (Fits(c, o) => o.arg \in Data) /\ Store(c, o, v) = WriteDirect(c, o.arg, v)
    BY <1>2 DEF Fits, Store
  <2>2. CASE o.arg < Half
    <3>1. WriteDirect(c, o.arg, v) = [c EXCEPT !.iram[o.arg] = v]
      BY <1>2, <2>2, AddressBytes DEF WriteDirect
    <3>2. Fits(c, o) => o.arg <= StackBase
      BY <2>1, <2>2, DataPlaces
    <3>3. ~Own(o)
      <4>1. o.arg # ACC
        BY <1>2, <2>2, AddressBytes
      <4> QED
        BY <1>2, <4>1 DEF Own
    <3> QED
      BY <1>2, <2>1, <3>1, <3>2, <3>3, CellEffect
  <2>3. CASE ~(o.arg < Half)
    <3>1. Own(o) => o.arg = ACC
      BY <1>2 DEF Own
    <3> QED
      BY <1>2, <2>1, <2>3, <3>1, SfrEffect
  <2> QED
    BY <2>2, <2>3
<1>3. CASE o.mode = "RN"
  <2>1. Store(c, o, v) = [c EXCEPT !.iram[RegCell(c, o.arg)] = v]
    BY <1>3 DEF Store
  <2>2. /\ RegCell(c, o.arg) \in Bytes /\ RegCell(c, o.arg) <= StackBase
        /\ Bank(c) = 1 => RegCell(c, o.arg) >= Regs
    BY <1>3, RegCellType
  <2> QED
    BY <2>1, <2>2, CellEffect
<1>4. CASE o.mode = "AT_RI"
  <2>1. Store(c, o, v) = [c EXCEPT !.iram[AtCell(c, o.arg)] = v]
    BY <1>4 DEF Store
  <2>2. Fits(c, o) => AtCell(c, o.arg) \in Data /\ AtCell(c, o.arg) \notin Half..(Byte - 1)
    BY <1>4 DEF Fits
  <2>3. AtCell(c, o.arg) \in Bytes /\ (Fits(c, o) => AtCell(c, o.arg) <= StackBase)
    <3>1. AtCell(c, o.arg) \in Bytes
      BY <1>4, RegCellType
    <3> QED
      BY <2>2, <3>1, DataPlaces, AddressBytes
  <2>4. ~Own(o)
    BY <1>4 DEF Own
  <2> QED
    BY <2>1, <2>3, <2>4, CellEffect
<1> QED
  BY <1>1, <1>2, <1>3, <1>4 DEF PlaceModes

\* A bit that fits.
LEMMA WriteBitEffect ==
    ASSUME NEW c \in Cpu, NEW o, o.mode = "BIT", o.arg \in Bytes, NEW v \in 0..1
    PROVE  Effect(c, WriteBit(c, o.arg, v), o)
<1> DEFINE a == ByteOf(o.arg)
           x == PutBit(ReadDirect(c, a), o.arg % Bits, v)
<1>1. a \in Bytes /\ o.arg % Bits \in 0..(Bits - 1)
  BY ByteOfType
<1>2. x \in Bytes
  <2>1. ReadDirect(c, a) \in Bytes
    BY <1>1, Sizes, DirectType
  <2> QED
    BY <1>1, <2>1, PutBitBits
<1>3. ~Own(o)
  BY DEF Own
<1>4. WriteBit(c, o.arg, v) = WriteDirect(c, a, x)
  BY DEF WriteBit
<1>5. o.arg = PSW + CyBit => a = PSW
  <2> SUFFICES ASSUME o.arg = PSW + CyBit PROVE ByteOf(PSW + CyBit) = PSW
    OBVIOUS
  <2>1. PSW \in Nat /\ ~(PSW < Half) /\ Half \in Nat
    BY Addresses, Sizes
  <2>2. PSW % Bits = 0 /\ Bits \in Nat \ {0} /\ CyBit \in 0..(Bits - 1)
    BY Sizes, InstructionsAssumption
  <2>3. PSW = Bits * (PSW \div Bits) + 0 /\ PSW \div Bits \in Nat
    BY <2>1, <2>2, Quotient
  <2>4. (PSW + CyBit) % Bits = CyBit
    <3>1. PSW + CyBit \in Nat /\ PSW + CyBit = Bits * (PSW \div Bits) + CyBit
      BY <2>1, <2>2, <2>3
    <3> QED
      BY <2>2, <2>3, <3>1, QuotientIs
  <2>5. ~(PSW + CyBit < Half) /\ (PSW + CyBit) - CyBit = PSW
    BY <2>1, <2>2
  <2> QED
    BY <2>4, <2>5 DEF ByteOf
<1> HIDE DEF a, x
<1>6. CASE a = PSW
  <2> DEFINE d == [c EXCEPT !.psw = x]
  <2>1. d \in Cpu /\ d.sp = c.sp /\ d.iram = c.iram
    BY <1>2 DEF Cpu
  <2>2. WriteDirect(c, a, x) = d
    BY <1>1, <1>6, AddressBytes, Addresses DEF WriteDirect
  <2> HIDE DEF d
  <2> QED
    BY <1>3, <1>4, <2>1, <2>2 DEF Effect, KeepsStack
<1>8. Fits(c, o) => o.arg = PSW + CyBit \/ a \in Data
  BY DEF Fits, a
<1>7. CASE a # PSW
  <2>3. Fits(c, o) => a \in Data
    BY <1>5, <1>7, <1>8
  <2>1. CASE a < Half
    <3>1. WriteDirect(c, a, x) = [c EXCEPT !.iram[a] = x]
      BY <1>1, <2>1, AddressBytes DEF WriteDirect
    <3>2. Fits(c, o) => a <= StackBase
      BY <2>3, <2>1, DataPlaces
    <3> QED
      BY <1>1, <1>2, <1>3, <1>4, <3>1, <3>2, CellEffect
  <2>2. CASE ~(a < Half)
    BY <1>1, <1>2, <1>3, <1>4, <2>3, <2>2, SfrEffect
  <2> QED
    BY <2>1, <2>2
<1> QED
  BY <1>6, <1>7

------------------------------------------------------------------------------
\* Execute by mnemonic

\* What cpu_step does for the moves: by operand, for the carry is not a byte.
LEMMA ExecuteMov ==
    ASSUME NEW c, NEW i
    PROVE  /\ i.mn = "MOV" /\ i.dst.mode = "C" /\ i.src.mode # "C" =>
                 Execute(c, i) = MovToCarry(c, i.src)
           /\ i.mn = "MOV" /\ i.dst.mode # "C" /\ i.src.mode = "C" =>
                 Execute(c, i) = MovFromCarry(c, i.dst)
           /\ i.mn = "MOV" /\ i.dst.mode # "C" /\ i.src.mode # "C" => Execute(c, i) = Mov(c, i)
<1>1. ASSUME i.mn = "MOV", i.dst.mode = "C", i.src.mode # "C"
      PROVE  Execute(c, i) = MovToCarry(c, i.src)
  BY <1>1 DEF Execute
<1>2. ASSUME i.mn = "MOV", i.dst.mode # "C", i.src.mode = "C"
      PROVE  Execute(c, i) = MovFromCarry(c, i.dst)
  BY <1>2 DEF Execute
<1>3. ASSUME i.mn = "MOV", i.dst.mode # "C", i.src.mode # "C" PROVE Execute(c, i) = Mov(c, i)
  BY <1>3 DEF Execute
<1> QED
  BY <1>1, <1>2, <1>3

\* What cpu_step does for the arithmetic on operands.
LEMMA ExecuteData ==
    ASSUME NEW c, NEW i
    PROVE  /\ i.mn = "MOV_DIRECT_DIRECT" => Execute(c, i) = Mov(c, i)
           /\ i.mn = "MOV_DPTR_IMM" => Execute(c, i) = MovDptr(c, i)
           /\ i.mn = "INC" => Execute(c, i) = Inc(c, i)
           /\ i.mn = "DEC" => Execute(c, i) = Dec(c, i)
           /\ i.mn = "XRL" => Execute(c, i) = Xrl(c, i)
           /\ i.mn = "XCH" => Execute(c, i) = Xch(c, i)
           /\ i.mn = "XCHD" => Execute(c, i) = Xchd(c, i)
           /\ i.mn = "SWAP" => Execute(c, i) = Swap(c)
           /\ i.mn = "RL" => Execute(c, i) = RotateAround(c)
           /\ i.mn = "RR" => Execute(c, i) = RotateBack(c)
BY DEF Execute

\* What cpu_step does for ORL and ANL: on the carry or on bytes.
LEMMA ExecuteLogic ==
    ASSUME NEW c, NEW i
    PROVE  /\ i.mn = "ORL" => Execute(c, i) = IF FromBit(i) THEN OrlCarry(c, i.src) ELSE Orl(c, i)
           /\ i.mn = "ANL" => Execute(c, i) = IF FromBit(i) THEN AnlCarry(c, i.src) ELSE Anl(c, i)
BY DEF Execute

\* What cpu_step does for bits, and for code and external memory.
LEMMA ExecuteBits ==
    ASSUME NEW c, NEW i
    PROVE  /\ i.mn = "CLR" => Execute(c, i) = IF OnA(i) THEN ClrA(c) ELSE ClearBit(c, i.dst)
           /\ i.mn = "CPL" => Execute(c, i) = IF OnA(i) THEN CplA(c) ELSE CplBit(c, i.dst)
           /\ i.mn = "SETB" => Execute(c, i) = SetBit(c, i.dst)
           /\ i.mn = "MOVC_A_DPTR" => Execute(c, i) = MovcADptr(c)
           /\ i.mn = "MOVC_A_PC" => Execute(c, i) = MovcAPc(c)
           /\ i.mn = "MOVX_A_DPTR" => Execute(c, i) = MovxRead(c, c.dptr)
           /\ i.mn = "MOVX_A_AT_RI" => Execute(c, i) = MovxRead(c, AtCell(c, i.dst.arg))
           /\ i.mn = "MOVX_DPTR_A" => Execute(c, i) = MovxWrite(c, c.dptr)
           /\ i.mn = "MOVX_AT_RI_A" => Execute(c, i) = MovxWrite(c, AtCell(c, i.dst.arg))
BY DEF Execute

\* What cpu_step does for branches, jumps, calls, returns and the stack.
LEMMA ExecuteBranches ==
    ASSUME NEW c, NEW i
    PROVE  /\ i.mn \in {"JC", "JNC", "JZ", "JNZ"} => Execute(c, i) = BranchOnFlag(c, i)
           /\ i.mn \in {"JB", "JNB", "JBC"} => Execute(c, i) = BranchOnBit(c, i)
           /\ i.mn \in {"CJNE_A_IMM", "CJNE_A_DIRECT", "CJNE_AT_RI_IMM", "CJNE_RN_IMM"} =>
                 Execute(c, i) = Cjne(c, i)
           /\ i.mn = "DJNZ" => Execute(c, i) = Djnz(c, i)
           /\ i.mn = "SJMP" => Execute(c, i) = Branch(c, Rel(i), TRUE)
           /\ i.mn = "AJMP" => Execute(c, i) = Jump(c, InPage(c, i.dst.arg))
           /\ i.mn = "LJMP" => Execute(c, i) = Jump(c, i.dst.arg)
           /\ i.mn = "JMPA_DPTR" => Execute(c, i) = JumpADptr(c)
           /\ i.mn = "ACALL" => Execute(c, i) = Call(c, InPage(c, i.dst.arg))
           /\ i.mn = "LCALL" => Execute(c, i) = Call(c, i.dst.arg)
           /\ i.mn \in {"RET", "RETI"} => Execute(c, i) = Return(c)
           /\ i.mn = "PUSH" => Execute(c, i) = Push(c, i.dst.arg)
           /\ i.mn = "POP" => Execute(c, i) = Pop(c, i.dst.arg)
           /\ i.mn = "NOP" => Execute(c, i) = c
BY DEF Execute

------------------------------------------------------------------------------
\* Results keep to bytes

\* Counting, complementing, exchanging and rotating keep to bytes.
LEMMA ByteResults ==
    ASSUME NEW v \in Bytes, NEW w \in Bytes
    PROVE  /\ (v + 1) % Byte \in Bytes /\ (v - 1) % Byte \in Bytes /\ Byte - 1 - v \in Bytes
           /\ (v % Nibble) * Nibble + (v \div Nibble) \in Bytes
           /\ v - (v % Nibble) + (w % Nibble) \in Bytes
           /\ v - (v % Nibble) = (v \div Nibble) * Nibble
           /\ ((2 * v) % Byte) + (v \div Half) \in Bytes
           /\ ((2 * v) % Byte) + (v \div Half) = (v * 2 + (v \div Half)) % Byte
           /\ (v \div 2) + (v % 2) * Half \in Bytes
           /\ (v \div 2) + (v % 2) * Half = ((v \div 2) + v * Half) % Byte
<1>1. /\ v \in Nat /\ v < Byte /\ w \in Nat /\ w < Byte
      /\ Byte \in Nat \ {0} /\ Half \in Nat \ {0} /\ Byte = 2 * Half
      /\ Nibble \in Nat \ {0} /\ Byte = Nibble * Nibble
  BY Sizes DEF Bytes
<1>2. (v + 1) % Byte \in Bytes /\ (v - 1) % Byte \in Bytes /\ Byte - 1 - v \in Bytes
  <2>1. v + 1 \in Int /\ v - 1 \in Int
    BY <1>1
  <2> QED
    BY <1>1, <2>1, Wrap DEF Bytes
<1>3. /\ (v % Nibble) * Nibble + (v \div Nibble) \in Bytes
      /\ v - (v % Nibble) + (w % Nibble) \in Bytes
      /\ v - (v % Nibble) = (v \div Nibble) * Nibble
  <2> DEFINE q == v \div Nibble
             r == v % Nibble
             s == w % Nibble
  <2>1. /\ v \in 0..(Nibble * Nibble - 1) /\ w \in 0..(Nibble * Nibble - 1)
    BY <1>1
  <2>2. /\ q \in 0..(Nibble - 1) /\ r \in 0..(Nibble - 1) /\ v = Nibble * q + r
        /\ s \in 0..(Nibble - 1)
    BY <1>1, <2>1, Digits
  <2> HIDE DEF q, r, s
  <2>3. Nibble * r + q \in Bytes /\ Nibble * q + s \in Bytes
    BY <1>1, <2>2, OfDigits DEF Bytes
  <2>4. Nibble * r = r * Nibble /\ Nibble * q = q * Nibble /\ Nibble * q \in Int
    BY <1>1, <2>2
  <2>5. v - r = q * Nibble
    BY <2>2, <2>4
  <2> QED
    BY <2>2, <2>3, <2>4, <2>5 DEF q, r, s
<1>4. /\ ((2 * v) % Byte) + (v \div Half) \in Bytes
      /\ ((2 * v) % Byte) + (v \div Half) = (v * 2 + (v \div Half)) % Byte
  <2>1. CASE v < Half
    <3>1. v \div Half = 0 /\ (2 * v) % Byte = 2 * v
      BY <1>1, <2>1
    <3>2. 2 * v \in Bytes /\ 2 * v = v * 2 /\ (2 * v) + 0 = 2 * v
      BY <1>1, <2>1 DEF Bytes
    <3>3. ((2 * v) % Byte) + (v \div Half) = 2 * v
      BY <3>1, <3>2
    <3>4. (v * 2 + (v \div Half)) % Byte = 2 * v
      BY <3>1, <3>2
    <3> QED
      BY <3>2, <3>3, <3>4
  <2>2. CASE ~(v < Half)
    <3>1. PICK r \in 0..(Half - 1) : v = Half + r
      <4>1. v - Half \in 0..(Half - 1) /\ v = Half + (v - Half)
        BY <1>1, <2>2
      <4> QED
        BY <4>1
    <3>2. v \div Half = 1
      BY <1>1, <3>1
    <3>3. (2 * v) % Byte = 2 * r
      <4>1. 2 * v = Byte + 2 * r /\ 2 * r \in 0..(Byte - 1)
        BY <1>1, <3>1
      <4> DEFINE x == 2 * v
                 y == 2 * r
      <4>2. x \in Byte..(2 * Byte - 1) /\ x = Byte + y /\ x \in Int /\ y \in Int
        BY <1>1, <3>1, <4>1
      <4> HIDE DEF x, y
      <4>3. x % Byte = x - Byte
        BY <1>1, <4>2, Wrap
      <4> QED
        BY <1>1, <4>2, <4>3 DEF x, y
    <3>4. (v * 2 + 1) % Byte = 2 * r + 1
      <4> DEFINE x == v * 2 + 1
                 y == 2 * r + 1
      <4>2. x \in Byte..(2 * Byte - 1) /\ x = Byte + y /\ x \in Int /\ y \in Int
        BY <1>1, <3>1
      <4> HIDE DEF x, y
      <4>3. x % Byte = x - Byte
        BY <1>1, <4>2, Wrap
      <4> QED
        BY <1>1, <4>2, <4>3 DEF x, y
    <3> QED
      BY <1>1, <3>1, <3>2, <3>3, <3>4 DEF Bytes
  <2> QED
    BY <2>1, <2>2
<1>5. /\ (v \div 2) + (v % 2) * Half \in Bytes
      /\ (v \div 2) + (v % 2) * Half = ((v \div 2) + v * Half) % Byte
  <2> DEFINE q == v \div 2
             r == v % 2
  <2>1. q \in Nat /\ r \in 0..1 /\ v = 2 * q + r /\ q < Half
    BY <1>1
  <2> HIDE DEF q, r
  <2>2. r * Half \in {0, Half}
    BY <1>1, <2>1
  <2> DEFINE x == q + r * Half
  <2>3. x \in 0..(Byte - 1)
    BY <1>1, <2>1, <2>2
  <2>4. q + v * Half = Byte * q + x
    <3>1. Half * v = Half * (2 * q) + Half * r
      <4>1. 2 * q \in Int
        BY <2>1
      <4> QED
        BY <1>1, <2>1, <4>1, Distribute
    <3>2. Half * (2 * q) = Byte * q
      BY <1>1, <2>1
    <3>3. v * Half = Half * v /\ r * Half = Half * r
      BY <1>1, <2>1
    <3>4. Byte * q \in Int /\ Half * r \in Int
      BY <1>1, <2>1
    <3> QED
      BY <2>1, <3>1, <3>2, <3>3, <3>4
  <2> HIDE DEF x
  <2>5. (Byte * q + x) % Byte = x % Byte /\ x % Byte = x
    <3>1. x \in Nat
      BY <1>1, <2>3
    <3>2. (Byte * q + x) % Byte = x % Byte
      BY <1>1, <2>1, <3>1, DropMultiple
    <3> QED
      BY <1>1, <2>3, <3>1, <3>2, Wrap
  <2>6. x \in Bytes
    BY <2>3 DEF Bytes
  <2> QED
    BY <2>4, <2>5, <2>6 DEF x, q, r
<1> QED
  BY <1>2, <1>3, <1>4, <1>5

------------------------------------------------------------------------------
\* What the instructions leave alone

MoveNames == {"MOV", "MOV_DIRECT_DIRECT", "MOV_DPTR_IMM", "XCH", "XCHD", "SWAP", "RL", "RR",
              "MOVC_A_DPTR", "MOVC_A_PC", "MOVX_A_DPTR", "MOVX_A_AT_RI", "MOVX_DPTR_A",
              "MOVX_AT_RI_A"}
LogicNames == {"ANL", "ORL", "XRL", "CLR", "CPL", "SETB"}
JumpNames == {"NOP", "SJMP", "AJMP", "LJMP", "JMPA_DPTR", "JC", "JNC", "JZ", "JNZ", "JB", "JNB"}
CompareNames == {"CJNE_A_IMM", "CJNE_A_DIRECT", "CJNE_AT_RI_IMM", "CJNE_RN_IMM"}

\* What is stored at the destination of an instruction fits.
LEMMA OperandStore ==
    ASSUME NEW c \in Cpu, NEW o, IsOperand(o), o.mode \in PlaceModes, NEW v \in Bytes
    PROVE  Effect(c, Store(c, o, v), o)
BY OperandArgs, StoreEffect

\* The value of an operand is a byte.
LEMMA OperandValue ==
    ASSUME NEW c \in Cpu, NEW o, IsOperand(o), o.mode \in ValueModes
    PROVE  Value(c, o) \in Bytes
BY OperandArgs, ValueType

\* DPTR is nothing an interrupt routine keeps to itself.
LEMMA DptrEffect ==
    ASSUME NEW c \in Cpu, NEW o, ~Own(o), NEW w \in 0..(Word - 1)
    PROVE  Effect(c, [c EXCEPT !.dptr = w], o)
<1> DEFINE d == [c EXCEPT !.dptr = w]
<1>1. d \in Cpu /\ d.sp = c.sp /\ d.iram = c.iram
  BY DEF Cpu
<1> HIDE DEF d
<1>2. Effect(c, d, o)
  BY <1>1 DEF Effect, KeepsStack
<1> QED
  BY <1>2 DEF d

\* Writing a bit affects no more than its operand.
LEMMA BitStore ==
    ASSUME NEW c \in Cpu, NEW o, IsOperand(o), o.mode = "BIT", NEW v \in 0..1
    PROVE  Effect(c, WriteBit(c, o.arg, v), o)
<1>1. o.arg \in Bytes
  BY OperandArgs
<1> QED
  BY <1>1, WriteBitEffect

\* Setting the carry affects nothing an interrupt must find again.
LEMMA CarryStore ==
    ASSUME NEW c \in Cpu, NEW o, NEW v \in 0..1
    PROVE  Effect(c, SetCarry(c, v), o)
BY QuietSteps, QuietEffect

\* So does loading A.
LEMMA AccStore ==
    ASSUME NEW c \in Cpu, NEW o, NEW v \in Bytes
    PROVE  Effect(c, [c EXCEPT !.acc = v], o)
BY QuietSteps, QuietEffect

\* The moves affect no more than their operand.
LEMMA MovEffect ==
    ASSUME NEW c \in Cpu, NEW i, IsInstruction(i),
           i.mn \in {"MOV", "MOV_DIRECT_DIRECT", "MOV_DPTR_IMM"}
    PROVE  Effect(c, Execute(c, i), i.dst)
<1>1. PICK size : <<i.mn, i.dst.mode, i.src.mode, size>> \in Table
  BY DEF IsInstruction
<1>2. IsOperand(i.dst) /\ IsOperand(i.src)
  BY DEF IsInstruction
<1>3. CASE i.mn = "MOV" /\ i.dst.mode = "C" /\ i.src.mode = "BIT"
  <2>1. i.src.arg \in Bytes
    BY <1>2, <1>3, OperandArgs
  <2>2. ReadBit(c, i.src.arg) \in 0..1
    <3>1. 0 \in 0..1
      OBVIOUS
    <3> QED
      BY <2>1, <3>1, BitType
  <2>3. Execute(c, i) = SetCarry(c, ReadBit(c, i.src.arg))
    BY <1>3, ExecuteMov DEF MovToCarry
  <2> QED
    BY <2>2, <2>3, CarryStore
<1>4. CASE i.mn = "MOV" /\ i.dst.mode = "BIT" /\ i.src.mode = "C"
  <2>1. Carry(c) \in 0..1
    <3>1. 0 \in 0..1
      OBVIOUS
    <3> QED
      BY <3>1, FlagType
  <2>2. Execute(c, i) = WriteBit(c, i.dst.arg, Carry(c))
    BY <1>4, ExecuteMov DEF MovFromCarry
  <2> QED
    BY <1>2, <1>4, <2>1, <2>2, BitStore
<1>5. ASSUME i.dst.mode \in PlaceModes, i.src.mode \in ValueModes, Execute(c, i) = Mov(c, i)
      PROVE  Effect(c, Execute(c, i), i.dst)
  <2>1. Value(c, i.src) \in Bytes
    BY <1>2, <1>5, OperandValue
  <2> QED
    BY <1>2, <1>5, <2>1, OperandStore DEF Mov
<1>6. CASE i.mn = "MOV" /\ i.dst.mode \in PlaceModes /\ i.src.mode \in ValueModes
  <2>1. i.dst.mode # "C" /\ i.src.mode # "C"
    BY <1>6 DEF PlaceModes, ValueModes
  <2> QED
    BY <1>5, <1>6, <2>1, ExecuteMov
<1>7. CASE i.mn = "MOV_DIRECT_DIRECT"
  <2>1. i.dst.mode \in PlaceModes /\ i.src.mode \in ValueModes
    BY <1>1, <1>7, DataRows DEF PlaceModes, ValueModes
  <2> QED
    BY <1>5, <1>7, <2>1, ExecuteData
<1>8. CASE i.mn = "MOV_DPTR_IMM"
  <2>1. i.dst.mode = "ADDR16"
    BY <1>1, <1>8, DataRows
  <2>2. i.dst.arg \in 0..(Word - 1)
    BY <1>2, <2>1, OperandArgs
  <2>3. Execute(c, i) = [c EXCEPT !.dptr = i.dst.arg]
    BY <1>8, ExecuteData DEF MovDptr
  <2>4. ~Own(i.dst)
    BY <2>1 DEF Own
  <2> QED
    BY <2>2, <2>3, <2>4, DptrEffect
<1>9. i.mn = "MOV" => \/ i.dst.mode = "C" /\ i.src.mode = "BIT"
                      \/ i.dst.mode = "BIT" /\ i.src.mode = "C"
                      \/ i.dst.mode \in PlaceModes /\ i.src.mode \in ValueModes
  BY <1>1, DataRows
<1> QED
  BY <1>3, <1>4, <1>6, <1>7, <1>8, <1>9

\* So do the exchanges.
LEMMA ExchangeEffect ==
    ASSUME NEW c \in Cpu, NEW i, IsInstruction(i), i.mn \in {"XCH", "XCHD"}
    PROVE  Effect(c, Execute(c, i), i.dst)
<1>1. PICK size : <<i.mn, i.dst.mode, i.src.mode, size>> \in Table
  BY DEF IsInstruction
<1>2. IsOperand(i.dst) /\ c.acc \in Bytes
  BY DEF IsInstruction, Cpu
<1>3. CASE i.mn = "XCH"
  <2> DEFINE v == Value(c, i.dst)
             d == [c EXCEPT !.acc = v]
  <2>1. i.dst.mode \in PlaceModes /\ i.dst.mode \in ValueModes
    BY <1>1, <1>3, DataRows DEF PlaceModes, ValueModes
  <2>2. v \in Bytes
    BY <1>2, <2>1, OperandValue
  <2>3. Execute(c, i) = Store(d, i.dst, c.acc)
    BY <1>3, ExecuteData DEF Xch
  <2> HIDE DEF v
  <2>4. Quiet(c, d) /\ d \in Cpu
    BY <2>2, QuietSteps DEF Quiet
  <2> HIDE DEF d
  <2>6. Effect(d, Store(d, i.dst, c.acc), i.dst)
    BY <1>2, <2>1, <2>4, OperandStore
  <2> QED
    BY <2>3, <2>4, <2>6, EffectsAdd
<1>4. CASE i.mn = "XCHD"
  <2> DEFINE a == AtCell(c, i.dst.arg)
             u == c.iram[a]
             x == c.acc - (c.acc % Nibble) + (u % Nibble)
             y == u - (u % Nibble) + (c.acc % Nibble)
             d == [c EXCEPT !.acc = x]
  <2>1. i.dst.mode = "AT_RI"
    BY <1>1, <1>4, DataRows
  <2>2. Fits(c, i.dst) => a \in Data /\ a \notin Half..(Byte - 1)
    BY <2>1 DEF Fits
  <2>3. a \in Bytes /\ (Fits(c, i.dst) => a <= StackBase)
    <3>1. a \in Bytes
      <4>1. i.dst.arg \in 0..(Regs - 1)
        BY <1>2, <2>1, OperandArgs
      <4> QED
        BY <4>1, RegCellType
    <3> QED
      BY <2>2, <3>1, DataPlaces, AddressBytes
  <2>4. Execute(c, i) = [c EXCEPT !.acc = x, !.iram[a] = y]
    BY <1>4, ExecuteData DEF Xchd
  <2> HIDE DEF a
  <2>5. u \in Bytes
    BY <2>3 DEF Cpu
  <2>6. x \in Bytes /\ y \in Bytes
    BY <1>2, <2>5, ByteResults
  <2>7. [c EXCEPT !.acc = x, !.iram[a] = y] = [d EXCEPT !.iram[a] = y]
    OBVIOUS
  <2> HIDE DEF x, y, u
  <2>8. Quiet(c, d) /\ d \in Cpu
    BY <2>6, QuietSteps DEF Quiet
  <2> HIDE DEF d
  <2>9. ~Own(i.dst)
    BY <2>1 DEF Own
  <2>10. Effect(d, [d EXCEPT !.iram[a] = y], i.dst)
    <3>1. Fits(d, i.dst) => a <= StackBase
      BY <2>3, <2>8, QuietFits
    <3> QED
      BY <2>3, <2>6, <2>8, <2>9, <3>1, CellEffect
  <2> QED
    BY <2>4, <2>7, <2>8, <2>10, EffectsAdd
<1> QED
  BY <1>3, <1>4

\* So do the instructions on A alone.
LEMMA TurnEffect ==
    ASSUME NEW c \in Cpu, NEW i, i.mn \in {"SWAP", "RL", "RR"}
    PROVE  Effect(c, Execute(c, i), i.dst)
<1>1. c.acc \in Bytes
  BY DEF Cpu
<1>2. CASE i.mn = "SWAP"
  <2>1. Execute(c, i) = [c EXCEPT !.acc = (c.acc % Nibble) * Nibble + (c.acc \div Nibble)]
    BY <1>2, ExecuteData DEF Swap
  <2>2. (c.acc % Nibble) * Nibble + (c.acc \div Nibble) \in Bytes
    BY <1>1, ByteResults
  <2> QED
    BY <2>1, <2>2, AccStore
<1>3. CASE i.mn = "RL"
  <2>1. Execute(c, i) = [c EXCEPT !.acc = ((2 * c.acc) % Byte) + (c.acc \div Half)]
    BY <1>3, ExecuteData DEF RotateAround
  <2>2. ((2 * c.acc) % Byte) + (c.acc \div Half) \in Bytes
    BY <1>1, ByteResults
  <2> QED
    BY <2>1, <2>2, AccStore
<1>4. CASE i.mn = "RR"
  <2>1. Execute(c, i) = [c EXCEPT !.acc = (c.acc \div 2) + (c.acc % 2) * Half]
    BY <1>4, ExecuteData DEF RotateBack
  <2>2. (c.acc \div 2) + (c.acc % 2) * Half \in Bytes
    BY <1>1, ByteResults
  <2> QED
    BY <2>1, <2>2, AccStore
<1> QED
  BY <1>2, <1>3, <1>4

\* So do reading code memory, and external memory either way.
LEMMA BusEffect ==
    ASSUME NEW c \in Cpu, NEW i, IsInstruction(i),
           i.mn \in {"MOVC_A_DPTR", "MOVC_A_PC", "MOVX_A_DPTR", "MOVX_A_AT_RI", "MOVX_DPTR_A",
                     "MOVX_AT_RI_A"}
    PROVE  Effect(c, Execute(c, i), i.dst)
<1>1. PICK size : <<i.mn, i.dst.mode, i.src.mode, size>> \in Table
  BY DEF IsInstruction
<1>2. /\ c.acc \in Nat /\ c.dptr \in 0..(Word - 1) /\ c.pc \in 0..(Word - 1)
      /\ Word \in Nat \ {0} /\ Byte \in Nat /\ Word >= Byte
  BY Sizes DEF Cpu, Bytes
<1>3. i.mn \in {"MOVX_A_AT_RI", "MOVX_AT_RI_A"} => AtCell(c, i.dst.arg) \in 0..(Word - 1)
  <2> SUFFICES ASSUME i.mn \in {"MOVX_A_AT_RI", "MOVX_AT_RI_A"}
               PROVE  AtCell(c, i.dst.arg) \in 0..(Word - 1)
    OBVIOUS
  <2>1. i.dst.mode = "AT_RI"
    BY <1>1, OtherRows
  <2>2. i.dst.arg \in 0..(Regs - 1)
    BY <2>1, OperandArgs DEF IsInstruction
  <2>3. AtCell(c, i.dst.arg) \in Bytes
    BY <2>2, RegCellType
  <2> QED
    BY <1>2, <2>3 DEF Bytes
<1>4. ASSUME NEW x \in Nat PROVE Rom[x % Word] \in Bytes
  <2>1. x % Word \in 0..(Word - 1)
    BY <1>2, RestOf
  <2> QED
    BY <2>1, InstructionsAssumption
<1>5. ASSUME NEW x \in 0..(Word - 1) PROVE Xdata[x] \in Bytes
  BY InstructionsAssumption
<1>6. CASE i.mn \in {"MOVC_A_DPTR", "MOVC_A_PC"}
  <2>1. c.dptr + c.acc \in Nat /\ c.pc + c.acc \in Nat
    BY <1>2
  <2>2. \/ Execute(c, i) = [c EXCEPT !.acc = Rom[(c.dptr + c.acc) % Word]]
        \/ Execute(c, i) = [c EXCEPT !.acc = Rom[(c.pc + c.acc) % Word]]
    BY <1>6, ExecuteBits DEF MovcADptr, MovcAPc
  <2> QED
    BY <1>4, <2>1, <2>2, AccStore
<1>7. CASE i.mn \in {"MOVX_A_DPTR", "MOVX_A_AT_RI"}
  <2>1. \E x \in 0..(Word - 1) : Execute(c, i) = [c EXCEPT !.acc = Xdata[x]]
    BY <1>2, <1>3, <1>7, ExecuteBits DEF MovxRead
  <2> QED
    BY <1>5, <2>1, AccStore
<1>8. CASE i.mn \in {"MOVX_DPTR_A", "MOVX_AT_RI_A"}
  <2>1. \E x \in 0..(Word - 1) : Execute(c, i) = [c EXCEPT !.bus = [addr |-> x, val |-> c.acc]]
    BY <1>2, <1>3, <1>8, ExecuteBits DEF MovxWrite
  <2> QED
    BY <2>1, QuietSteps, QuietEffect
<1> QED
  BY <1>6, <1>7, <1>8

\* So do the logical and bit instructions.
LEMMA LogicEffect ==
    ASSUME NEW c \in Cpu, NEW i, IsInstruction(i), i.mn \in LogicNames
    PROVE  Effect(c, Execute(c, i), i.dst)
<1>1. PICK size : <<i.mn, i.dst.mode, i.src.mode, size>> \in Table
  BY DEF IsInstruction
<1>2. /\ IsOperand(i.dst) /\ IsOperand(i.src) /\ c.acc \in Bytes /\ 0 \in Bytes
      /\ 0 \in 0..1 /\ 1 \in 0..1 /\ Carry(c) \in 0..1
  <2>1. 0 \in 0..1
    OBVIOUS
  <2>2. Carry(c) \in 0..1
    BY <2>1, FlagType
  <2>3. IsOperand(i.dst) /\ IsOperand(i.src) /\ c.acc \in Bytes
    BY DEF IsInstruction, Cpu
  <2>4. 0 \in Bytes
    BY Sizes
  <2> QED
    BY <2>2, <2>3, <2>4
<1>3. CASE i.mn \in {"ANL", "ORL"} /\ i.src.mode \in {"BIT", "BIT_NOT"}
  <2>1. Effect(c, c, i.dst)
    BY QuietSteps, QuietEffect
  <2>2. Effect(c, SetCarry(c, 0), i.dst) /\ Effect(c, SetCarry(c, 1), i.dst)
    BY <1>2, CarryStore
  <2>3. \/ Execute(c, i) = c \/ Execute(c, i) = SetCarry(c, 0) \/ Execute(c, i) = SetCarry(c, 1)
    BY <1>3, ExecuteLogic DEF FromBit, OrlCarry, AnlCarry
  <2> QED
    BY <2>1, <2>2, <2>3
<1>4. CASE /\ i.mn \in {"ANL", "ORL", "XRL"}
           /\ i.dst.mode \in PlaceModes /\ i.src.mode \in ValueModes
  <2>1. i.dst.mode \in ValueModes /\ ~FromBit(i)
    BY <1>4 DEF PlaceModes, ValueModes, FromBit
  <2>2. Value(c, i.dst) \in Bytes /\ Value(c, i.src) \in Bytes
    BY <1>2, <1>4, <2>1, OperandValue
  <2>3. \A mn \in {"ANL", "ORL", "XRL"} : Combine(mn, Value(c, i.dst), Value(c, i.src)) \in Bytes
    BY <2>2, CombineType
  <2>4. \E v \in Bytes : Execute(c, i) = Store(c, i.dst, v)
    BY <1>4, <2>1, <2>3, ExecuteLogic, ExecuteData DEF Anl, Orl, Xrl
  <2> QED
    BY <1>2, <1>4, <2>4, OperandStore
<1>5. CASE i.mn \in {"CLR", "CPL"} /\ i.dst.mode = "A"
  <2>1. Byte - 1 - c.acc \in Bytes
    BY <1>2, ByteResults
  <2>2. \/ Execute(c, i) = [c EXCEPT !.acc = 0] \/ Execute(c, i) = [c EXCEPT !.acc = Byte - 1 - c.acc]
    BY <1>5, ExecuteBits DEF OnA, ClrA, CplA
  <2> QED
    BY <1>2, <2>1, <2>2, AccStore
<1>6. CASE i.mn \in {"CLR", "CPL", "SETB"} /\ i.dst.mode = "C"
  <2>1. 1 - Carry(c) \in 0..1
    BY <1>2
  <2>2. i.dst.mode # "A"
    BY <1>6
  <2>3. \E v \in 0..1 : Execute(c, i) = SetCarry(c, v)
    BY <1>2, <1>6, <2>1, <2>2, ExecuteBits DEF OnA, ClearBit, CplBit, SetBit
  <2> QED
    BY <2>3, CarryStore
<1>7. CASE i.mn \in {"CLR", "CPL", "SETB"} /\ i.dst.mode = "BIT"
  <2>1. i.dst.arg \in Bytes
    BY <1>2, <1>7, OperandArgs
  <2>2. ReadBit(c, i.dst.arg) \in 0..1
    BY <1>2, <2>1, BitType
  <2>3. 1 - ReadBit(c, i.dst.arg) \in 0..1
    BY <2>2
  <2>4. i.dst.mode # "A" /\ i.dst.mode # "C"
    BY <1>7
  <2>5. \E v \in 0..1 : Execute(c, i) = WriteBit(c, i.dst.arg, v)
    BY <1>2, <1>7, <2>3, <2>4, ExecuteBits DEF OnA, ClearBit, CplBit, SetBit
  <2> QED
    BY <1>2, <1>7, <2>5, BitStore
<1>8. /\ i.mn \in {"ANL", "ORL"} => \/ i.src.mode \in {"BIT", "BIT_NOT"}
                                    \/ i.dst.mode \in PlaceModes /\ i.src.mode \in ValueModes
      /\ i.mn = "XRL" => i.dst.mode \in PlaceModes /\ i.src.mode \in ValueModes
  BY <1>1, DataRows
<1>9. /\ i.mn \in {"CLR", "CPL"} => i.dst.mode \in {"A", "C", "BIT"}
      /\ i.mn = "SETB" => i.dst.mode \in {"C", "BIT"}
  BY <1>1, BitRows
<1> QED
  BY <1>3, <1>4, <1>5, <1>6, <1>7, <1>8, <1>9 DEF LogicNames

\* So do INC and DEC.
LEMMA CountEffect ==
    ASSUME NEW c \in Cpu, NEW i, IsInstruction(i), i.mn \in {"INC", "DEC"}
    PROVE  Effect(c, Execute(c, i), i.dst)
<1>1. PICK size : <<i.mn, i.dst.mode, i.src.mode, size>> \in Table
  BY DEF IsInstruction
<1>2. IsOperand(i.dst)
  BY DEF IsInstruction
<1>3. CASE i.dst.mode = "DPTR"
  <2>1. i.mn = "INC"
    BY <1>1, <1>3, DataRows DEF PlaceModes
  <2>2. Execute(c, i) = [c EXCEPT !.dptr = (c.dptr + 1) % Word]
    BY <1>3, <2>1, ExecuteData DEF Inc
  <2>3. (c.dptr + 1) % Word \in 0..(Word - 1)
    <3>1. c.dptr + 1 \in Nat /\ Word \in Nat \ {0}
      BY Sizes DEF Cpu
    <3> QED
      BY <3>1, RestOf
  <2>4. ~Own(i.dst)
    BY <1>3 DEF Own
  <2> QED
    BY <2>2, <2>3, <2>4, DptrEffect
<1>4. CASE i.dst.mode \in PlaceModes
  <2>1. i.dst.mode \in ValueModes /\ i.dst.mode # "DPTR"
    BY <1>4 DEF PlaceModes, ValueModes
  <2>2. Value(c, i.dst) \in Bytes
    BY <1>2, <2>1, OperandValue
  <2>3. (Value(c, i.dst) + 1) % Byte \in Bytes /\ (Value(c, i.dst) - 1) % Byte \in Bytes
    BY <2>2, ByteResults
  <2>4. \E v \in Bytes : Execute(c, i) = Store(c, i.dst, v)
    BY <2>1, <2>3, ExecuteData DEF Inc, Dec
  <2> QED
    BY <1>2, <1>4, <2>4, OperandStore
<1> QED
  BY <1>1, <1>3, <1>4, DataRows

\* The distance of a branch is a byte.
LEMMA RelType ==
    ASSUME NEW i, IsInstruction(i),
           \/ i.mn \in {"DJNZ", "JB", "JNB", "JBC", "JC", "JNC", "JZ", "JNZ", "SJMP"}
           \/ i.mn \in CompareNames
    PROVE  Rel(i) \in Bytes
<1>1. PICK size : <<i.mn, i.dst.mode, i.src.mode, size>> \in Table
  BY DEF IsInstruction
<1>2. IsOperand(i.dst) /\ IsOperand(i.src)
  BY DEF IsInstruction
<1>3. i.dst.mode = "REL8" \/ i.src.mode = "REL8"
  BY <1>1, BitRows DEF CompareNames
<1>4. CASE i.dst.mode = "REL8"
  BY <1>2, <1>4, OperandArgs DEF Rel
<1>5. CASE i.dst.mode # "REL8"
  BY <1>2, <1>3, <1>5, OperandArgs DEF Rel
<1> QED
  BY <1>4, <1>5

\* So do the branches that also store.
LEMMA LoopEffect ==
    ASSUME NEW c \in Cpu, NEW i, IsInstruction(i), i.mn \in {"DJNZ", "JBC"}
    PROVE  Effect(c, Execute(c, i), i.dst)
<1>1. PICK size : <<i.mn, i.dst.mode, i.src.mode, size>> \in Table
  BY DEF IsInstruction
<1>2. IsOperand(i.dst) /\ Rel(i) \in Bytes
  BY RelType DEF IsInstruction
<1>3. ASSUME NEW d, NEW taken, Effect(c, d, i.dst)
      PROVE  Effect(c, Branch(d, Rel(i), taken), i.dst)
  <2>1. d \in Cpu
    BY <1>3 DEF Effect
  <2>2. Quiet(d, Branch(d, Rel(i), taken))
    BY <1>2, <2>1, QuietEnds
  <2> QED
    BY <1>3, <2>2, EffectsAdd
<1>4. CASE i.mn = "DJNZ"
  <2>1. i.dst.mode \in PlaceModes /\ i.dst.mode \in ValueModes
    BY <1>1, <1>4, BitRows DEF PlaceModes, ValueModes
  <2>2. (Value(c, i.dst) - 1) % Byte \in Bytes
    BY <1>2, <2>1, OperandValue, ByteResults
  <2>3. Effect(c, Store(c, i.dst, (Value(c, i.dst) - 1) % Byte), i.dst)
    BY <1>2, <2>1, <2>2, OperandStore
  <2>4. Execute(c, i) = Branch(Store(c, i.dst, (Value(c, i.dst) - 1) % Byte), Rel(i),
                               (Value(c, i.dst) - 1) % Byte # 0)
    BY <1>4, ExecuteBranches DEF Djnz
  <2> QED
    BY <1>3, <2>3, <2>4
<1>5. CASE i.mn = "JBC"
  <2>1. i.dst.mode = "BIT"
    BY <1>1, <1>5, BitRows
  <2>2. Effect(c, WriteBit(c, i.dst.arg, 0), i.dst)
    <3>1. 0 \in 0..1
      OBVIOUS
    <3> QED
      BY <1>2, <2>1, <3>1, BitStore
  <2>3. Effect(c, c, i.dst)
    BY QuietSteps, QuietEffect
  <2>4. \/ Execute(c, i) = Branch(WriteBit(c, i.dst.arg, 0), Rel(i), TRUE)
        \/ Execute(c, i) = c
    BY <1>5, ExecuteBranches DEF BranchOnBit
  <2> QED
    BY <1>3, <2>2, <2>3, <2>4
<1> QED
  BY <1>4, <1>5

\* The 11-bit address keeps to the words.
LEMMA InPageType ==
    ASSUME NEW c \in Cpu, NEW a \in 0..(Page - 1)
    PROVE  InPage(c, a) \in 0..(Word - 1)
<1>1. Page \in Nat \ {0} /\ Word % Page = 0 /\ Word \in Nat /\ c.pc \in Nat /\ c.pc < Word
  BY InstructionsAssumption, Sizes DEF Cpu
<1>2. PICK n \in Nat : Word = Page * n
  <2>1. Word = Page * (Word \div Page) + (Word % Page) /\ Word \div Page \in Nat
    BY <1>1, Quotient
  <2>2. Page * (Word \div Page) \in Int
    BY <1>1, <2>1
  <2>3. Word = Page * (Word \div Page)
    BY <1>1, <2>1, <2>2
  <2> QED
    BY <2>1, <2>3
<1> DEFINE q == c.pc \div Page
           r == c.pc % Page
<1>3. c.pc = Page * q + r /\ q \in Nat /\ r \in 0..(Page - 1)
  <2>1. c.pc % Page \in 0..(Page - 1)
    BY <1>1, RestOf
  <2> QED
    BY <1>1, <2>1, Quotient
<1>4. InPage(c, a) = c.pc - r + a
  BY DEF InPage
<1> HIDE DEF q, r
<1>5. q < n
  <2> SUFFICES ASSUME ~(q < n) PROVE FALSE
    OBVIOUS
  <2>1. PICK d \in Nat : q = n + d
    <3>1. q - n \in Nat /\ q = n + (q - n)
      BY <1>2, <1>3
    <3> QED
      BY <3>1
  <2>2. Page * q = Page * n + Page * d /\ Page * d \in Nat /\ Page * n \in Nat
    BY <1>1, <1>2, <2>1, Distribute
  <2> QED
    BY <1>1, <1>2, <1>3, <2>2
<1>6. Page * q + Page <= Word
  <2>1. PICK d \in Nat : n = (q + 1) + d
    <3>1. n - (q + 1) \in Nat /\ n = (q + 1) + (n - (q + 1))
      BY <1>2, <1>3, <1>5
    <3> QED
      BY <3>1
  <2>2. Page * n = Page * (q + 1) + Page * d /\ Page * d \in Nat
    <3>1. q + 1 \in Int
      BY <1>3
    <3> QED
      BY <1>1, <2>1, <3>1, Distribute
  <2>3. Page * (q + 1) = Page * q + Page * 1 /\ Page * q \in Nat /\ Page * 1 = Page
    BY <1>1, <1>3, Distribute
  <2> QED
    BY <1>1, <1>2, <2>2, <2>3
<1>7. Page * q \in Nat
  BY <1>1, <1>3
<1>8. c.pc - r + a = Page * q + a
  BY <1>1, <1>3, <1>7
<1> QED
  BY <1>1, <1>4, <1>6, <1>7, <1>8

\* Jumps change nothing but PC.
LEMMA JumpQuiet ==
    ASSUME NEW c \in Cpu, NEW i, IsInstruction(i), i.mn \in JumpNames
    PROVE  Quiet(c, Execute(c, i))
<1>1. PICK size : <<i.mn, i.dst.mode, i.src.mode, size>> \in Table
  BY DEF IsInstruction
<1>2. IsOperand(i.dst)
  BY DEF IsInstruction
<1>3. CASE i.mn = "NOP"
  <2>1. Execute(c, i) = c
    BY <1>3, ExecuteBranches
  <2>2. Quiet(c, c)
    BY QuietSteps
  <2> QED
    BY <2>1, <2>2
<1>4. CASE i.mn \in {"SJMP", "JC", "JNC", "JZ", "JNZ", "JB", "JNB"}
  <2>1. Rel(i) \in Bytes
    BY <1>4, RelType
  <2>2. \E taken : Execute(c, i) = Branch(c, Rel(i), taken)
    <3>1. CASE i.mn = "SJMP"
      BY <3>1, ExecuteBranches
    <3>2. CASE i.mn \in {"JC", "JNC", "JZ", "JNZ"}
      <4>1. Execute(c, i) = BranchOnFlag(c, i)
        BY <3>2, ExecuteBranches
      <4> QED
        BY <4>1 DEF BranchOnFlag
    <3>3. CASE i.mn \in {"JB", "JNB"}
      <4>1. Execute(c, i) = BranchOnBit(c, i)
        BY <3>3, ExecuteBranches
      <4> QED
        BY <3>3, <4>1 DEF BranchOnBit
    <3> QED
      BY <1>4, <3>1, <3>2, <3>3
  <2> QED
    BY <2>1, <2>2, QuietEnds
<1>5. CASE i.mn = "AJMP"
  <2>1. i.dst.arg \in 0..(Page - 1)
    BY <1>1, <1>2, <1>5, OtherRows, OperandArgs
  <2>2. InPage(c, i.dst.arg) \in 0..(Word - 1)
    BY <2>1, InPageType
  <2>3. Execute(c, i) = Jump(c, InPage(c, i.dst.arg))
    BY <1>5, ExecuteBranches
  <2> QED
    BY <2>2, <2>3, QuietEnds
<1>6. CASE i.mn = "LJMP"
  <2>1. i.dst.arg \in 0..(Word - 1)
    BY <1>1, <1>2, <1>6, OtherRows, OperandArgs
  <2>2. Execute(c, i) = Jump(c, i.dst.arg)
    BY <1>6, ExecuteBranches
  <2> QED
    BY <2>1, <2>2, QuietEnds
<1>7. CASE i.mn = "JMPA_DPTR"
  <2>1. c.dptr + c.acc \in Nat /\ Word \in Nat \ {0}
    <3>1. c.dptr \in 0..(Word - 1) /\ c.acc \in 0..(Byte - 1)
      BY DEF Cpu, Bytes
    <3>2. Word \in Nat \ {0}
      BY Sizes
    <3> QED
      BY <3>1, <3>2
  <2>2. (c.dptr + c.acc) % Word \in 0..(Word - 1)
    BY <2>1, RestOf
  <2>3. Execute(c, i) = Jump(c, (c.dptr + c.acc) % Word)
    BY <1>7, ExecuteBranches DEF JumpADptr
  <2> QED
    BY <2>2, <2>3, QuietEnds
<1> QED
  BY <1>3, <1>4, <1>5, <1>6, <1>7 DEF JumpNames

\* Compares change nothing but PC and the carry.
LEMMA CompareQuiet ==
    ASSUME NEW c \in Cpu, NEW i, IsInstruction(i), i.mn \in CompareNames
    PROVE  Quiet(c, Execute(c, i))
<1>1. Rel(i) \in Bytes
  BY RelType
<1>2. \E b \in 0..1 : \E taken : Execute(c, i) = Branch(SetCarry(c, b), Rel(i), taken)
  <2>1. Execute(c, i) = Cjne(c, i)
    BY ExecuteBranches DEF CompareNames
  <2>2. Truth(Value(c, i.lhs) < Value(c, i.src)) \in 0..1
    BY DEF Truth
  <2> QED
    BY <2>1, <2>2 DEF Cjne
<1>3. PICK b \in 0..1 : \E taken : Execute(c, i) = Branch(SetCarry(c, b), Rel(i), taken)
  BY <1>2
<1>4. PICK taken : Execute(c, i) = Branch(SetCarry(c, b), Rel(i), taken)
  BY <1>3
<1>5. Quiet(c, SetCarry(c, b)) /\ SetCarry(c, b) \in Cpu
  BY QuietSteps DEF Quiet
<1>6. Quiet(SetCarry(c, b), Branch(SetCarry(c, b), Rel(i), taken))
  BY <1>1, <1>5, QuietEnds
<1> QED
  BY <1>4, <1>5, <1>6, EffectsAdd

------------------------------------------------------------------------------
\* Whole instructions

\* What cpu_step adds to the instruction is quiet.
LEMMA StepEffect ==
    ASSUME NEW c \in Cpu, NEW i,
           \A d \in Cpu : Quiet(c, d) => Effect(d, Execute(d, i), i.dst)
    PROVE  Effect(c, CpuStep(c, i), i.dst)
<1> DEFINE d == Fetched(c, i)
           e == Execute(d, i)
<1>1. Quiet(c, d) /\ d \in Cpu
  BY QuietEnds DEF Quiet
<1>2. CpuStep(c, i) = Retire(c, e)
  BY DEF CpuStep
<1>3. Effect(d, e, i.dst)
  BY <1>1
<1> HIDE DEF d, e
<1>4. Effect(c, e, i.dst) /\ e \in Cpu
  BY <1>1, <1>3, EffectsAdd DEF Effect
<1>5. Quiet(e, Retire(c, e))
  BY <1>4, QuietEnds
<1> QED
  BY <1>2, <1>4, <1>5, EffectsAdd

\* The instructions that store no more than the discipline allows, if their operand
\* does.
LEMMA StoringStep ==
    ASSUME NEW c \in Cpu, NEW i \in Instructions,
           i.mn \in MoveNames \cup LogicNames \cup {"INC", "DEC", "DJNZ", "JBC"}
    PROVE  Effect(c, CpuStep(c, i), i.dst)
<1>1. IsInstruction(i)
  BY InstructionsAre
<1>2. ASSUME NEW d \in Cpu, Quiet(c, d) PROVE Effect(d, Execute(d, i), i.dst)
  <2> QED
    BY <1>1, MovEffect, ExchangeEffect, TurnEffect, BusEffect, LogicEffect, CountEffect,
       LoopEffect DEF MoveNames
<1> QED
  BY <1>2, StepEffect

\* Jumps and compares store nothing.
LEMMA QuietStep ==
    ASSUME NEW c \in Cpu, NEW i \in Instructions, i.mn \in JumpNames \cup CompareNames
    PROVE  Quiet(c, CpuStep(c, i))
<1> DEFINE d == Fetched(c, i)
           e == Execute(d, i)
<1>1. IsInstruction(i)
  BY InstructionsAre
<1>2. Quiet(c, d) /\ d \in Cpu
  BY QuietEnds DEF Quiet
<1>3. CpuStep(c, i) = Retire(c, e)
  BY DEF CpuStep
<1>4. Quiet(d, e)
  BY <1>1, <1>2, JumpQuiet, CompareQuiet
<1> HIDE DEF d, e
<1>5. Quiet(c, e) /\ e \in Cpu
  BY <1>2, <1>4, EffectsAdd DEF Quiet
<1>6. Quiet(e, Retire(c, e))
  BY <1>5, QuietEnds
<1> QED
  BY <1>3, <1>5, <1>6, EffectsAdd

------------------------------------------------------------------------------
\* Bit addresses

\* A bit-addressable register starts at a bit address and has Bits of them.
LEMMA RegisterBits ==
    ASSUME NEW a, a \in Half..(Byte - 1), a % Bits = 0, NEW k \in 0..CyBit
    PROVE  a + k \in Bytes /\ ~(a + k < Half) /\ ByteOf(a + k) = a
<1>1. /\ a \in Nat /\ a < Byte /\ ~(a < Half) /\ Half \in Nat /\ Byte = 2 * Half
      /\ Bits \in Nat \ {0} /\ CyBit = Bits - 1 /\ k \in 0..(Bits - 1)
  BY Sizes
<1> DEFINE p == a \div Bits
           h == Half \div Bits
<1>2. p \in Nat /\ a = Bits * p + 0
  BY <1>1, Quotient
<1>3. h \in Nat /\ Half = Bits * h
  BY BitBytes
<1> HIDE DEF p, h
<1>4. p < 2 * h
  <2> SUFFICES ASSUME ~(p < 2 * h) PROVE FALSE
    OBVIOUS
  <2>1. PICK d \in Nat : p = 2 * h + d
    <3>1. p - 2 * h \in Nat /\ p = 2 * h + (p - 2 * h)
      BY <1>2, <1>3
    <3> QED
      BY <3>1
  <2>2. Bits * p = Bits * (2 * h) + Bits * d /\ Bits * d \in Nat
    <3>1. 2 * h \in Int
      BY <1>3
    <3> QED
      BY <1>1, <2>1, <3>1, Distribute
  <2>3. Bits * (2 * h) = Byte
    BY <1>1, <1>3
  <2> QED
    BY <1>1, <1>2, <2>2, <2>3
<1>5. a + Bits <= Byte
  <2>1. PICK d \in Nat : 2 * h = (p + 1) + d
    <3>1. 2 * h - (p + 1) \in Nat /\ 2 * h = (p + 1) + (2 * h - (p + 1))
      BY <1>2, <1>3, <1>4
    <3> QED
      BY <3>1
  <2>2. Bits * (2 * h) = Bits * (p + 1) + Bits * d /\ Bits * d \in Nat
    <3>1. p + 1 \in Int
      BY <1>2
    <3> QED
      BY <1>1, <2>1, <3>1, Distribute
  <2>3. Bits * (p + 1) = Bits * p + Bits * 1 /\ Bits * 1 = Bits /\ Bits * p \in Int
    BY <1>1, <1>2, Distribute
  <2>4. Bits * (2 * h) = Byte
    BY <1>1, <1>3
  <2> QED
    BY <1>1, <1>2, <2>2, <2>3, <2>4
<1>6. a + k \in Bytes /\ ~(a + k < Half) /\ a + k \in Nat
  BY <1>1, <1>5 DEF Bytes
<1>7. (a + k) % Bits = k
  <2>1. a + k = Bits * p + k
    BY <1>1, <1>2
  <2> QED
    BY <1>1, <1>2, <1>6, <2>1, QuotientIs
<1>8. (a + k) - k = a
  BY <1>1
<1> QED
  BY <1>6, <1>7, <1>8 DEF ByteOf

\* The bit addresses lie in internal RAM, in PSW and in A.
LEMMA BitPlaces ==
    ASSUME NEW b \in BitAddresses
    PROVE  b \in Bytes /\ (ByteOf(b) < Half \/ ByteOf(b) = PSW \/ ByteOf(b) = ACC)
<1>1. /\ PSW \in Half..(Byte - 1) /\ ACC \in Half..(Byte - 1)
      /\ PSW % Bits = 0 /\ ACC % Bits = 0
  BY Addresses, InstructionsAssumption
<1>2. CASE b \in 0..(Half - 1)
  <2>1. b \in Bytes /\ b < Half
    BY <1>2, Sizes DEF Bytes
  <2> QED
    BY <2>1, ByteOfType
<1>3. CASE b \in {PSW + k : k \in 1..CyBit}
  <2>1. PICK k \in 0..CyBit : b = PSW + k
    BY <1>3, Sizes
  <2> QED
    BY <1>1, <2>1, RegisterBits
<1>4. CASE b \in {ACC + k : k \in 0..CyBit}
  <2>1. PICK k \in 0..CyBit : b = ACC + k
    BY <1>4
  <2> QED
    BY <1>1, <2>1, RegisterBits
<1> QED
  BY <1>2, <1>3, <1>4 DEF BitAddresses

\* A bit address is known by its byte and its place in it.
LEMMA BitNames ==
    ASSUME NEW b \in Bytes, NEW c \in Bytes, ByteOf(b) = ByteOf(c), b % Bits = c % Bits
    PROVE  b = c
<1>1. /\ b \in Nat /\ c \in Nat /\ Half \in Nat /\ BitBase \in Nat /\ Bits \in Nat
      /\ b % Bits \in Nat /\ b \div Bits \in Nat /\ c \div Bits \in Nat
      /\ b = Bits * (b \div Bits) + (b % Bits) /\ c = Bits * (c \div Bits) + (c % Bits)
  BY ByteOfType, Sizes, BitBytes
<1>0. /\ c < Half => ByteOf(c) = BitBase + c \div Bits /\ ByteOf(c) < Half
      /\ ~(c < Half) => ByteOf(c) = c - (c % Bits) /\ ~(ByteOf(c) < Half)
  BY ByteOfType
<1>2. CASE b < Half
  <2>1. ByteOf(b) = BitBase + b \div Bits /\ ByteOf(b) < Half
    BY <1>2, ByteOfType
  <2>2. c < Half
    BY <1>0, <2>1
  <2>3. ByteOf(c) = BitBase + c \div Bits
    BY <1>0, <2>2
  <2>4. b \div Bits = c \div Bits
    <3>1. BitBase + b \div Bits = BitBase + c \div Bits
      BY <2>1, <2>3
    <3> QED
      BY <1>1, <3>1
  <2> QED
    BY <1>1, <2>4
<1>3. CASE ~(b < Half)
  <2>1. ByteOf(b) = b - (b % Bits) /\ ~(ByteOf(b) < Half)
    BY <1>3, ByteOfType
  <2>2. ~(c < Half)
    BY <1>0, <2>1
  <2>3. ByteOf(c) = c - (c % Bits)
    BY <1>0, <2>2
  <2>4. b - (b % Bits) = c - (c % Bits)
    BY <2>1, <2>3
  <2> QED
    BY <1>1, <2>4
<1> QED
  BY <1>2, <1>3

\* What a write leaves to read, in internal RAM, PSW and A.
LEMMA ReadAfterWrite ==
    ASSUME NEW c \in Cpu, NEW a \in Bytes, NEW e \in Bytes, NEW x \in Bytes,
           a < Half \/ a = PSW \/ a = ACC, e < Half \/ e = PSW \/ e = ACC
    PROVE  ReadDirect(WriteDirect(c, a, x), e) = IF e = a THEN x ELSE ReadDirect(c, e)
<1> DEFINE d == WriteDirect(c, a, x)
<1>1. a < Half => d = [c EXCEPT !.iram[a] = x]
  BY AddressBytes DEF WriteDirect
<1>2. a = PSW => d = [c EXCEPT !.psw = x]
  BY AddressBytes, Addresses DEF WriteDirect
<1>3. a = ACC => d = [c EXCEPT !.acc = x]
  BY AddressBytes, Addresses DEF WriteDirect
<1>4. /\ ~(PSW < Half) /\ ~(ACC < Half) /\ PSW # ACC
  BY AddressBytes, Addresses
<1> HIDE DEF d
<1>5. /\ \A g \in Bytes : a < Half => d.iram[g] = IF g = a THEN x ELSE c.iram[g]
      /\ ~(a < Half) => d.iram = c.iram
      /\ d.psw = IF a = PSW THEN x ELSE c.psw
      /\ d.acc = IF a = ACC THEN x ELSE c.acc
  BY <1>1, <1>2, <1>3, <1>4 DEF Cpu
<1>6. CASE e < Half
  <2>1. ReadDirect(d, e) = d.iram[e] /\ ReadDirect(c, e) = c.iram[e]
    BY <1>6, ReadDirectCases
  <2> QED
    BY <1>4, <1>5, <1>6, <2>1 DEF d
<1>7. CASE e = PSW
  <2>1. ReadDirect(d, e) = d.psw /\ ReadDirect(c, e) = c.psw
    BY <1>7, ReadDirectCases
  <2> QED
    BY <1>5, <1>7, <2>1 DEF d
<1>8. CASE e = ACC
  <2>1. ReadDirect(d, e) = d.acc /\ ReadDirect(c, e) = c.acc
    BY <1>8, ReadDirectCases
  <2> QED
    BY <1>5, <1>8, <2>1 DEF d
<1> QED
  BY <1>6, <1>7, <1>8

\* Writing a bit is seen there and nowhere else.
LEMMA BitWritten ==
    ASSUME NEW c \in Cpu, NEW b \in BitAddresses, NEW v \in 0..1, NEW e \in BitAddresses
    PROVE  ReadBit(WriteBit(c, b, v), e) = IF e = b THEN v ELSE ReadBit(c, e)
<1> DEFINE y == ReadDirect(c, ByteOf(b))
           x == PutBit(y, b % Bits, v)
<1>1. /\ b \in Bytes /\ e \in Bytes
      /\ ByteOf(b) < Half \/ ByteOf(b) = PSW \/ ByteOf(b) = ACC
      /\ ByteOf(e) < Half \/ ByteOf(e) = PSW \/ ByteOf(e) = ACC
  BY BitPlaces
<1>2. /\ ByteOf(b) \in Bytes /\ ByteOf(e) \in Bytes
      /\ b % Bits \in 0..(Bits - 1) /\ e % Bits \in 0..(Bits - 1)
  BY <1>1, ByteOfType
<1>3. y \in Bytes
  BY <1>2, Sizes, DirectType
<1>4. x \in Bytes /\ Bit(x, e % Bits) = IF e % Bits = b % Bits THEN v ELSE Bit(y, e % Bits)
  BY <1>2, <1>3, PutBitBits
<1>5. WriteBit(c, b, v) = WriteDirect(c, ByteOf(b), x)
  BY DEF WriteBit
<1> HIDE DEF x
<1>6. ReadDirect(WriteBit(c, b, v), ByteOf(e)) =
         IF ByteOf(e) = ByteOf(b) THEN x ELSE ReadDirect(c, ByteOf(e))
  BY <1>1, <1>2, <1>4, <1>5, ReadAfterWrite
<1>7. ReadBit(WriteBit(c, b, v), e) = Bit(ReadDirect(WriteBit(c, b, v), ByteOf(e)), e % Bits)
  BY DEF ReadBit
<1>8. ReadBit(c, e) = Bit(ReadDirect(c, ByteOf(e)), e % Bits)
  BY DEF ReadBit
<1>9. CASE ByteOf(e) = ByteOf(b)
  <2>1. ReadBit(WriteBit(c, b, v), e) = Bit(x, e % Bits) /\ ReadBit(c, e) = Bit(y, e % Bits)
    BY <1>6, <1>7, <1>8, <1>9
  <2>2. e % Bits = b % Bits => e = b
    BY <1>1, <1>9, BitNames
  <2> QED
    BY <1>4, <2>1, <2>2
<1>10. CASE ByteOf(e) # ByteOf(b)
  BY <1>6, <1>7, <1>8, <1>10
<1> QED
  BY <1>9, <1>10

------------------------------------------------------------------------------
\* The two interpreters

\* Exec by mnemonic.
LEMMA ExecData ==
    ASSUME NEW c, NEW i
    PROVE  /\ i.mn \in {"MOV", "MOV_DIRECT_DIRECT"} =>
                 Exec(c, i) = write_op(c, i.dst, read_op(c, i.src))
           /\ i.mn = "MOV_DPTR_IMM" => Exec(c, i) = [c EXCEPT !.dptr = i.dst.arg]
           /\ i.mn = "INC" => Exec(c, i) = exec_inc(c, i.dst)
           /\ i.mn = "DEC" => Exec(c, i) = write_op(c, i.dst, (read_op(c, i.dst) - 1) % Byte)
           /\ i.mn \in {"ANL", "ORL", "XRL"} => Exec(c, i) = Logic(c, i)
           /\ i.mn = "XCH" => Exec(c, i) = exec_xch(c, i.dst)
           /\ i.mn = "XCHD" => Exec(c, i) = exec_xchd(c, i.dst)
           /\ i.mn = "SWAP" =>
                 Exec(c, i) = [c EXCEPT !.acc = (@ % Nibble) * Nibble + (@ \div Nibble)]
           /\ i.mn = "RL" => Exec(c, i) = exec_rl(c)
           /\ i.mn = "RR" => Exec(c, i) = exec_rr(c)
BY DEF Exec

\* What the exec functions do for bits, and for code and external memory.
LEMMA ExecBits ==
    ASSUME NEW c, NEW i
    PROVE  /\ i.mn = "CLR" => Exec(c, i) = IF i.dst.mode = "A" THEN [c EXCEPT !.acc = 0]
                                           ELSE write_op(c, i.dst, 0)
           /\ i.mn = "CPL" => Exec(c, i) = exec_cpl(c, i.dst)
           /\ i.mn = "SETB" => Exec(c, i) = write_op(c, i.dst, 1)
           /\ i.mn = "MOVC_A_DPTR" => Exec(c, i) = [c EXCEPT !.acc = Rom[(c.dptr + @) % Word]]
           /\ i.mn = "MOVC_A_PC" => Exec(c, i) = [c EXCEPT !.acc = Rom[(c.pc + @) % Word]]
           /\ i.mn = "MOVX_A_DPTR" => Exec(c, i) = [c EXCEPT !.acc = Xdata[c.dptr]]
           /\ i.mn = "MOVX_A_AT_RI" =>
                 Exec(c, i) = [c EXCEPT !.acc = Xdata[c.iram[BankBase(c) + i.dst.arg]]]
           /\ i.mn = "MOVX_DPTR_A" =>
                 Exec(c, i) = [c EXCEPT !.bus = [addr |-> c.dptr, val |-> c.acc]]
           /\ i.mn = "MOVX_AT_RI_A" =>
                 Exec(c, i) = [c EXCEPT !.bus = [addr |-> c.iram[BankBase(c) + i.dst.arg], val |-> c.acc]]
BY DEF Exec

\* A relative jump that is taken.
Hop(c, rel) == [c EXCEPT !.pc = (@ + Signed(rel)) % Word]

\* What the exec functions do for branches.
LEMMA ExecHops ==
    ASSUME NEW c, NEW i
    PROVE  /\ i.mn = "JC" => Exec(c, i) = IF Carry(c) = 1 THEN Hop(c, i.dst.arg) ELSE c
           /\ i.mn = "JNC" => Exec(c, i) = IF Carry(c) # 1 THEN Hop(c, i.dst.arg) ELSE c
           /\ i.mn = "JZ" => Exec(c, i) = IF c.acc = 0 THEN Hop(c, i.dst.arg) ELSE c
           /\ i.mn = "JNZ" => Exec(c, i) = IF c.acc # 0 THEN Hop(c, i.dst.arg) ELSE c
           /\ i.mn = "JB" => Exec(c, i) = IF read_op(c, i.dst) # 0 THEN Hop(c, i.src.arg) ELSE c
           /\ i.mn = "JNB" => Exec(c, i) = IF read_op(c, i.dst) = 0 THEN Hop(c, i.src.arg) ELSE c
           /\ i.mn = "SJMP" => Exec(c, i) = Hop(c, i.dst.arg)
BY DEF Exec, exec_jump_rel, Hop

\* What the exec functions do for the branches that also store.
LEMMA ExecLoops ==
    ASSUME NEW c, NEW i
    PROVE  /\ i.mn = "JBC" => Exec(c, i) = IF read_op(c, i.dst) # 0
                                           THEN Hop(write_op(c, i.dst, 0), i.src.arg) ELSE c
           /\ i.mn = "DJNZ" =>
                 LET x == (read_op(c, i.dst) - 1) % Byte
                 IN  Exec(c, i) = IF x # 0 THEN Hop(write_op(c, i.dst, x), i.src.arg)
                                  ELSE write_op(c, i.dst, x)
BY DEF Exec, exec_jump_rel, exec_jbc, exec_djnz, Hop

\* What the exec functions do for compares.
LEMMA ExecCompares ==
    ASSUME NEW c, NEW i
    PROVE  i.mn \in CompareNames =>
              LET l == read_op(c, i.lhs)
                  r == read_op(c, i.src)
                  d == SetCarry(c, Truth(l < r))
              IN  Exec(c, i) = IF l # r THEN Hop(d, i.dst.arg) ELSE d
BY DEF Exec, exec_jump_rel, exec_cjne, Hop, CompareNames

\* The branches of cpu_step, in the same form.
LEMMA ExecuteHops ==
    ASSUME NEW c, NEW i
    PROVE  /\ i.mn = "JC" => Execute(c, i) = IF Carry(c) = 1 THEN Hop(c, Rel(i)) ELSE c
           /\ i.mn = "JNC" => Execute(c, i) = IF Carry(c) = 0 THEN Hop(c, Rel(i)) ELSE c
           /\ i.mn = "JZ" => Execute(c, i) = IF c.acc = 0 THEN Hop(c, Rel(i)) ELSE c
           /\ i.mn = "JNZ" => Execute(c, i) = IF c.acc # 0 THEN Hop(c, Rel(i)) ELSE c
BY DEF Execute, BranchOnFlag, Branch, Hop

\* Its branches on a bit.
LEMMA ExecuteBitHops ==
    ASSUME NEW c, NEW i
    PROVE  /\ i.mn = "JB" => Execute(c, i) = IF ReadBit(c, i.dst.arg) = 1 THEN Hop(c, Rel(i)) ELSE c
           /\ i.mn = "JNB" => Execute(c, i) = IF ReadBit(c, i.dst.arg) = 0 THEN Hop(c, Rel(i)) ELSE c
           /\ i.mn = "SJMP" => Execute(c, i) = Hop(c, Rel(i))
           /\ i.mn = "JBC" => Execute(c, i) = IF ReadBit(c, i.dst.arg) = 1
                                              THEN Hop(WriteBit(c, i.dst.arg, 0), Rel(i)) ELSE c
BY DEF Execute, BranchOnBit, Branch, Hop

\* Its loops and compares.
LEMMA ExecuteLoops ==
    ASSUME NEW c, NEW i
    PROVE  /\ i.mn = "DJNZ" =>
                 LET x == (Value(c, i.dst) - 1) % Byte
                 IN  Execute(c, i) = IF x # 0 THEN Hop(Store(c, i.dst, x), Rel(i))
                                     ELSE Store(c, i.dst, x)
           /\ i.mn \in CompareNames =>
                 LET l == Value(c, i.lhs)
                     r == Value(c, i.src)
                     d == SetCarry(c, Truth(l < r))
                 IN  Execute(c, i) = IF l # r THEN Hop(d, Rel(i)) ELSE d
BY DEF Execute, Djnz, Cjne, Branch, Hop, CompareNames

\* What the exec functions do for jumps, calls, returns and the stack.
LEMMA ExecJumps ==
    ASSUME NEW c, NEW i
    PROVE  /\ i.mn = "NOP" => Exec(c, i) = c
           /\ i.mn = "AJMP" => Exec(c, i) = [c EXCEPT !.pc = InPage(c, i.dst.arg)]
           /\ i.mn = "LJMP" => Exec(c, i) = [c EXCEPT !.pc = i.dst.arg]
           /\ i.mn = "JMPA_DPTR" => Exec(c, i) = [c EXCEPT !.pc = (c.dptr + c.acc) % Word]
           /\ i.mn = "ACALL" => Exec(c, i) = exec_lcall(c, InPage(c, i.dst.arg))
           /\ i.mn = "LCALL" => Exec(c, i) = exec_lcall(c, i.dst.arg)
           /\ i.mn \in {"RET", "RETI"} => Exec(c, i) = exec_ret(c)
           /\ i.mn = "PUSH" => Exec(c, i) = exec_push(c, i.dst)
           /\ i.mn = "POP" => Exec(c, i) = exec_pop(c, i.dst)
BY DEF Exec

\* read_op and write_op against what cpu_step reads and writes.
LEMMA OpsAgree ==
    ASSUME NEW c, NEW o, NEW v
    PROVE  /\ o.mode \in ValueModes => read_op(c, o) = Value(c, o)
           /\ o.mode \in PlaceModes => write_op(c, o, v) = Store(c, o, v)
           /\ o.mode = "C" => read_op(c, o) = Carry(c) /\ write_op(c, o, v) = SetCarry(c, Truth(v # 0))
           /\ o.mode = "BIT" => /\ read_op(c, o) = ReadBit(c, o.arg)
                                /\ write_op(c, o, v) = WriteBit(c, o.arg, Truth(v # 0))
<1>1. \A d, n : BankBase(d) + n = RegCell(d, n)
  BY DEF BankBase, RegCell, Bank
<1>2. \A d, n : d.iram[BankBase(d) + n] = AtCell(d, n)
  BY <1>1 DEF AtCell
<1>3. o.mode \in ValueModes => read_op(c, o) = Value(c, o)
  BY <1>1, <1>2 DEF read_op, Value, ValueModes
<1>4. o.mode \in PlaceModes => write_op(c, o, v) = Store(c, o, v)
  BY <1>1, <1>2 DEF write_op, Store, PlaceModes
<1>5. o.mode = "C" => read_op(c, o) = Carry(c) /\ write_op(c, o, v) = SetCarry(c, Truth(v # 0))
  BY DEF read_op, write_op
<1>6. o.mode = "BIT" => /\ read_op(c, o) = ReadBit(c, o.arg)
                        /\ write_op(c, o, v) = WriteBit(c, o.arg, Truth(v # 0))
  BY DEF read_op, write_op
<1> QED
  BY <1>3, <1>4, <1>5, <1>6

\* A bit is its own truth.
LEMMA TruthOf ==
    /\ \A b \in 0..1 : Truth(b # 0) = b /\ Truth(b = 0) = 1 - b
    /\ Truth(0 # 0) = 0 /\ Truth(1 # 0) = 1
BY DEF Truth

\* Both interpreters move the same.
LEMMA MovAgrees ==
    ASSUME NEW c \in Cpu, NEW i, IsInstruction(i),
           i.mn \in {"MOV", "MOV_DIRECT_DIRECT", "MOV_DPTR_IMM"}
    PROVE  Exec(c, i) = Execute(c, i)
<1>1. PICK size : <<i.mn, i.dst.mode, i.src.mode, size>> \in Table
  BY DEF IsInstruction
<1>2. IsOperand(i.dst) /\ IsOperand(i.src) /\ 0 \in 0..1
  BY DEF IsInstruction
<1>3. CASE i.mn = "MOV" /\ i.dst.mode = "C" /\ i.src.mode = "BIT"
  <2>1. ReadBit(c, i.src.arg) \in 0..1
    BY <1>2, <1>3, OperandArgs, BitType
  <2>2. Exec(c, i) = write_op(c, i.dst, read_op(c, i.src))
    BY <1>3, ExecData
  <2>3. Execute(c, i) = SetCarry(c, ReadBit(c, i.src.arg))
    BY <1>3, ExecuteMov DEF MovToCarry
  <2>4. read_op(c, i.src) = ReadBit(c, i.src.arg)
    BY <1>3, OpsAgree
  <2>5. \A v : write_op(c, i.dst, v) = SetCarry(c, Truth(v # 0))
    BY <1>3, OpsAgree
  <2> QED
    BY <2>1, <2>2, <2>3, <2>4, <2>5, TruthOf
<1>4. CASE i.mn = "MOV" /\ i.dst.mode = "BIT" /\ i.src.mode = "C"
  <2>1. Carry(c) \in 0..1
    BY <1>2, FlagType
  <2>2. Exec(c, i) = write_op(c, i.dst, read_op(c, i.src))
    BY <1>4, ExecData
  <2>3. Execute(c, i) = WriteBit(c, i.dst.arg, Carry(c))
    BY <1>4, ExecuteMov DEF MovFromCarry
  <2>4. read_op(c, i.src) = Carry(c)
    BY <1>4, OpsAgree
  <2>5. \A v : write_op(c, i.dst, v) = WriteBit(c, i.dst.arg, Truth(v # 0))
    BY <1>4, OpsAgree
  <2> QED
    BY <2>1, <2>2, <2>3, <2>4, <2>5, TruthOf
<1>5. CASE /\ i.mn \in {"MOV", "MOV_DIRECT_DIRECT"}
           /\ i.dst.mode \in PlaceModes /\ i.src.mode \in ValueModes
  <2>1. i.dst.mode # "C" /\ i.src.mode # "C"
    BY <1>5 DEF PlaceModes, ValueModes
  <2>2. Execute(c, i) = Store(c, i.dst, Value(c, i.src))
    BY <1>5, <2>1, ExecuteMov, ExecuteData DEF Mov
  <2>3. Exec(c, i) = write_op(c, i.dst, read_op(c, i.src))
    BY <1>5, ExecData
  <2>4. read_op(c, i.src) = Value(c, i.src)
    BY <1>5, OpsAgree
  <2>5. \A v : write_op(c, i.dst, v) = Store(c, i.dst, v)
    BY <1>5, OpsAgree
  <2> QED
    BY <2>2, <2>3, <2>4, <2>5
<1>6. CASE i.mn = "MOV_DPTR_IMM"
  BY <1>6, ExecData, ExecuteData DEF MovDptr
<1>7. /\ i.mn = "MOV" => \/ i.dst.mode = "C" /\ i.src.mode = "BIT"
                         \/ i.dst.mode = "BIT" /\ i.src.mode = "C"
                         \/ i.dst.mode \in PlaceModes /\ i.src.mode \in ValueModes
      /\ i.mn = "MOV_DIRECT_DIRECT" => i.dst.mode \in PlaceModes /\ i.src.mode \in ValueModes
  BY <1>1, DataRows DEF PlaceModes, ValueModes
<1> QED
  BY <1>3, <1>4, <1>5, <1>6, <1>7

\* Both exchange the same.
LEMMA ExchangeAgrees ==
    ASSUME NEW c \in Cpu, NEW i, IsInstruction(i), i.mn \in {"XCH", "XCHD", "SWAP", "RL", "RR"}
    PROVE  Exec(c, i) = Execute(c, i)
<1>1. PICK size : <<i.mn, i.dst.mode, i.src.mode, size>> \in Table
  BY DEF IsInstruction
<1>2. IsOperand(i.dst) /\ c.acc \in Bytes
  BY DEF IsInstruction, Cpu
<1>3. CASE i.mn = "XCH"
  <2>1. i.dst.mode \in PlaceModes /\ i.dst.mode \in ValueModes
    BY <1>1, <1>3, DataRows DEF PlaceModes, ValueModes
  <2>2. read_op(c, i.dst) = Value(c, i.dst)
    BY <2>1, OpsAgree
  <2>3. \A d, v : write_op(d, i.dst, v) = Store(d, i.dst, v)
    BY <2>1, OpsAgree
  <2>4. Exec(c, i) = write_op([c EXCEPT !.acc = read_op(c, i.dst)], i.dst, c.acc)
    BY <1>3, ExecData DEF exec_xch
  <2>5. Execute(c, i) = Store([c EXCEPT !.acc = Value(c, i.dst)], i.dst, c.acc)
    BY <1>3, ExecuteData DEF Xch
  <2> QED
    BY <2>2, <2>3, <2>4, <2>5
<1>4. CASE i.mn = "XCHD"
  <2> DEFINE a == AtCell(c, i.dst.arg)
  <2>1. i.dst.arg \in 0..(Regs - 1)
    BY <1>1, <1>2, <1>4, DataRows, OperandArgs
  <2>2. a \in Bytes
    BY <2>1, RegCellType
  <2>3. c.iram[a] \in Bytes
    BY <2>2 DEF Cpu
  <2>4. c.iram[BankBase(c) + i.dst.arg] = a
    BY DEF AtCell, RegCell, BankBase, Bank
  <2> HIDE DEF a
  <2>5. Execute(c, i) = [c EXCEPT !.acc = c.acc - (c.acc % Nibble) + (c.iram[a] % Nibble),
                           !.iram[a] = c.iram[a] - (c.iram[a] % Nibble) + (c.acc % Nibble)]
    BY <1>4, ExecuteData DEF Xchd, a
  <2> DEFINE g == c.iram[BankBase(c) + i.dst.arg]
  <2>6. Exec(c, i) = [c EXCEPT !.acc = (c.acc \div Nibble) * Nibble + (c.iram[a] % Nibble),
                        !.iram[a] = (c.iram[a] \div Nibble) * Nibble + (c.acc % Nibble)]
    <3>1. Exec(c, i) = exec_xchd(c, i.dst)
      BY <1>4, ExecData
    <3>2. exec_xchd(c, i.dst) = [c EXCEPT !.acc = (@ \div Nibble) * Nibble + (c.iram[g] % Nibble),
                                   !.iram[g] = (@ \div Nibble) * Nibble + (c.acc % Nibble)]
      BY DEF exec_xchd
    <3> HIDE DEF g
    <3>3. g = a
      BY <2>4 DEF g
    <3> QED
      BY <3>1, <3>2, <3>3
  <2>7. /\ c.acc - (c.acc % Nibble) = (c.acc \div Nibble) * Nibble
        /\ c.iram[a] - (c.iram[a] % Nibble) = (c.iram[a] \div Nibble) * Nibble
    BY <1>2, <2>3, ByteResults
  <2> QED
    BY <2>5, <2>6, <2>7
<1>5. CASE i.mn = "SWAP"
  BY <1>5, ExecData, ExecuteData DEF Swap
<1>6. CASE i.mn = "RL"
  <2>1. ((2 * c.acc) % Byte) + (c.acc \div Half) = (c.acc * 2 + (c.acc \div Half)) % Byte
    BY <1>2, ByteResults
  <2>2. Exec(c, i) = [c EXCEPT !.acc = (c.acc * 2 + (c.acc \div Half)) % Byte]
    BY <1>6, ExecData DEF exec_rl
  <2>3. Execute(c, i) = [c EXCEPT !.acc = ((2 * c.acc) % Byte) + (c.acc \div Half)]
    BY <1>6, ExecuteData DEF RotateAround
  <2> QED
    BY <2>1, <2>2, <2>3
<1>7. CASE i.mn = "RR"
  <2>1. (c.acc \div 2) + (c.acc % 2) * Half = ((c.acc \div 2) + c.acc * Half) % Byte
    BY <1>2, ByteResults
  <2>2. Exec(c, i) = [c EXCEPT !.acc = ((c.acc \div 2) + c.acc * Half) % Byte]
    BY <1>7, ExecData DEF exec_rr
  <2>3. Execute(c, i) = [c EXCEPT !.acc = (c.acc \div 2) + (c.acc % 2) * Half]
    BY <1>7, ExecuteData DEF RotateBack
  <2> QED
    BY <2>1, <2>2, <2>3
<1> QED
  BY <1>3, <1>4, <1>5, <1>6, <1>7

\* Both read and write code and external memory the same.
LEMMA BusAgrees ==
    ASSUME NEW c \in Cpu, NEW i,
           i.mn \in {"MOVC_A_DPTR", "MOVC_A_PC", "MOVX_A_DPTR", "MOVX_A_AT_RI", "MOVX_DPTR_A",
                     "MOVX_AT_RI_A"}
    PROVE  Exec(c, i) = Execute(c, i)
<1>1. c.iram[BankBase(c) + i.dst.arg] = AtCell(c, i.dst.arg)
  BY DEF AtCell, RegCell, BankBase, Bank
<1>2. CASE i.mn \in {"MOVC_A_DPTR", "MOVC_A_PC"}
  BY <1>2, ExecBits, ExecuteBits DEF MovcADptr, MovcAPc
<1>3. CASE i.mn \in {"MOVX_A_DPTR", "MOVX_A_AT_RI"}
  BY <1>1, <1>3, ExecBits, ExecuteBits DEF MovxRead
<1>4. CASE i.mn \in {"MOVX_DPTR_A", "MOVX_AT_RI_A"}
  BY <1>1, <1>4, ExecBits, ExecuteBits DEF MovxWrite
<1> QED
  BY <1>2, <1>3, <1>4

\* Both count the same.
LEMMA CountAgrees ==
    ASSUME NEW c \in Cpu, NEW i, IsInstruction(i), i.mn \in {"INC", "DEC"}
    PROVE  Exec(c, i) = Execute(c, i)
<1>1. PICK size : <<i.mn, i.dst.mode, i.src.mode, size>> \in Table
  BY DEF IsInstruction
<1>2. CASE i.dst.mode = "DPTR"
  <2>1. i.mn = "INC"
    BY <1>1, <1>2, DataRows DEF PlaceModes
  <2> QED
    BY <1>2, <2>1, ExecData, ExecuteData DEF exec_inc, Inc
<1>3. CASE i.dst.mode \in PlaceModes
  <2>1. i.dst.mode \in ValueModes /\ i.dst.mode # "DPTR"
    BY <1>3 DEF PlaceModes, ValueModes
  <2>2. read_op(c, i.dst) = Value(c, i.dst)
    BY <2>1, OpsAgree
  <2>3. \A v : write_op(c, i.dst, v) = Store(c, i.dst, v)
    BY <1>3, OpsAgree
  <2> QED
    BY <2>1, <2>2, <2>3, ExecData, ExecuteData DEF exec_inc, Inc, Dec
<1> QED
  BY <1>1, <1>2, <1>3, DataRows

\* ANL C,bit and ORL C,bit.
LEMMA CarryLogicAgrees ==
    ASSUME NEW c \in Cpu, NEW i, IsInstruction(i), i.mn \in {"ANL", "ORL"},
           i.dst.mode = "C", i.src.mode = "BIT"
    PROVE  Exec(c, i) = Execute(c, i)
<1> DEFINE x == Carry(c)
           y == ReadBit(c, i.src.arg)
<1>1. i.src.arg \in Bytes /\ 0 \in 0..1
  BY OperandArgs DEF IsInstruction
<1>2. x \in 0..1 /\ y \in 0..1
  BY <1>1, FlagType, BitType
<1>3. read_op(c, i.dst) = x /\ read_op(c, i.src) = y
  BY OpsAgree
<1>4. \A v : write_op(c, i.dst, v) = SetCarry(c, Truth(v # 0))
  BY OpsAgree
<1>5. SetCarry(c, x) = c
  <2>1. c.psw \in Bytes /\ CyBit \in 0..(Bits - 1) /\ x = Bit(c.psw, CyBit)
    BY Sizes DEF Cpu, Carry
  <2>2. PutBit(c.psw, CyBit, x) = c.psw
    <3>1. PutBit(c.psw, CyBit, Bit(c.psw, CyBit)) = c.psw
      BY <1>1, <2>1, PutBitAgain
    <3> QED
      BY <2>1, <3>1
  <2>3. SetCarry(c, x) = [c EXCEPT !.psw = PutBit(c.psw, CyBit, x)]
    BY <1>2, FlagType
  <2> HIDE DEF x
  <2>4. SetCarry(c, x) = [c EXCEPT !.psw = c.psw]
    BY <2>2, <2>3
  <2> QED
    BY <2>4 DEF Cpu
<1>6. Exec(c, i) = SetCarry(c, Truth(Combine(i.mn, x, y) # 0))
  <2>1. Exec(c, i) = write_op(c, i.dst, Combine(i.mn, read_op(c, i.dst), read_op(c, i.src)))
    BY ExecData DEF Logic
  <2> QED
    BY <1>3, <1>4, <2>1
<1>7. x \in Bytes /\ y \in Bytes
  BY <1>2, Sizes
<1>8. Plain(c, i.src) = y /\ FromBit(i)
  BY DEF Plain, FromBit
<1> HIDE DEF x, y
<1>9. Combine(i.mn, x, y) = CombineBits(i.mn, x, y)
  BY <1>2, <1>7, CombineType
<1>10. CASE i.mn = "ANL"
  <2>1. Combine(i.mn, x, y) = IF x = 1 /\ y = 1 THEN 1 ELSE 0
    BY <1>2, <1>9, <1>10, CombineBitsType
  <2>2. Truth(Combine(i.mn, x, y) # 0) = IF y = 0 THEN 0 ELSE x
    BY <1>2, <2>1 DEF Truth
  <2>3. Execute(c, i) = IF y = 0 THEN SetCarry(c, 0) ELSE c
    BY <1>8, <1>10, ExecuteLogic DEF AnlCarry
  <2> QED
    BY <1>5, <1>6, <2>2, <2>3
<1>11. CASE i.mn = "ORL"
  <2>1. Combine(i.mn, x, y) = IF x = 0 /\ y = 0 THEN 0 ELSE 1
    BY <1>2, <1>9, <1>11, CombineBitsType
  <2>2. Truth(Combine(i.mn, x, y) # 0) = IF y = 1 THEN 1 ELSE x
    BY <1>2, <2>1 DEF Truth
  <2>3. Execute(c, i) = IF y = 1 THEN SetCarry(c, 1) ELSE c
    BY <1>8, <1>11, ExecuteLogic DEF OrlCarry
  <2> QED
    BY <1>5, <1>6, <2>2, <2>3
<1> QED
  BY <1>10, <1>11

\* Both do the same logic.
LEMMA LogicAgrees ==
    ASSUME NEW c \in Cpu, NEW i, IsInstruction(i), i.mn \in LogicNames, i.src.mode # "BIT_NOT"
    PROVE  Exec(c, i) = Execute(c, i)
<1>1. PICK size : <<i.mn, i.dst.mode, i.src.mode, size>> \in Table
  BY DEF IsInstruction
<1>2. IsOperand(i.dst) /\ IsOperand(i.src) /\ 0 \in 0..1
  BY DEF IsInstruction
<1>3. CASE i.mn \in {"ANL", "ORL"} /\ i.dst.mode = "C" /\ i.src.mode = "BIT"
  BY <1>3, CarryLogicAgrees
<1>4. CASE /\ i.mn \in {"ANL", "ORL", "XRL"}
           /\ i.dst.mode \in PlaceModes /\ i.src.mode \in ValueModes
  <2>1. i.dst.mode \in ValueModes /\ ~FromBit(i)
    BY <1>4 DEF PlaceModes, ValueModes, FromBit
  <2>2. read_op(c, i.dst) = Value(c, i.dst) /\ read_op(c, i.src) = Value(c, i.src)
    BY <1>4, <2>1, OpsAgree
  <2>3. \A v : write_op(c, i.dst, v) = Store(c, i.dst, v)
    BY <1>4, OpsAgree
  <2>4. Exec(c, i) = Store(c, i.dst, Combine(i.mn, Value(c, i.dst), Value(c, i.src)))
    BY <1>4, <2>2, <2>3, ExecData DEF Logic
  <2>5. Execute(c, i) = Store(c, i.dst, Combine(i.mn, Value(c, i.dst), Value(c, i.src)))
    BY <1>4, <2>1, ExecuteLogic, ExecuteData DEF Anl, Orl, Xrl
  <2> QED
    BY <2>4, <2>5
<1>5. CASE i.mn \in {"CLR", "CPL"} /\ i.dst.mode = "A"
  BY <1>5, ExecBits, ExecuteBits DEF OnA, ClrA, CplA, exec_cpl
<1>6. CASE i.mn \in {"CLR", "CPL", "SETB"} /\ i.dst.mode = "C"
  <2>1. \A v : write_op(c, i.dst, v) = SetCarry(c, Truth(v # 0))
    BY <1>6, OpsAgree
  <2>2. /\ i.mn = "CLR" => Exec(c, i) = SetCarry(c, Truth(0 # 0))
        /\ i.mn = "SETB" => Exec(c, i) = SetCarry(c, Truth(1 # 0))
    BY <1>6, <2>1, ExecBits
  <2>3. i.mn = "CPL" => Exec(c, i) = SetCarry(c, 1 - Carry(c))
    BY <1>6, ExecBits DEF exec_cpl
  <2> QED
    BY <1>6, <2>2, <2>3, TruthOf, ExecuteBits DEF OnA, ClearBit, CplBit, SetBit
<1>7. CASE i.mn \in {"CLR", "CPL", "SETB"} /\ i.dst.mode = "BIT"
  <2>1. \A v : write_op(c, i.dst, v) = WriteBit(c, i.dst.arg, Truth(v # 0))
    BY <1>7, OpsAgree
  <2>2. /\ i.mn = "CLR" => Exec(c, i) = WriteBit(c, i.dst.arg, Truth(0 # 0))
        /\ i.mn = "SETB" => Exec(c, i) = WriteBit(c, i.dst.arg, Truth(1 # 0))
    BY <1>7, <2>1, ExecBits
  <2>3. i.mn = "CPL" => Exec(c, i) = WriteBit(c, i.dst.arg, Truth(ReadBit(c, i.dst.arg) = 0))
    BY <1>7, ExecBits DEF exec_cpl
  <2>4. ReadBit(c, i.dst.arg) \in 0..1
    BY <1>2, <1>7, OperandArgs, BitType
  <2>5. Truth(ReadBit(c, i.dst.arg) = 0) = 1 - ReadBit(c, i.dst.arg)
    BY <2>4, TruthOf
  <2> QED
    BY <1>7, <2>2, <2>3, <2>5, TruthOf, ExecuteBits DEF OnA, ClearBit, CplBit, SetBit
<1>8. /\ i.mn \in {"ANL", "ORL"} => \/ i.dst.mode = "C" /\ i.src.mode = "BIT"
                                    \/ i.dst.mode \in PlaceModes /\ i.src.mode \in ValueModes
      /\ i.mn = "XRL" => i.dst.mode \in PlaceModes /\ i.src.mode \in ValueModes
  BY <1>1, DataRows
<1>9. /\ i.mn \in {"CLR", "CPL"} => i.dst.mode \in {"A", "C", "BIT"}
      /\ i.mn = "SETB" => i.dst.mode \in {"C", "BIT"}
  BY <1>1, BitRows
<1> QED
  BY <1>3, <1>4, <1>5, <1>6, <1>7, <1>8, <1>9 DEF LogicNames

\* Two steps up make two.
LEMMA SpTwice ==
    ASSUME NEW s \in Bytes
    PROVE  /\ (((s + 1) % Byte) + 1) % Byte = (s + 2) % Byte
           /\ (s + 1) % Byte \in Bytes /\ (s + 2) % Byte \in Bytes /\ (s - 1) % Byte \in Bytes
           /\ (s - 2) % Byte \in Bytes
           /\ s + 1 < Byte => (s + 1) % Byte = s + 1
           /\ s + 2 < Byte => (s + 2) % Byte = s + 2
           /\ s >= 1 => (s - 1) % Byte = s - 1
           /\ s >= 2 => (s - 2) % Byte = s - 2
<1>1. s \in 0..(Byte - 1) /\ Byte \in Nat \ {0} /\ Byte >= 4
  BY Sizes DEF Bytes
<1>2. \A x \in Int : x \in 0..(Byte - 1) => x % Byte = x
  BY <1>1, Wrap
<1>3. \A x \in Byte..(2 * Byte - 1) : x % Byte = x - Byte
  <2>1. \A x \in Byte..(2 * Byte - 1) : x \in Int
    BY <1>1
  <2> QED
    BY <1>1, <2>1, Wrap
<1>4. s + 1 \in Int /\ s + 2 \in Int /\ s - 1 \in Int /\ s - 2 \in Int
  BY <1>1
<1>5. \A x \in Int : x % Byte \in Bytes
  BY <1>1, Wrap DEF Bytes
<1>6. (((s + 1) % Byte) + 1) % Byte = (s + 2) % Byte
  <2>1. CASE s + 1 < Byte
    <3>1. (s + 1) % Byte = s + 1
      BY <1>1, <1>2, <1>4, <2>1
    <3> QED
      BY <1>1, <3>1
  <2>2. CASE s = Byte - 1
    <3>1. (s + 1) % Byte = 0
      <4>1. s + 1 = Byte /\ s + 1 \in Byte..(2 * Byte - 1)
        BY <1>1, <2>2
      <4>2. (s + 1) % Byte = (s + 1) - Byte
        BY <1>3, <4>1
      <4> QED
        BY <1>1, <4>1, <4>2
    <3>2. (s + 2) % Byte = 1
      <4>1. s + 2 = Byte + 1 /\ s + 2 \in Byte..(2 * Byte - 1)
        BY <1>1, <2>2
      <4>2. (s + 2) % Byte = (s + 2) - Byte
        BY <1>3, <4>1
      <4> QED
        BY <1>1, <4>1, <4>2
    <3>3. 1 % Byte = 1
      BY <1>1, <1>2
    <3>4. 0 + 1 = 1
      OBVIOUS
    <3> QED
      BY <3>1, <3>2, <3>3, <3>4
  <2> QED
    BY <1>1, <2>1, <2>2
<1> QED
  BY <1>1, <1>2, <1>4, <1>5, <1>6

\* Both branch to the same place.
LEMMA BranchAgrees ==
    ASSUME NEW c \in Cpu, NEW i, IsInstruction(i),
           i.mn \in {"JC", "JNC", "JZ", "JNZ", "JB", "JNB", "JBC", "SJMP", "DJNZ"} \cup CompareNames
    PROVE  Exec(c, i) = Execute(c, i)
<1>1. PICK size : <<i.mn, i.dst.mode, i.src.mode, size>> \in Table
  BY DEF IsInstruction
<1>2. IsOperand(i.dst) /\ IsOperand(i.src) /\ 0 \in 0..1
  BY DEF IsInstruction
<1>3. CASE i.mn \in {"JC", "JNC", "JZ", "JNZ", "SJMP"}
  <2>1. Rel(i) = i.dst.arg
    BY <1>1, <1>3, BitRows DEF Rel
  <2>2. Carry(c) \in 0..1
    BY <1>2, FlagType
  <2> QED
    BY <1>3, <2>1, <2>2, ExecHops, ExecuteHops, ExecuteBitHops
<1>4. CASE i.mn \in {"JB", "JNB", "JBC"}
  <2>1. i.dst.mode = "BIT" /\ i.src.mode = "REL8"
    BY <1>1, <1>4, BitRows
  <2>2. Rel(i) = i.src.arg
    BY <2>1 DEF Rel
  <2>3. ReadBit(c, i.dst.arg) \in 0..1
    BY <1>2, <2>1, OperandArgs, BitType
  <2>4. read_op(c, i.dst) = ReadBit(c, i.dst.arg)
    BY <2>1, OpsAgree
  <2>5. write_op(c, i.dst, 0) = WriteBit(c, i.dst.arg, 0)
    <3>1. write_op(c, i.dst, 0) = WriteBit(c, i.dst.arg, Truth(0 # 0))
      BY <2>1, OpsAgree
    <3> QED
      BY <3>1, TruthOf
  <2> QED
    BY <1>4, <2>2, <2>3, <2>4, <2>5, ExecHops, ExecLoops, ExecuteBitHops
<1>5. CASE i.mn = "DJNZ"
  <2>1. i.dst.mode \in {"DIRECT", "RN"} /\ i.src.mode = "REL8"
    BY <1>1, <1>5, BitRows
  <2>2. i.dst.mode \in PlaceModes /\ i.dst.mode \in ValueModes /\ Rel(i) = i.src.arg
    BY <2>1 DEF PlaceModes, ValueModes, Rel
  <2>3. read_op(c, i.dst) = Value(c, i.dst)
    BY <2>2, OpsAgree
  <2>4. \A v : write_op(c, i.dst, v) = Store(c, i.dst, v)
    BY <2>2, OpsAgree
  <2> QED
    BY <1>5, <2>2, <2>3, <2>4, ExecLoops, ExecuteLoops
<1>6. CASE i.mn \in CompareNames
  <2>1. i.lhs.mode \in ValueModes
    BY <1>6, ComparedForm DEF CompareNames, ValueModes
  <2>2. i.dst.mode = "REL8" /\ i.src.mode \in {"IMM8", "DIRECT"}
    BY <1>1, <1>6, BitRows DEF CompareNames
  <2>3. i.src.mode \in ValueModes /\ Rel(i) = i.dst.arg
    BY <2>2 DEF ValueModes, Rel
  <2>4. read_op(c, i.lhs) = Value(c, i.lhs) /\ read_op(c, i.src) = Value(c, i.src)
    BY <2>1, <2>3, OpsAgree
  <2> QED
    BY <1>6, <2>3, <2>4, ExecCompares, ExecuteLoops
<1> QED
  BY <1>3, <1>4, <1>5, <1>6

\* Calls, returns, pushes and pops.
LEMMA StackAgrees ==
    ASSUME NEW c \in Cpu, NEW i, IsInstruction(i),
           i.mn \in {"NOP", "AJMP", "LJMP", "JMPA_DPTR", "ACALL", "LCALL", "RET", "RETI", "PUSH", "POP"}
    PROVE  Exec(c, i) = Execute(c, i)
<1>1. PICK size : <<i.mn, i.dst.mode, i.src.mode, size>> \in Table
  BY DEF IsInstruction
<1>2. \A x : exec_lcall(c, x) = Call(c, x)
  <2>1. (((c.sp + 1) % Byte) + 1) % Byte = (c.sp + 2) % Byte
    <3>1. c.sp \in Bytes
      BY DEF Cpu
    <3> QED
      BY <3>1, SpTwice
  <2> QED
    BY <2>1 DEF exec_lcall, Call, Jump, PushPc, Stacked, Cpu
<1>3. CASE i.mn \in {"ACALL", "LCALL"}
  <2>1. CASE i.mn = "ACALL"
    <3>1. Exec(c, i) = exec_lcall(c, InPage(c, i.dst.arg))
      BY <2>1, ExecJumps
    <3>2. Execute(c, i) = Call(c, InPage(c, i.dst.arg))
      BY <2>1, ExecuteBranches
    <3> QED
      BY <1>2, <3>1, <3>2
  <2>2. CASE i.mn = "LCALL"
    <3>1. Exec(c, i) = exec_lcall(c, i.dst.arg)
      BY <2>2, ExecJumps
    <3>2. Execute(c, i) = Call(c, i.dst.arg)
      BY <2>2, ExecuteBranches
    <3> QED
      BY <1>2, <3>1, <3>2
  <2> QED
    BY <1>3, <2>1, <2>2
<1>4. CASE i.mn \in {"RET", "RETI"}
  <2>1. Exec(c, i) = exec_ret(c)
    BY <1>4, ExecJumps
  <2>2. Execute(c, i) = Return(c)
    BY <1>4, ExecuteBranches
  <2>3. exec_ret(c) = Return(c)
    BY DEF exec_ret, Return, Cpu
  <2> QED
    BY <2>1, <2>2, <2>3
<1>5. CASE i.mn \in {"PUSH", "POP"}
  <2>1. i.dst.mode = "DIRECT"
    BY <1>1, <1>5, OtherRows
  <2>2. \A d : read_op(d, i.dst) = ReadDirect(d, i.dst.arg)
    BY <2>1 DEF read_op
  <2>3. \A d, v : write_op(d, i.dst, v) = WriteDirect(d, i.dst.arg, v)
    BY <2>1 DEF write_op
  <2>4. exec_push(c, i.dst) = Push(c, i.dst.arg)
    BY <2>2 DEF exec_push, Push
  <2>5. exec_pop(c, i.dst) = Pop(c, i.dst.arg)
    BY <2>3 DEF exec_pop, Pop
  <2>6. i.mn = "PUSH" => Exec(c, i) = exec_push(c, i.dst) /\ Execute(c, i) = Push(c, i.dst.arg)
    BY ExecJumps, ExecuteBranches
  <2>7. i.mn = "POP" => Exec(c, i) = exec_pop(c, i.dst) /\ Execute(c, i) = Pop(c, i.dst.arg)
    BY ExecJumps, ExecuteBranches
  <2> QED
    BY <1>5, <2>4, <2>5, <2>6, <2>7
<1>6. CASE i.mn \in {"NOP", "AJMP", "LJMP", "JMPA_DPTR"}
  <2>1. /\ i.mn = "NOP" => Exec(c, i) = c
        /\ i.mn = "AJMP" => Exec(c, i) = [c EXCEPT !.pc = InPage(c, i.dst.arg)]
        /\ i.mn = "LJMP" => Exec(c, i) = [c EXCEPT !.pc = i.dst.arg]
        /\ i.mn = "JMPA_DPTR" => Exec(c, i) = [c EXCEPT !.pc = (c.dptr + c.acc) % Word]
    BY ExecJumps
  <2>2. /\ i.mn = "NOP" => Execute(c, i) = c
        /\ i.mn = "AJMP" => Execute(c, i) = Jump(c, InPage(c, i.dst.arg))
        /\ i.mn = "LJMP" => Execute(c, i) = Jump(c, i.dst.arg)
        /\ i.mn = "JMPA_DPTR" => Execute(c, i) = JumpADptr(c)
    BY ExecuteBranches
  <2> QED
    BY <1>6, <2>1, <2>2 DEF Jump, JumpADptr
<1> QED
  BY <1>3, <1>4, <1>5, <1>6

\* The exec function does what the case of cpu_step does.
LEMMA ExecAgrees ==
    ASSUME NEW c \in Cpu, NEW i, IsInstruction(i), i.src.mode # "BIT_NOT"
    PROVE  Exec(c, i) = Execute(c, i)
<1>1. i.mn \in Mnemonics
  BY RowSize DEF IsInstruction
<1>2. \/ i.mn \in {"MOV", "MOV_DIRECT_DIRECT", "MOV_DPTR_IMM"}
      \/ i.mn \in {"XCH", "XCHD", "SWAP", "RL", "RR"}
      \/ i.mn \in {"MOVC_A_DPTR", "MOVC_A_PC", "MOVX_A_DPTR", "MOVX_A_AT_RI", "MOVX_DPTR_A",
                   "MOVX_AT_RI_A"}
      \/ i.mn \in {"INC", "DEC"}
      \/ i.mn \in LogicNames
      \/ i.mn \in {"JC", "JNC", "JZ", "JNZ", "JB", "JNB", "JBC", "SJMP", "DJNZ"} \cup CompareNames
      \/ i.mn \in {"NOP", "AJMP", "LJMP", "JMPA_DPTR", "ACALL", "LCALL", "RET", "RETI", "PUSH", "POP"}
  BY <1>1 DEF Mnemonics, LogicNames, CompareNames
<1> QED
  BY <1>2, MovAgrees, ExchangeAgrees, BusAgrees, CountAgrees, LogicAgrees, BranchAgrees, StackAgrees

------------------------------------------------------------------------------
\* The stack

\* What a value on the stack changes.
Pushed(c, d, v) ==
    LET top == (c.sp + 1) % Byte
    IN  /\ d \in Cpu /\ top \in Bytes
        /\ d.sp = top /\ d.iram = [c.iram EXCEPT ![top] = v]
        /\ d.acc = c.acc /\ d.b = c.b /\ d.psw = c.psw /\ d.dptr = c.dptr

\* A value goes on top of the stack.
LEMMA StackedType ==
    ASSUME NEW c \in Cpu, NEW v \in Bytes
    PROVE  Pushed(c, Stacked(c, v), v) /\ Stacked(c, v).pc = c.pc
<1> DEFINE top == (c.sp + 1) % Byte
           f == [c.iram EXCEPT ![top] = v]
           d == [c EXCEPT !.sp = top, !.iram = f]
<1>1. top \in Bytes
  BY SpTwice DEF Cpu
<1>2. Stacked(c, v) = d
  BY DEF Stacked
<1> HIDE DEF top
<1>3. f \in [Bytes -> Bytes]
  BY <1>1 DEF Cpu
<1> HIDE DEF f
<1>4. /\ d \in Cpu /\ d.sp = top /\ d.iram = f /\ d.pc = c.pc
      /\ d.acc = c.acc /\ d.b = c.b /\ d.psw = c.psw /\ d.dptr = c.dptr
  BY <1>1, <1>3 DEF Cpu
<1> HIDE DEF d
<1> QED
  BY <1>1, <1>2, <1>4 DEF Pushed, top, f

\* Two values on the stack, and the CPU elsewhere: a call, or an interrupt.
LEMMA CallType ==
    ASSUME NEW c \in Cpu, NEW x \in 0..(Word - 1)
    PROVE  /\ c.pc % Byte \in Bytes /\ c.pc \div Byte \in Bytes
           /\ LET lo == Stacked(c, c.pc % Byte)
                  hi == Call(c, x)
              IN  /\ Pushed(c, lo, c.pc % Byte) /\ Pushed(lo, hi, c.pc \div Byte)
                  /\ hi.pc = x
<1> DEFINE lo == Stacked(c, c.pc % Byte)
           hi == Stacked(lo, lo.pc \div Byte)
<1>1. c.pc \in 0..(Word - 1)
  BY DEF Cpu
<1>2. c.pc % Byte \in Bytes /\ c.pc \div Byte \in Bytes
  BY <1>1, Sizes, WordBytes
<1>3. Pushed(c, lo, c.pc % Byte) /\ lo.pc = c.pc
  BY <1>2, StackedType
<1>4. lo \in Cpu
  BY <1>3 DEF Pushed
<1>5. Call(c, x) = [Stacked(lo, c.pc \div Byte) EXCEPT !.pc = x]
  BY DEF Call, Jump, PushPc
<1> HIDE DEF lo
<1> DEFINE d == Stacked(lo, c.pc \div Byte)
           e == [d EXCEPT !.pc = x]
<1>6. Pushed(lo, d, c.pc \div Byte)
  BY <1>2, <1>4, StackedType
<1> HIDE DEF d
<1>7. d \in Cpu
  BY <1>6 DEF Pushed
<1>8. /\ e \in Cpu /\ e.pc = x /\ e.sp = d.sp /\ e.iram = d.iram
      /\ e.acc = d.acc /\ e.b = d.b /\ e.psw = d.psw /\ e.dptr = d.dptr
  BY <1>7 DEF Cpu
<1>9. Call(c, x) = e
  BY <1>5 DEF d
<1> HIDE DEF e
<1>10. Pushed(lo, e, c.pc \div Byte)
  BY <1>6, <1>8 DEF Pushed
<1> QED
  BY <1>2, <1>3, <1>8, <1>9, <1>10 DEF lo

\* RET takes PC off the stack.
LEMMA ReturnType ==
    ASSUME NEW c \in Cpu
    PROVE  LET d == Return(c)
           IN  /\ d \in Cpu /\ d.sp = (c.sp - 2) % Byte
               /\ d.pc = c.iram[c.sp] * Byte + c.iram[(c.sp - 1) % Byte]
               /\ d.acc = c.acc /\ d.b = c.b /\ d.psw = c.psw /\ d.dptr = c.dptr /\ d.iram = c.iram
<1> DEFINE s == (c.sp - 2) % Byte
           x == c.iram[c.sp] * Byte + c.iram[(c.sp - 1) % Byte]
<1>1. s \in Bytes /\ (c.sp - 1) % Byte \in Bytes /\ c.sp \in Bytes
  BY SpTwice DEF Cpu
<1>2. c.iram[c.sp] \in Bytes /\ c.iram[(c.sp - 1) % Byte] \in Bytes
  BY <1>1 DEF Cpu
<1>3. x \in 0..(Word - 1)
  <2>1. 0 \in 0..(Word - 1)
    BY Sizes
  <2> QED
    BY <1>2, <2>1, WordBytes
<1>4. Return(c) = [c EXCEPT !.pc = x, !.sp = s]
  BY DEF Return
<1> HIDE DEF s, x
<1>5. LET d == [c EXCEPT !.pc = x, !.sp = s]
      IN  /\ d \in Cpu /\ d.sp = s /\ d.pc = x
          /\ d.acc = c.acc /\ d.b = c.b /\ d.psw = c.psw /\ d.dptr = c.dptr /\ d.iram = c.iram
  BY <1>1, <1>3 DEF Cpu
<1> QED
  BY <1>4, <1>5 DEF s, x

\* PUSH puts a byte on top of the stack.
LEMMA PushType ==
    ASSUME NEW c \in Cpu, NEW a \in Bytes
    PROVE  LET v == ReadDirect([c EXCEPT !.sp = (c.sp + 1) % Byte], a)
           IN  v \in Bytes /\ Pushed(c, Push(c, a), v)
<1> DEFINE top == (c.sp + 1) % Byte
           up == [c EXCEPT !.sp = top]
           v == ReadDirect(up, a)
           f == [c.iram EXCEPT ![top] = v]
           d == [up EXCEPT !.iram = f]
<1>1. top \in Bytes
  BY SpTwice DEF Cpu
<1> HIDE DEF top
<1>2. /\ up \in Cpu /\ up.sp = top /\ up.iram = c.iram
      /\ up.acc = c.acc /\ up.b = c.b /\ up.psw = c.psw /\ up.dptr = c.dptr
  BY <1>1 DEF Cpu
<1>3. Push(c, a) = [up EXCEPT !.iram[up.sp] = ReadDirect(up, a)]
  BY DEF Push, top
<1> HIDE DEF up
<1>4. v \in Bytes
  BY <1>2, Sizes, DirectType
<1>5. Push(c, a) = d
  BY <1>2, <1>3
<1> HIDE DEF v
<1>6. f \in [Bytes -> Bytes]
  BY <1>1, <1>4 DEF Cpu
<1> HIDE DEF f
<1>7. /\ d \in Cpu /\ d.sp = up.sp /\ d.iram = f
      /\ d.acc = up.acc /\ d.b = up.b /\ d.psw = up.psw /\ d.dptr = up.dptr
  BY <1>2, <1>6 DEF Cpu
<1> HIDE DEF d
<1>8. Pushed(c, d, v)
  BY <1>1, <1>2, <1>7 DEF Pushed, top, f
<1> QED
  BY <1>4, <1>5, <1>8 DEF v, up, top

\* POP writes, then moves SP.
LEMMA PopType ==
    ASSUME NEW c \in Cpu, NEW a \in Bytes
    PROVE  LET stored == WriteDirect(c, a, c.iram[c.sp])
               d == Pop(c, a)
           IN  /\ stored \in Cpu /\ d \in Cpu
               /\ d.sp = (stored.sp - 1) % Byte
               /\ d.acc = stored.acc /\ d.b = stored.b /\ d.psw = stored.psw
               /\ d.dptr = stored.dptr /\ d.iram = stored.iram /\ d.pc = stored.pc
<1> DEFINE stored == WriteDirect(c, a, c.iram[c.sp])
           s == (stored.sp - 1) % Byte
           d == [stored EXCEPT !.sp = s]
<1>1. c.iram[c.sp] \in Bytes
  BY DEF Cpu
<1>2. stored \in Cpu
  BY <1>1, DirectType
<1>3. Pop(c, a) = d
  BY DEF Pop
<1> HIDE DEF stored
<1>4. s \in Bytes
  <2>1. stored.sp \in Bytes
    BY <1>2 DEF Cpu
  <2> QED
    BY <2>1, SpTwice
<1> HIDE DEF s
<1>5. /\ d \in Cpu /\ d.sp = s /\ d.acc = stored.acc /\ d.b = stored.b /\ d.psw = stored.psw
      /\ d.dptr = stored.dptr /\ d.iram = stored.iram /\ d.pc = stored.pc
  BY <1>2, <1>4 DEF Cpu
<1> QED
  BY <1>2, <1>3, <1>5 DEF s, stored

------------------------------------------------------------------------------
\* Every instruction keeps the CPU a CPU

\* No instruction leaves a register or a cell out of range.
LEMMA ExecuteType ==
    ASSUME NEW c \in Cpu, NEW i, IsInstruction(i)
    PROVE  Execute(c, i) \in Cpu
<1>1. PICK size : <<i.mn, i.dst.mode, i.src.mode, size>> \in Table
  BY DEF IsInstruction
<1>2. i.mn \in Mnemonics
  BY <1>1, RowSize
<1>3. IsOperand(i.dst)
  BY DEF IsInstruction
<1>4. CASE i.mn \in MoveNames \cup LogicNames \cup {"INC", "DEC", "DJNZ", "JBC"}
  <2>1. Effect(c, Execute(c, i), i.dst)
    BY <1>4, MovEffect, ExchangeEffect, TurnEffect, BusEffect, LogicEffect, CountEffect, LoopEffect
       DEF MoveNames
  <2> QED
    BY <2>1 DEF Effect
<1>5. CASE i.mn \in JumpNames \cup CompareNames
  BY <1>5, JumpQuiet, CompareQuiet DEF Quiet
<1>6. CASE i.mn \in {"ACALL", "LCALL"}
  <2>1. \E x \in 0..(Word - 1) : Execute(c, i) = Call(c, x)
    <3>1. CASE i.mn = "ACALL"
      <4>1. i.dst.arg \in 0..(Page - 1)
        BY <1>1, <1>3, <3>1, OtherRows, OperandArgs
      <4>2. InPage(c, i.dst.arg) \in 0..(Word - 1)
        BY <4>1, InPageType
      <4>3. Execute(c, i) = Call(c, InPage(c, i.dst.arg))
        BY <3>1, ExecuteBranches
      <4> QED
        BY <4>2, <4>3
    <3>2. CASE i.mn = "LCALL"
      <4>1. i.dst.arg \in 0..(Word - 1)
        BY <1>1, <1>3, <3>2, OtherRows, OperandArgs
      <4>2. Execute(c, i) = Call(c, i.dst.arg)
        BY <3>2, ExecuteBranches
      <4> QED
        BY <4>1, <4>2
    <3> QED
      BY <1>6, <3>1, <3>2
  <2> QED
    BY <2>1, CallType DEF Pushed
<1>7. CASE i.mn \in {"RET", "RETI"}
  <2>1. Execute(c, i) = Return(c)
    BY <1>7, ExecuteBranches
  <2>2. Return(c) \in Cpu
    BY ReturnType
  <2> QED
    BY <2>1, <2>2
<1>8. CASE i.mn \in {"PUSH", "POP"}
  <2>1. i.dst.arg \in Bytes
    BY <1>1, <1>3, <1>8, OtherRows, OperandArgs
  <2>2. Push(c, i.dst.arg) \in Cpu
    BY <2>1, PushType DEF Pushed
  <2>3. Pop(c, i.dst.arg) \in Cpu
    BY <2>1, PopType
  <2>4. \/ Execute(c, i) = Push(c, i.dst.arg) \/ Execute(c, i) = Pop(c, i.dst.arg)
    BY <1>8, ExecuteBranches
  <2> QED
    BY <2>2, <2>3, <2>4
<1> QED
  BY <1>2, <1>4, <1>5, <1>6, <1>7, <1>8 DEF Mnemonics, MoveNames, LogicNames, JumpNames, CompareNames

\* The two interpreters, opcode by opcode and byte by byte.
LEMMA InterpretersAgree ==
    ASSUME NEW c \in Cpu, NEW row \in Table, NEW n \in Numbers(row), NEW code \in Bytes \X Bytes
    PROVE  LET i == Decoded(row, n, code)
           IN  /\ \/ Complemented(i)
                  \/ UpToParity(TableStep(c, row, n, code)) = UpToParity(CpuStep(c, i))
               /\ Fetched(c, i).pc = (c.pc + row[4]) % Word
<1> DEFINE i == Decoded(row, n, code)
           d == i.dst.mode
           s == i.src.mode
           f == Fetched(c, i)
<1>1. IsInstruction(i) /\ <<i.mn, d, s, row[4]>> \in Table
  BY DecodedIs
<1>2. row[4] = 1 + OperandBytes(d) + OperandBytes(s)
  BY <1>1, RowSize
<1>3. f = [c EXCEPT !.pc = (c.pc + 1 + OperandBytes(d) + OperandBytes(s)) % Word]
  BY DEF Fetched
<1>4. c.pc \in Int /\ OperandBytes(d) \in Int /\ OperandBytes(s) \in Int
  BY DEF Cpu, OperandBytes
<1>5. d = row[2] /\ s = row[3]
  BY DEF Decoded, Operand
<1> HIDE DEF i
<1>6. f = [c EXCEPT !.pc = (c.pc + row[4]) % Word] /\ f.pc = (c.pc + row[4]) % Word
  <2>1. c.pc + 1 + OperandBytes(d) + OperandBytes(s) = c.pc + row[4]
    BY <1>2, <1>4
  <2> QED
    BY <1>3, <2>1 DEF Cpu
<1>7. ASSUME ~Complemented(i)
      PROVE  UpToParity(TableStep(c, row, n, code)) = UpToParity(CpuStep(c, i))
  <2>1. s # "BIT_NOT" /\ d # "BIT_NOT"
    <3>1. d # "BIT_NOT"
      BY <1>1 DEF Table, Rows
    <3> QED
      BY <1>7, <3>1 DEF Complemented
  <2>2. FetchOperands(row, n, code) = [size |-> row[4], instr |-> i]
    BY <1>5, <2>1, FetchesDecoded DEF i
  <2>3. TableStep(c, row, n, code) = Exec(f, i)
    BY <1>6, <2>2 DEF TableStep
  <2>4. f \in Cpu
    BY QuietEnds DEF Quiet
  <2> DEFINE e == Execute(f, i)
  <2>5. Exec(f, i) = e
    BY <1>1, <2>1, <2>4, ExecAgrees
  <2>6. CpuStep(c, i) = Retire(c, e)
    BY DEF CpuStep
  <2>7. e \in Cpu
    BY <1>1, <2>4, ExecuteType
  <2> HIDE DEF e, f
  <2>8. UpToParity(Retire(c, e)) = UpToParity(e)
    <3>1. e.acc \in Bytes /\ e.psw \in Bytes /\ 0 \in 0..(Bits - 1)
      BY <2>7, Sizes DEF Cpu
    <3>2. Parity(e.acc) \in 0..1
      BY <3>1, ParityIsBit
    <3> DEFINE p == PutBit(e.psw, 0, Parity(e.acc))
    <3>3. PutBit(p, 0, 0) = PutBit(e.psw, 0, 0)
      BY <3>1, <3>2, PutBitAgain
    <3>4. Retire(c, e) = e \/ Retire(c, e) = [e EXCEPT !.psw = p]
      BY DEF Retire
    <3> HIDE DEF p
    <3>5. UpToParity([e EXCEPT !.psw = p]) = [e EXCEPT !.psw = PutBit(p, 0, 0)]
      BY <2>7 DEF UpToParity, Cpu
    <3>6. UpToParity(e) = [e EXCEPT !.psw = PutBit(e.psw, 0, 0)]
      BY DEF UpToParity
    <3> QED
      BY <3>3, <3>4, <3>5, <3>6
  <2> QED
    BY <2>3, <2>5, <2>6, <2>8
<1> QED
  BY <1>6, <1>7 DEF i

------------------------------------------------------------------------------
\* The inductive invariant

\* A context, and the frames firmware's discipline puts on the stack.
Contexts == [acc : Bytes, psw : Bytes, sp : Bytes, pc : 0..(Word - 1), b : Bytes,
             dptr : 0..(Word - 1), bank0 : [1..Regs -> Bytes]]
CallFrames == [kind : {"call"}, bytes : Seq(Bytes), ret : 0..(Word - 1), sp : Bytes]
PushFrames == [kind : {"push"}, bytes : Seq(Bytes), from : Bytes, sp : Bytes]
IsrFrames == [kind : {"isr"}, bytes : Seq(Bytes), stage : {"enter", "body", "leave"},
              exact : BOOLEAN, ctx : Contexts, sp : Bytes]
Frames == CallFrames \cup PushFrames \cup IsrFrames

\* What is on the stack is what the frame says.
Returns(bytes, pc) == Len(bytes) = 2 /\ bytes[1] = pc % Byte /\ bytes[2] = pc \div Byte
IsFrame(f) ==
    /\ f.kind = "call" => Returns(f.bytes, f.ret)
    /\ f.kind = "push" => Len(f.bytes) = 1
    /\ f.kind = "isr" => Returns(f.bytes, f.ctx.pc) /\ f.ctx.sp = f.sp

Typed(c, fs) == c \in Cpu /\ fs \in Seq(Frames) /\ \A n \in 1..Len(fs) : IsFrame(fs[n])

EndIn(fs, n) == IF n = 0 THEN StackBase ELSE fs[n].sp + Len(fs[n].bytes)
Intact(c, fs) ==
    /\ c.sp = EndIn(fs, Len(fs)) \/ (fs = <<>> /\ c.sp = Regs - 1)
    /\ \A n \in 1..Len(fs) :
          /\ fs[n].sp = EndIn(fs, n - 1)
          /\ \A k \in 1..Len(fs[n].bytes) : c.iram[fs[n].sp + k] = fs[n].bytes[k]

IsIsr(fs, n) == n \in 1..Len(fs) /\ fs[n].kind = "isr"

\* The frames of interrupt routine n are those from n to before e, where the next
\* routine starts or the stack ends.
Spans(fs, n, e) ==
    /\ IsIsr(fs, n)
    /\ e \in (n + 1)..(Len(fs) + 1) /\ (e = Len(fs) + 1 \/ IsIsr(fs, e))
    /\ \A k \in (n + 1)..(e - 1) : ~IsIsr(fs, k)

\* The context there.
At(c, fs, e) == IF e = Len(fs) + 1 THEN Context(c) ELSE fs[e].ctx

\* The same flags, or the same but for P.
Alike(p, q, exact) == PutBit(p, 0, 0) = PutBit(q, 0, 0) /\ (exact => p = q)

\* What an interrupt routine has not saved is as before, and so is what it saved.
Saves(f, r) ==
    /\ f.kind = "push" /\ f.from \in {PSW, ACC}
    /\ f.from = ACC => f.bytes[1] = r.ctx.acc
    /\ f.from = PSW => Alike(f.bytes[1], r.ctx.psw, r.exact)

Resumable(k, fs, n, e) ==
    LET r == fs[n]
    IN  /\ k.b = r.ctx.b /\ k.dptr = r.ctx.dptr /\ k.bank0 = r.ctx.bank0
        /\ n + 1 < e => Saves(fs[n + 1], r)
        /\ n + 2 < e => Saves(fs[n + 2], r) /\ fs[n + 1].from # fs[n + 2].from
        /\ r.stage = "enter" => /\ e <= n + 3
                                /\ k.acc = r.ctx.acc /\ Alike(k.psw, r.ctx.psw, r.exact)
        /\ r.stage = "body" => /\ e >= n + 3 /\ BankField(k.psw) = 1
                               /\ \A x \in (n + 3)..(e - 1) : fs[x].kind = "push" => fs[x].from = ACC
        /\ r.stage = "leave" => /\ e <= n + 2
                                /\ n + 1 = e \/ fs[n + 1].from = PSW => k.acc = r.ctx.acc
                                /\ n + 1 = e \/ fs[n + 1].from = ACC => Alike(k.psw, r.ctx.psw, r.exact)
        /\ r.stage # "enter" /\ n + 1 < e /\ r.exact => fs[n + 1].from = PSW

Contained(c, fs) == \A n \in 1..Len(fs), e \in 2..(Len(fs) + 1) :
                       Spans(fs, n, e) => Resumable(At(c, fs, e), fs, n, e)

Sound(c, fs) == Typed(c, fs) /\ Intact(c, fs) /\ Contained(c, fs)

TypeOK == Typed(m, frames)
IInv == Sound(m, frames)

------------------------------------------------------------------------------
\* Frames

\* The parts of a frame.
LEMMA FrameParts ==
    ASSUME NEW f \in Frames
    PROVE  /\ f.kind \in {"call", "push", "isr"} /\ f.sp \in Bytes
           /\ f.bytes \in Seq(Bytes) /\ Len(f.bytes) \in Nat
           /\ f.kind = "isr" => /\ f \in IsrFrames /\ f.ctx \in Contexts
                                /\ f.stage \in {"enter", "body", "leave"} /\ f.exact \in BOOLEAN
           /\ f.kind = "push" => f.from \in Bytes
           /\ f.kind = "call" => f.ret \in 0..(Word - 1)
<1>1. f \in CallFrames \/ f \in PushFrames \/ f \in IsrFrames
  BY DEF Frames
<1>2. f.bytes \in Seq(Bytes)
  BY <1>1 DEF CallFrames, PushFrames, IsrFrames
<1>3. Len(f.bytes) \in Nat
  BY <1>2, LenProperties
<1>4. CASE f \in CallFrames
  BY <1>2, <1>3, <1>4 DEF CallFrames
<1>5. CASE f \in PushFrames
  BY <1>2, <1>3, <1>5 DEF PushFrames
<1>6. CASE f \in IsrFrames
  BY <1>2, <1>3, <1>6 DEF IsrFrames
<1> QED
  BY <1>1, <1>4, <1>5, <1>6

\* The frames of a stack.
LEMMA FramesParts ==
    ASSUME NEW fs \in Seq(Frames)
    PROVE  /\ Len(fs) \in Nat /\ (fs = <<>> <=> Len(fs) = 0)
           /\ \A n \in 1..Len(fs) :
                 fs[n] \in Frames /\ fs[n].sp \in Nat /\ fs[n].sp < Byte /\ Len(fs[n].bytes) \in Nat
<1>1. Len(fs) \in Nat /\ (fs = <<>> <=> Len(fs) = 0)
  BY LenProperties, EmptySeq
<1>2. ASSUME NEW n \in 1..Len(fs)
      PROVE  fs[n] \in Frames /\ fs[n].sp \in Nat /\ fs[n].sp < Byte /\ Len(fs[n].bytes) \in Nat
  <2>1. fs[n] \in Frames
    BY ElementOfSeq
  <2>2. fs[n].sp \in Bytes /\ Len(fs[n].bytes) \in Nat
    BY <2>1, FrameParts
  <2> QED
    BY <2>1, <2>2, Sizes DEF Bytes
<1> QED
  BY <1>1, <1>2

\* Counting down from the length of a sequence.
LEMMA LastButOne ==
    ASSUME NEW x \in Nat \ {0}
    PROVE  (x - 1) - 1 + 1 = x - 1 /\ (~(1 <= x - 1) => x - 1 = 0)
OBVIOUS

\* The last frame gone.
LEMMA UnwoundFrames ==
    ASSUME NEW fs \in Seq(Frames), fs # <<>>
    PROVE  /\ Unwound(fs) \in Seq(Frames) /\ Len(Unwound(fs)) = Len(fs) - 1
           /\ \A n \in 1..(Len(fs) - 1) : Unwound(fs)[n] = fs[n]
<1>1. Len(fs) \in Nat \ {0}
  BY EmptySeq
<1>2. 1 \in Int /\ Len(fs) - 1 \in Int
  BY <1>1
<1>3. \A i \in 1..(Len(fs) - 1) : fs[i] \in Frames
  BY <1>1, ElementOfSeq
<1>4. /\ SubSeq(fs, 1, Len(fs) - 1) \in Seq(Frames)
      /\ Len(SubSeq(fs, 1, Len(fs) - 1)) = IF 1 <= Len(fs) - 1 THEN (Len(fs) - 1) - 1 + 1 ELSE 0
      /\ \A i \in 1..((Len(fs) - 1) - 1 + 1) : SubSeq(fs, 1, Len(fs) - 1)[i] = fs[1 + i - 1]
  BY <1>2, <1>3, SubSeqProperties
<1>5. \A i \in 1..(Len(fs) - 1) : 1 + i - 1 = i
  BY <1>1
<1>6. (Len(fs) - 1) - 1 + 1 = Len(fs) - 1 /\ (~(1 <= Len(fs) - 1) => Len(fs) - 1 = 0)
  BY <1>1, LastButOne
<1>7. Len(SubSeq(fs, 1, Len(fs) - 1)) = Len(fs) - 1
  BY <1>4, <1>6
<1>8. \A i \in 1..(Len(fs) - 1) : SubSeq(fs, 1, Len(fs) - 1)[i] = fs[i]
  BY <1>4, <1>5, <1>6
<1> QED
  BY <1>4, <1>7, <1>8 DEF Unwound

\* One frame more.
LEMMA AppendedFrames ==
    ASSUME NEW fs \in Seq(Frames), NEW f \in Frames
    PROVE  /\ Append(fs, f) \in Seq(Frames) /\ Len(Append(fs, f)) = Len(fs) + 1
           /\ \A n \in 1..Len(fs) : Append(fs, f)[n] = fs[n]
           /\ Append(fs, f)[Len(fs) + 1] = f
<1>1. Len(fs) \in Nat
  BY LenProperties
<1> QED
  BY <1>1, AppendProperties

------------------------------------------------------------------------------
\* The stack stays intact

\* The cells of a frame lie above its SP and not above its end.
LEMMA Within ==
    ASSUME NEW x \in Nat, NEW l \in Nat, NEW t \in Bytes, x + l <= t, NEW k \in 1..l
    PROVE  x + k \in Bytes /\ x + k <= t /\ x + k > x
BY Sizes DEF Bytes

\* Frames lie one after the other from StackBase to SP.
LEMMA IntactBounds ==
    ASSUME NEW c \in Cpu, NEW fs \in Seq(Frames), Intact(c, fs)
    PROVE  \A n \in 1..Len(fs) : StackBase <= fs[n].sp /\ fs[n].sp + Len(fs[n].bytes) <= c.sp
<1> DEFINE L == Len(fs)
           E(n) == EndIn(fs, n)
<1>1. /\ L \in Nat /\ (fs = <<>> <=> L = 0) /\ StackBase \in Int
      /\ \A n \in 1..L : fs[n].sp \in Nat /\ Len(fs[n].bytes) \in Nat
  <2>1. StackBase \in Int
    BY CoreAssumption, InstructionsAssumption
  <2> QED
    BY <2>1, FramesParts
<1>2. E(0) = StackBase /\ \A n \in 1..L : E(n) = fs[n].sp + Len(fs[n].bytes)
  BY DEF EndIn
<1>3. \A n \in 1..L : fs[n].sp = E(n - 1)
  BY DEF Intact
<1>4. L # 0 => c.sp = E(L)
  BY <1>1 DEF Intact
<1>5. \A n \in 0..L : E(n) \in Int
  BY <1>1, <1>2
<1> HIDE DEF L, E
<1>6. \A n \in 1..L : E(n - 1) <= E(n)
  <2>1. ASSUME NEW n \in 1..L PROVE E(n - 1) <= E(n)
    <3>1. E(n) = E(n - 1) + Len(fs[n].bytes) /\ Len(fs[n].bytes) \in Nat
      BY <1>1, <1>2, <1>3
    <3>2. n - 1 \in 0..L
      BY <1>1
    <3>3. E(n - 1) \in Int
      BY <1>5, <3>2
    <3> QED
      BY <3>1, <3>3
  <2> QED
    BY <2>1
<1>7. \A n \in 0..L : StackBase <= E(n)
  <2> DEFINE S == {k \in Nat : k <= L => StackBase <= E(k)}
  <2>1. 0 \in S
    BY <1>1, <1>2
  <2>2. ASSUME NEW k \in Nat, k \in S PROVE k + 1 \in S
    <3>1. CASE k + 1 <= L
      <4>1. k \in 0..L /\ k + 1 \in 1..L /\ (k + 1) - 1 = k /\ k + 1 \in 0..L
        BY <1>1, <3>1
      <4>2. StackBase <= E(k) /\ E(k) <= E(k + 1)
        BY <1>6, <2>2, <4>1
      <4> QED
        BY <1>1, <1>5, <4>1, <4>2
    <3>2. CASE ~(k + 1 <= L)
      BY <3>2
    <3> QED
      BY <3>1, <3>2
  <2> HIDE DEF S
  <2>3. Nat \subseteq S
    BY <2>1, <2>2, Induction
  <2> QED
    BY <1>1, <2>3 DEF S
<1>8. \A n \in 1..L : E(n) <= E(L)
  <2> DEFINE S == {k \in Nat : k < L => E(L - k) <= E(L)}
  <2>1. 0 \in S
    BY <1>1, <1>5
  <2>2. ASSUME NEW k \in Nat, k \in S PROVE k + 1 \in S
    <3>1. CASE k + 1 < L
      <4>1. L - k \in 1..L /\ L - (k + 1) = (L - k) - 1 /\ L - (k + 1) \in 0..L /\ L \in 0..L
            /\ L - k \in 0..L
        BY <1>1, <3>1
      <4>2. E(L - (k + 1)) <= E(L - k) /\ E(L - k) <= E(L)
        BY <1>1, <1>6, <2>2, <3>1, <4>1
      <4> QED
        BY <1>5, <4>1, <4>2
    <3>2. CASE ~(k + 1 < L)
      BY <3>2
    <3> QED
      BY <3>1, <3>2
  <2> HIDE DEF S
  <2>3. Nat \subseteq S
    BY <2>1, <2>2, Induction
  <2>4. ASSUME NEW n \in 1..L PROVE E(n) <= E(L)
    <3>1. L - n \in Nat /\ L - n < L /\ L - (L - n) = n
      BY <1>1
    <3> QED
      BY <2>3, <3>1 DEF S
  <2> QED
    BY <2>4
<1>9. \A n \in 1..L : n - 1 \in 0..L
  BY <1>1
<1> QED
  BY <1>1, <1>2, <1>3, <1>4, <1>7, <1>8, <1>9 DEF L

\* An instruction that leaves the stack alone.
LEMMA IntactKept ==
    ASSUME NEW c \in Cpu, NEW d \in Cpu, NEW fs \in Seq(Frames), NEW gs \in Seq(Frames),
           Intact(c, fs), KeepsStack(c, d), Len(gs) = Len(fs),
           \A n \in 1..Len(fs) : gs[n].sp = fs[n].sp /\ gs[n].bytes = fs[n].bytes
    PROVE  Intact(d, gs)
<1>1. /\ Len(fs) \in Nat /\ (fs = <<>> <=> Len(fs) = 0) /\ (gs = <<>> <=> Len(gs) = 0)
      /\ \A n \in 1..Len(fs) : fs[n].sp \in Nat /\ Len(fs[n].bytes) \in Nat
  BY FramesParts
<1>2. \A n \in 0..Len(fs) : EndIn(gs, n) = EndIn(fs, n)
  BY <1>1 DEF EndIn
<1>3. ASSUME NEW n \in 1..Len(fs), NEW k \in 1..Len(fs[n].bytes)
      PROVE  d.iram[fs[n].sp + k] = c.iram[fs[n].sp + k]
  <2>1. StackBase <= fs[n].sp /\ fs[n].sp + Len(fs[n].bytes) <= c.sp
    BY <1>3, IntactBounds
  <2>2. c.sp \in Bytes /\ StackBase \in Nat
    <3>1. Regs * Banks \in Nat /\ StackBase \in Regs * Banks..(Byte - 1)
      BY CoreAssumption, InstructionsAssumption
    <3> QED
      BY <3>1, Sizes DEF Cpu
  <2>3. fs[n].sp \in Nat /\ Len(fs[n].bytes) \in Nat
    BY <1>1, <1>3
  <2>4. fs[n].sp + k \in Bytes /\ fs[n].sp + k > fs[n].sp
    BY <1>3, <2>1, <2>2, <2>3, Within
  <2>5. fs[n].sp + k > StackBase
    BY <1>3, <2>1, <2>2, <2>3, <2>4
  <2> QED
    BY <2>4, <2>5 DEF KeepsStack
<1>4. \A n \in 1..Len(fs) : n - 1 \in 0..Len(fs)
  BY <1>1
<1>5. Len(fs) \in 0..Len(fs)
  BY <1>1
<1>6. d.sp = EndIn(gs, Len(gs)) \/ (gs = <<>> /\ d.sp = Regs - 1)
  BY <1>1, <1>2, <1>5 DEF Intact, KeepsStack
<1>7. ASSUME NEW n \in 1..Len(fs)
      PROVE  /\ gs[n].sp = EndIn(gs, n - 1)
             /\ \A k \in 1..Len(gs[n].bytes) : d.iram[gs[n].sp + k] = gs[n].bytes[k]
  <2>1. /\ fs[n].sp = EndIn(fs, n - 1)
        /\ \A k \in 1..Len(fs[n].bytes) : c.iram[fs[n].sp + k] = fs[n].bytes[k]
    BY <1>7 DEF Intact
  <2>2. gs[n].sp = fs[n].sp /\ gs[n].bytes = fs[n].bytes
    BY <1>7
  <2> QED
    BY <1>2, <1>3, <1>4, <1>7, <2>1, <2>2
<1> QED
  BY <1>6, <1>7 DEF Intact

\* A frame more on the stack.
LEMMA IntactPushed ==
    ASSUME NEW c \in Cpu, NEW d \in Cpu, NEW fs \in Seq(Frames), NEW f \in Frames,
           Intact(c, fs), fs = <<>> => c.sp = StackBase,
           f.sp = c.sp, d.sp = c.sp + Len(f.bytes),
           \A a \in Bytes : a <= c.sp => d.iram[a] = c.iram[a],
           \A k \in 1..Len(f.bytes) : d.iram[c.sp + k] = f.bytes[k]
    PROVE  Intact(d, Append(fs, f))
<1> DEFINE gs == Append(fs, f)
<1>1. /\ gs \in Seq(Frames) /\ Len(gs) = Len(fs) + 1 /\ gs[Len(fs) + 1] = f
      /\ \A n \in 1..Len(fs) : gs[n] = fs[n]
  BY AppendedFrames
<1>2. /\ Len(fs) \in Nat /\ (fs = <<>> <=> Len(fs) = 0)
      /\ \A n \in 1..Len(fs) : fs[n].sp \in Nat /\ Len(fs[n].bytes) \in Nat
  BY FramesParts
<1>3. c.sp \in Bytes
  BY DEF Cpu
<1> HIDE DEF gs
<1>4. \A n \in 0..Len(fs) : EndIn(gs, n) = EndIn(fs, n)
  BY <1>1, <1>2 DEF EndIn
<1>5. c.sp = EndIn(fs, Len(fs))
  BY <1>2 DEF Intact, EndIn
<1>6. EndIn(gs, Len(fs) + 1) = d.sp
  BY <1>1, <1>2 DEF EndIn
<1>7. ASSUME NEW n \in 1..(Len(fs) + 1)
      PROVE  /\ gs[n].sp = EndIn(gs, n - 1)
             /\ \A k \in 1..Len(gs[n].bytes) : d.iram[gs[n].sp + k] = gs[n].bytes[k]
  <2>1. CASE n = Len(fs) + 1
    <3>1. n - 1 = Len(fs) /\ Len(fs) \in 0..Len(fs)
      BY <1>2, <2>1
    <3> QED
      BY <1>1, <1>4, <1>5, <2>1, <3>1
  <2>2. CASE n # Len(fs) + 1
    <3>1. n \in 1..Len(fs) /\ n - 1 \in 0..Len(fs)
      BY <1>2, <1>7, <2>2
    <3>2. /\ fs[n].sp = EndIn(fs, n - 1)
          /\ \A k \in 1..Len(fs[n].bytes) : c.iram[fs[n].sp + k] = fs[n].bytes[k]
      BY <3>1 DEF Intact
    <3>3. StackBase <= fs[n].sp /\ fs[n].sp + Len(fs[n].bytes) <= c.sp
      BY <3>1, IntactBounds
    <3>4. ASSUME NEW k \in 1..Len(fs[n].bytes)
          PROVE  fs[n].sp + k \in Bytes /\ fs[n].sp + k <= c.sp
      <4>1. fs[n].sp \in Nat /\ Len(fs[n].bytes) \in Nat
        BY <1>2, <3>1
      <4> QED
        BY <1>3, <3>3, <3>4, <4>1, Within
    <3> QED
      BY <1>1, <1>4, <3>1, <3>2, <3>4
  <2> QED
    BY <2>1, <2>2
<1>8. Intact(d, gs)
  BY <1>1, <1>6, <1>7 DEF Intact
<1> QED
  BY <1>8 DEF gs

\* The last frame off the stack.
LEMMA IntactPopped ==
    ASSUME NEW c \in Cpu, NEW d \in Cpu, NEW fs \in Seq(Frames), NEW gs \in Seq(Frames),
           Intact(c, fs), fs # <<>>, Len(gs) = Len(fs) - 1, d.sp = fs[Len(fs)].sp,
           \A n \in 1..(Len(fs) - 1) : gs[n].sp = fs[n].sp /\ gs[n].bytes = fs[n].bytes,
           \A a \in Bytes : a > StackBase => d.iram[a] = c.iram[a]
    PROVE  Intact(d, gs)
<1>1. /\ Len(fs) \in Nat /\ Len(fs) # 0
      /\ \A n \in 1..Len(fs) : fs[n].sp \in Nat /\ Len(fs[n].bytes) \in Nat
  BY FramesParts
<1>2. \A n \in 0..(Len(fs) - 1) : EndIn(gs, n) = EndIn(fs, n)
  BY <1>1 DEF EndIn
<1>3. ASSUME NEW n \in 1..Len(fs), NEW k \in 1..Len(fs[n].bytes)
      PROVE  d.iram[fs[n].sp + k] = c.iram[fs[n].sp + k]
  <2>1. StackBase <= fs[n].sp /\ fs[n].sp + Len(fs[n].bytes) <= c.sp
    BY <1>3, IntactBounds
  <2>2. c.sp \in Bytes /\ StackBase \in Nat
    <3>1. Regs * Banks \in Nat /\ StackBase \in Regs * Banks..(Byte - 1)
      BY CoreAssumption, InstructionsAssumption
    <3> QED
      BY <3>1, Sizes DEF Cpu
  <2>3. fs[n].sp \in Nat /\ Len(fs[n].bytes) \in Nat
    BY <1>1, <1>3
  <2>4. fs[n].sp + k \in Bytes /\ fs[n].sp + k > fs[n].sp
    BY <1>3, <2>1, <2>2, <2>3, Within
  <2>5. fs[n].sp + k > StackBase
    BY <1>3, <2>1, <2>2, <2>3, <2>4
  <2> QED
    BY <2>4, <2>5
<1>4. \A n \in 1..(Len(fs) - 1) : n - 1 \in 0..(Len(fs) - 1) /\ n \in 1..Len(fs)
  BY <1>1
<1>5. Len(fs) - 1 \in 0..(Len(fs) - 1) /\ Len(fs) \in 1..Len(fs)
  BY <1>1
<1>6. d.sp = EndIn(gs, Len(fs) - 1)
  BY <1>2, <1>5 DEF Intact
<1>7. ASSUME NEW n \in 1..(Len(fs) - 1)
      PROVE  /\ gs[n].sp = EndIn(gs, n - 1)
             /\ \A k \in 1..Len(gs[n].bytes) : d.iram[gs[n].sp + k] = gs[n].bytes[k]
  <2>1. /\ fs[n].sp = EndIn(fs, n - 1)
        /\ \A k \in 1..Len(fs[n].bytes) : c.iram[fs[n].sp + k] = fs[n].bytes[k]
    BY <1>4, <1>7 DEF Intact
  <2>2. gs[n].sp = fs[n].sp /\ gs[n].bytes = fs[n].bytes
    BY <1>7
  <2> QED
    BY <1>2, <1>3, <1>4, <1>7, <2>1, <2>2
<1> QED
  BY <1>6, <1>7 DEF Intact

------------------------------------------------------------------------------
\* Interrupt routines and what they resume

\* The innermost routine is the one Core looks at.
LEMMA Innermost ==
    ASSUME frames \in Seq(Frames)
    PROVE  /\ InIsr => Isr \in 1..Len(frames) /\ Spans(frames, Isr, Len(frames) + 1)
           /\ \A n : Spans(frames, n, Len(frames) + 1) => InIsr /\ n = Isr
           /\ ~InIsr => \A n \in 1..Len(frames) : frames[n].kind # "isr"
<1>1. Len(frames) \in Nat
  BY FramesParts
<1>2. \A n : n \in Kinds("isr") <=> IsIsr(frames, n)
  BY DEF Kinds, IsIsr
<1>3. ASSUME InIsr
      PROVE  \E n \in Kinds("isr") : \A k \in Kinds("isr") : k <= n
  <2> DEFINE S == {x \in Nat : x <= Len(frames) /\ Len(frames) - x \in Kinds("isr")}
  <2>1. PICK n : n \in Kinds("isr")
    BY <1>3 DEF InIsr
  <2>2. n \in 1..Len(frames)
    BY <1>2, <2>1 DEF IsIsr
  <2>3. /\ Len(frames) - n \in Nat /\ Len(frames) - n <= Len(frames)
        /\ Len(frames) - (Len(frames) - n) = n
    BY <1>1, <2>2
  <2>4. Len(frames) - n \in S
    BY <2>1, <2>3
  <2>5. S \in SUBSET Nat /\ S # {}
    BY <2>4
  <2> HIDE DEF S
  <2>6. \E x \in S : \A y \in S : ~(y < x)
    BY <2>5, Least
  <2>7. PICK x \in S : \A y \in S : ~(y < x)
    BY <2>6
  <2>8. x \in Nat /\ x <= Len(frames) /\ Len(frames) - x \in Kinds("isr")
    BY <2>7 DEF S
  <2>9. ASSUME NEW k \in Kinds("isr") PROVE k <= Len(frames) - x
    <3>1. k \in 1..Len(frames)
      BY <1>2, <2>9 DEF IsIsr
    <3>2. /\ Len(frames) - k \in Nat /\ Len(frames) - k <= Len(frames)
          /\ Len(frames) - (Len(frames) - k) = k
      BY <1>1, <3>1
    <3>3. Len(frames) - k \in S
      BY <2>9, <3>2 DEF S
    <3> QED
      BY <1>1, <2>7, <2>8, <3>1, <3>3
  <2> QED
    BY <2>8, <2>9
<1>4. ASSUME InIsr
      PROVE  Isr \in Kinds("isr") /\ \A k \in Kinds("isr") : k <= Isr
  BY <1>3, <1>4 DEF Isr
<1>5. ASSUME InIsr
      PROVE  Isr \in 1..Len(frames) /\ Spans(frames, Isr, Len(frames) + 1)
  <2>1. IsIsr(frames, Isr) /\ Isr \in 1..Len(frames)
    BY <1>2, <1>4, <1>5 DEF IsIsr
  <2>2. ASSUME NEW k \in (Isr + 1)..(Len(frames) + 1 - 1) PROVE ~IsIsr(frames, k)
    <3>1. ~(k <= Isr)
      BY <1>1, <2>1
    <3> QED
      BY <1>2, <1>4, <1>5, <3>1
  <2>3. Len(frames) + 1 \in (Isr + 1)..(Len(frames) + 1)
    BY <1>1, <2>1
  <2> QED
    BY <2>1, <2>2, <2>3 DEF Spans
<1>6. ASSUME NEW n, Spans(frames, n, Len(frames) + 1)
      PROVE  InIsr /\ n = Isr
  <2>1. IsIsr(frames, n) /\ n \in 1..Len(frames)
    BY <1>6 DEF Spans, IsIsr
  <2>2. InIsr
    BY <1>2, <2>1 DEF InIsr
  <2>3. IsIsr(frames, Isr) /\ Isr \in 1..Len(frames) /\ n <= Isr
    BY <1>2, <1>4, <2>1, <2>2 DEF IsIsr
  <2>4. n < Isr => Isr \in (n + 1)..(Len(frames) + 1 - 1)
    BY <1>1, <2>1, <2>3
  <2> QED
    BY <1>6, <2>1, <2>2, <2>3, <2>4 DEF Spans
<1>7. ASSUME ~InIsr, NEW n \in 1..Len(frames)
      PROVE  frames[n].kind # "isr"
  BY <1>2, <1>7 DEF InIsr, IsIsr
<1> QED
  BY <1>5, <1>6, <1>7

\* The stack starts above the first register bank.
LEMMA StackRoom ==
    /\ Regs \in Nat /\ Regs # 0 /\ StackBase \in Nat /\ Regs <= StackBase
    /\ StackBase \in Bytes
<1>1. Regs \in Nat /\ Regs # 0 /\ Banks \in Nat /\ Banks # 0
  BY InstructionsAssumption
<1>2. Regs <= Regs * Banks /\ Regs * Banks \in Nat
  <2>1. PICK d \in Nat : Banks = 1 + d
    <3>1. Banks - 1 \in Nat /\ Banks = 1 + (Banks - 1)
      BY <1>1
    <3> QED
      BY <3>1
  <2>2. Regs * Banks = Regs * 1 + Regs * d /\ Regs * d \in Nat
    BY <1>1, <2>1, Distribute
  <2> QED
    BY <1>1, <2>2
<1>3. StackBase \in Regs * Banks..(Byte - 1)
  BY CoreAssumption
<1> QED
  BY <1>1, <1>2, <1>3, Sizes DEF Bytes

\* The context of the CPU, register by register.
LEMMA ContextParts ==
    ASSUME NEW c \in Cpu
    PROVE  /\ Context(c) \in Contexts
           /\ Context(c).acc = c.acc /\ Context(c).psw = c.psw /\ Context(c).sp = c.sp
           /\ Context(c).pc = c.pc /\ Context(c).b = c.b /\ Context(c).dptr = c.dptr
           /\ \A d : (\A a \in 0..(Regs - 1) : d.iram[a] = c.iram[a]) =>
                        Context(d).bank0 = Context(c).bank0
<1> DEFINE cells(d) == [n \in 1..Regs |-> d.iram[n - 1]]
           bank == SubSeq(cells(c), 1, Regs)
<1>1. Regs \in Nat /\ Regs # 0 /\ 1 \in Int /\ Regs \in Int
  BY InstructionsAssumption
<1>2. \A n \in 1..Regs : n - 1 \in Bytes /\ n - 1 \in 0..(Regs - 1)
  <2>1. Regs < Byte
    BY StackRoom, Sizes DEF Bytes
  <2> QED
    BY <1>1, <2>1, Sizes DEF Bytes
<1>3. \A n \in 1..Regs : cells(c)[n] \in Bytes
  BY <1>2 DEF Cpu
<1>4. bank \in Seq(Bytes) /\ Len(bank) = IF 1 <= Regs THEN Regs - 1 + 1 ELSE 0
  BY <1>1, <1>3, SubSeqProperties
<1>5. Len(bank) = Regs
  BY <1>1, <1>4
<1>6. bank \in [1..Regs -> Bytes]
  BY <1>4, <1>5, LenProperties
<1>7. ASSUME NEW d, \A a \in 0..(Regs - 1) : d.iram[a] = c.iram[a]
      PROVE  Context(d).bank0 = Context(c).bank0
  <2>1. cells(d) = cells(c)
    BY <1>2, <1>7
  <2> QED
    BY <2>1 DEF Context
<1>8. Context(c) = [acc |-> c.acc, psw |-> c.psw, sp |-> c.sp, pc |-> c.pc, b |-> c.b,
                    dptr |-> c.dptr, bank0 |-> bank]
  BY DEF Context
<1> HIDE DEF bank
<1>9. Context(c) \in Contexts
  BY <1>6, <1>8 DEF Contexts, Cpu
<1> QED
  BY <1>7, <1>8, <1>9

\* Flags that are alike name the same register bank.
LEMMA AlikeBank ==
    ASSUME NEW p \in Bytes, NEW q \in Bytes, NEW x, Alike(p, q, x)
    PROVE  BankField(p) = BankField(q)
<1>1. 0 \in 0..1
  OBVIOUS
<1>2. BankField(PutBit(p, 0, 0)) = BankField(p) /\ BankField(PutBit(q, 0, 0)) = BankField(q)
  BY <1>1, BankFieldKept
<1>3. PutBit(p, 0, 0) = PutBit(q, 0, 0)
  BY DEF Alike
<1> QED
  BY <1>2, <1>3

\* The end of a step changes no more than P.
LEMMA RetireAlike ==
    ASSUME NEW c \in Cpu, NEW old
    PROVE  /\ Retire(old, c) \in Cpu /\ Retire(old, c).acc = c.acc
           /\ Alike(Retire(old, c).psw, c.psw, FALSE)
           /\ old.acc = c.acc => Retire(old, c) = c
           /\ Retire(old, c).sp = c.sp /\ Retire(old, c).pc = c.pc
           /\ Retire(old, c).b = c.b /\ Retire(old, c).dptr = c.dptr
           /\ Retire(old, c).iram = c.iram
<1> DEFINE p == PutBit(c.psw, 0, Parity(c.acc))
           d == [c EXCEPT !.psw = p]
<1>1. c.psw \in Bytes /\ c.acc \in Bytes
  BY DEF Cpu
<1>2. Parity(c.acc) \in 0..1 /\ 0 \in 0..(Bits - 1)
  BY <1>1, ParityIsBit, Sizes
<1>3. p \in Bytes /\ PutBit(p, 0, 0) = PutBit(c.psw, 0, 0)
  BY <1>1, <1>2, PutBitAgain
<1>4. Retire(old, c) = IF c.acc = old.acc THEN c ELSE d
  BY DEF Retire
<1> HIDE DEF p
<1>5. /\ d \in Cpu /\ d.acc = c.acc /\ d.psw = p /\ d.sp = c.sp /\ d.pc = c.pc /\ d.b = c.b
      /\ d.dptr = c.dptr /\ d.iram = c.iram
  BY <1>3 DEF Cpu
<1> HIDE DEF d
<1> QED
  BY <1>3, <1>4, <1>5 DEF Alike

\* Contexts that differ in P at most, and not in P if x.
Same(l, k, x) ==
    /\ l.acc = k.acc /\ l.b = k.b /\ l.dptr = k.dptr /\ l.bank0 = k.bank0
    /\ Alike(l.psw, k.psw, x) /\ BankField(l.psw) = BankField(k.psw)

\* A routine that has saved no more, and promises no more, than before.
LEMMA ResumableKept ==
    ASSUME NEW k, NEW l, NEW fs, NEW gs, NEW n \in Nat, NEW e \in Nat, n < e,
           gs[n].stage = fs[n].stage, gs[n].ctx = fs[n].ctx,
           gs[n].exact \in BOOLEAN, fs[n].exact \in BOOLEAN, gs[n].exact => fs[n].exact,
           \A x \in (n + 1)..(e - 1) : gs[x] = fs[x],
           Same(l, k, gs[n].exact), Resumable(k, fs, n, e)
    PROVE  Resumable(l, gs, n, e)
<1> DEFINE r == fs[n]
           s == gs[n]
<1>1. /\ l.b = k.b /\ l.dptr = k.dptr /\ l.bank0 = k.bank0 /\ l.acc = k.acc
      /\ Alike(l.psw, k.psw, s.exact) /\ BankField(l.psw) = BankField(k.psw)
  BY DEF Same
<1>2. \A p, q : Alike(p, q, r.exact) => Alike(p, q, s.exact)
  BY DEF Alike
<1>3. Alike(k.psw, r.ctx.psw, r.exact) => Alike(l.psw, s.ctx.psw, s.exact)
  BY <1>1 DEF Alike
<1>4. n + 1 < e => gs[n + 1] = fs[n + 1]
  <2>1. n + 1 < e => n + 1 \in (n + 1)..(e - 1)
    OBVIOUS
  <2> QED
    BY <2>1
<1>5. n + 2 < e => gs[n + 2] = fs[n + 2] /\ n + 1 < e
  <2>1. n + 2 < e => n + 2 \in (n + 1)..(e - 1) /\ n + 1 < e
    OBVIOUS
  <2> QED
    BY <2>1
<1>6. ASSUME NEW f, Saves(f, r) PROVE Saves(f, s)
  BY <1>2, <1>6 DEF Saves
<1>7. \A x \in (n + 3)..(e - 1) : gs[x] = fs[x]
  <2>1. \A x \in (n + 3)..(e - 1) : x \in (n + 1)..(e - 1)
    OBVIOUS
  <2> QED
    BY <2>1
<1>8. /\ l.b = s.ctx.b /\ l.dptr = s.ctx.dptr /\ l.bank0 = s.ctx.bank0
      /\ n + 1 < e => Saves(gs[n + 1], s)
      /\ n + 2 < e => Saves(gs[n + 2], s) /\ gs[n + 1].from # gs[n + 2].from
  <2>1. /\ k.b = r.ctx.b /\ k.dptr = r.ctx.dptr /\ k.bank0 = r.ctx.bank0
        /\ n + 1 < e => Saves(fs[n + 1], r)
        /\ n + 2 < e => Saves(fs[n + 2], r) /\ fs[n + 1].from # fs[n + 2].from
    BY DEF Resumable
  <2>2. n + 1 < e => Saves(gs[n + 1], s)
    BY <1>4, <1>6, <2>1
  <2>3. n + 2 < e => Saves(gs[n + 2], s)
    BY <1>5, <1>6, <2>1
  <2>4. n + 2 < e => gs[n + 1].from # gs[n + 2].from
    BY <1>4, <1>5, <2>1
  <2> QED
    BY <1>1, <2>1, <2>2, <2>3, <2>4
<1>9. s.stage = "enter" =>
          e <= n + 3 /\ l.acc = s.ctx.acc /\ Alike(l.psw, s.ctx.psw, s.exact)
  BY <1>1, <1>3 DEF Resumable
<1>10. s.stage = "body" =>
          /\ e >= n + 3 /\ BankField(l.psw) = 1
          /\ \A x \in (n + 3)..(e - 1) : gs[x].kind = "push" => gs[x].from = ACC
  BY <1>1, <1>7 DEF Resumable
<1>11. n + 1 = e \/ n + 1 < e \/ ~(e <= n + 2)
  OBVIOUS
<1>12. s.stage = "leave" =>
          /\ e <= n + 2
          /\ n + 1 = e \/ gs[n + 1].from = PSW => l.acc = s.ctx.acc
          /\ n + 1 = e \/ gs[n + 1].from = ACC => Alike(l.psw, s.ctx.psw, s.exact)
  BY <1>1, <1>3, <1>4, <1>11 DEF Resumable
<1>13. s.stage # "enter" /\ n + 1 < e /\ s.exact => gs[n + 1].from = PSW
  BY <1>4 DEF Resumable
<1> HIDE DEF r, s
<1>14. gs[n] = s
  BY DEF s
<1> QED
  BY <1>8, <1>9, <1>10, <1>12, <1>13, <1>14 DEF Resumable

\* A routine in its body keeps B, DPTR and bank 0, and what it saved.
LEMMA ResumableBody ==
    ASSUME NEW k, NEW l, NEW fs, NEW n, NEW e, fs[n].stage = "body",
           l.b = k.b, l.dptr = k.dptr, l.bank0 = k.bank0, BankField(l.psw) = 1,
           Resumable(k, fs, n, e)
    PROVE  Resumable(l, fs, n, e)
BY DEF Resumable

\* What is on the stack changes at its end only.
LEMMA ContainedStep ==
    ASSUME NEW c \in Cpu, NEW d \in Cpu, NEW fs \in Seq(Frames), NEW gs \in Seq(Frames),
           Contained(c, fs), Len(gs) <= Len(fs) + 1,
           \A x \in 1..Len(gs) : x <= Len(fs) =>
              /\ gs[x].kind = fs[x].kind
              /\ gs[x].kind # "isr" => gs[x] = fs[x]
              /\ gs[x].kind = "isr" => /\ gs[x].ctx = fs[x].ctx
                                       /\ gs[x].exact => fs[x].exact
                                       /\ \/ gs[x].stage = fs[x].stage
                                          \/ Spans(gs, x, Len(gs) + 1),
           Len(gs) = Len(fs) + 1 /\ gs[Len(gs)].kind = "isr" => gs[Len(gs)].ctx = Context(c),
           \A n \in 1..Len(gs) : Spans(gs, n, Len(gs) + 1) =>
              Resumable(Context(d), gs, n, Len(gs) + 1)
    PROVE  Contained(d, gs)
<1>1. Len(fs) \in Nat /\ Len(gs) \in Nat
  BY FramesParts
<1> SUFFICES ASSUME NEW n \in 1..Len(gs), NEW e \in 2..(Len(gs) + 1), Spans(gs, n, e)
             PROVE  Resumable(At(d, gs, e), gs, n, e)
  BY DEF Contained
<1>2. CASE e = Len(gs) + 1
  BY <1>2 DEF At
<1>3. CASE e # Len(gs) + 1
  <2>1. e \in 1..Len(gs) /\ e <= Len(fs) + 1 /\ gs[e].kind = "isr" /\ IsIsr(gs, e)
    BY <1>1, <1>3 DEF Spans, IsIsr
  <2>2. n < e /\ n \in Nat /\ e \in Nat /\ n \in 1..Len(fs) /\ gs[n].kind = "isr"
    BY <1>1, <2>1 DEF Spans, IsIsr
  <2>3. \A x \in (n + 1)..(e - 1) : x \in 1..Len(gs) /\ x <= Len(fs) /\ x \in 1..Len(fs)
    BY <1>1, <2>1, <2>2
  <2>4. \A x \in (n + 1)..(e - 1) : gs[x].kind # "isr" /\ gs[x] = fs[x]
    BY <2>3 DEF Spans, IsIsr
  <2>5. ~Spans(gs, n, Len(gs) + 1)
    <3>1. e \in (n + 1)..(Len(gs) + 1 - 1)
      BY <1>1, <2>1, <2>2
    <3> QED
      BY <2>1, <3>1 DEF Spans
  <2>6. /\ gs[n].kind = fs[n].kind /\ gs[n].ctx = fs[n].ctx
        /\ gs[n].exact => fs[n].exact
        /\ gs[n].stage = fs[n].stage
    <3>1. n <= Len(fs)
      BY <2>2
    <3> QED
      BY <2>2, <2>5, <3>1
  <2>7. gs[n].exact \in BOOLEAN /\ fs[n].exact \in BOOLEAN
    BY <2>2, <2>6, FramesParts, FrameParts
  <2>8. Spans(fs, n, e)
    <3>1. IsIsr(fs, n)
      BY <2>2, <2>6 DEF IsIsr
    <3>2. e = Len(fs) + 1 \/ IsIsr(fs, e)
      <4>1. CASE e <= Len(fs)
        BY <1>1, <2>1, <4>1 DEF IsIsr
      <4>2. CASE ~(e <= Len(fs))
        BY <1>1, <2>1, <4>2
      <4> QED
        BY <4>1, <4>2
    <3>3. e \in (n + 1)..(Len(fs) + 1)
      BY <1>1, <2>1, <2>2
    <3>4. \A x \in (n + 1)..(e - 1) : ~IsIsr(fs, x)
      BY <2>4 DEF IsIsr
    <3> QED
      BY <3>1, <3>2, <3>3, <3>4 DEF Spans
  <2>9. Resumable(At(c, fs, e), fs, n, e)
    <3>1. e \in 2..(Len(fs) + 1)
      BY <1>1, <2>1, <2>2
    <3> QED
      BY <2>2, <2>8, <3>1 DEF Contained
  <2>10. gs[e].ctx = At(c, fs, e)
    <3>1. CASE e <= Len(fs)
      <4>1. e # Len(fs) + 1
        BY <1>1, <3>1
      <4> QED
        BY <2>1, <3>1, <4>1 DEF At
    <3>2. CASE ~(e <= Len(fs))
      <4>1. e = Len(fs) + 1 /\ e = Len(gs)
        BY <1>1, <2>1, <3>2
      <4>2. Len(gs) = Len(fs) + 1 /\ gs[Len(gs)].kind = "isr" /\ gs[e] = gs[Len(gs)]
        BY <2>1, <4>1
      <4>3. gs[e].ctx = Context(c)
        BY <4>2
      <4>4. At(c, fs, e) = Context(c)
        BY <4>1 DEF At
      <4> QED
        BY <4>3, <4>4
    <3> QED
      BY <3>1, <3>2
  <2>11. Same(gs[e].ctx, gs[e].ctx, gs[n].exact)
    BY DEF Same, Alike
  <2>12. Resumable(gs[e].ctx, gs, n, e)
    BY <2>2, <2>4, <2>6, <2>7, <2>9, <2>10, <2>11, ResumableKept
  <2> QED
    BY <1>3, <2>12 DEF At
<1> QED
  BY <1>2, <1>3

------------------------------------------------------------------------------
\* Steps that leave the stack alone

\* An interrupt routine in its body uses the second register bank.
LEMMA InnerRoutine ==
    ASSUME IInv, InIsr
    PROVE  /\ Isr \in 1..Len(frames) /\ Isr \in Nat /\ IsIsr(frames, Isr)
           /\ frames[Isr].kind = "isr" /\ frames[Isr] \in Frames
           /\ Resumable(Context(m), frames, Isr, Len(frames) + 1)
           /\ frames[Isr].exact \in BOOLEAN
           /\ IsrStage \in {"enter", "body", "leave"}
           /\ IsrStage = "body" => Bank(m) = 1 /\ BankField(m.psw) = 1
<1>1. m \in Cpu /\ frames \in Seq(Frames) /\ Contained(m, frames)
  BY DEF IInv, Sound, Typed
<1>2. Isr \in 1..Len(frames) /\ Spans(frames, Isr, Len(frames) + 1)
  BY <1>1, Innermost
<1>3. Len(frames) \in Nat /\ frames[Isr] \in Frames
  BY <1>1, <1>2, FramesParts
<1>4. Isr \in Nat /\ Len(frames) + 1 \in 2..(Len(frames) + 1)
  BY <1>2, <1>3
<1>5. frames[Isr].kind = "isr" /\ IsIsr(frames, Isr)
  BY <1>2 DEF Spans, IsIsr
<1>6. Resumable(At(m, frames, Len(frames) + 1), frames, Isr, Len(frames) + 1)
  BY <1>1, <1>2, <1>4 DEF Contained
<1>7. At(m, frames, Len(frames) + 1) = Context(m)
  BY DEF At
<1>8. IsrStage = "body" => BankField(Context(m).psw) = 1
  BY <1>6, <1>7 DEF Resumable, IsrStage
<1>9. frames[Isr].exact \in BOOLEAN /\ frames[Isr].stage \in {"enter", "body", "leave"}
  BY <1>3, <1>5, FrameParts
<1> QED
  BY <1>1, <1>2, <1>3, <1>4, <1>5, <1>6, <1>7, <1>8, <1>9, ContextParts
     DEF Bank, BankField, IsrStage

\* What a step keeps that leaves the stack alone.
LEMMA KeptSound ==
    ASSUME IInv, InBody, NEW d \in Cpu, KeepsStack(m, d), InIsr => KeepsContext(m, d)
    PROVE  Sound(d, frames)
<1>1. m \in Cpu /\ frames \in Seq(Frames) /\ Intact(m, frames) /\ Contained(m, frames)
      /\ Typed(m, frames)
  BY DEF IInv, Sound, Typed
<1>2. Intact(d, frames)
  BY <1>1, IntactKept
<1>3. ASSUME NEW n \in 1..Len(frames), Spans(frames, n, Len(frames) + 1)
      PROVE  Resumable(Context(d), frames, n, Len(frames) + 1)
  <2>1. InIsr /\ n = Isr
    BY <1>1, <1>3, Innermost
  <2>2. /\ Resumable(Context(m), frames, Isr, Len(frames) + 1)
        /\ frames[Isr].stage = "body" /\ Bank(m) = 1
    BY <2>1, InnerRoutine DEF InBody, IsrStage
  <2>3. /\ d.b = m.b /\ d.dptr = m.dptr /\ Bank(d) = Bank(m)
        /\ \A a \in 0..(Regs - 1) : d.iram[a] = m.iram[a]
    BY <2>1 DEF KeepsContext
  <2>4. BankField(Context(d).psw) = 1
    BY <2>2, <2>3, ContextParts DEF Bank, BankField
  <2>5. /\ Context(d).b = Context(m).b /\ Context(d).dptr = Context(m).dptr
        /\ Context(d).bank0 = Context(m).bank0
    BY <1>1, <2>3, ContextParts
  <2> QED
    BY <2>1, <2>2, <2>4, <2>5, ResumableBody
<1>4. Contained(d, frames)
  <2>1. Len(frames) \in Nat
    BY <1>1, FramesParts
  <2>2. Len(frames) <= Len(frames) + 1 /\ Len(frames) # Len(frames) + 1
    BY <2>1
  <2> QED
    BY <1>1, <1>3, <2>2, ContainedStep
<1> QED
  BY <1>1, <1>2, <1>4 DEF Sound, Typed

\* Instructions that store where firmware may.
LEMMA StoringSound ==
    ASSUME IInv, InBody, NEW i \in Instructions, MayStore(i.dst),
           i.mn \in MoveNames \cup LogicNames \cup {"INC", "DEC", "DJNZ", "JBC"}
    PROVE  Sound(CpuStep(m, i), frames)
<1>1. m \in Cpu
  BY DEF IInv, Sound, Typed
<1>2. Effect(m, CpuStep(m, i), i.dst)
  BY <1>1, StoringStep
<1>3. Fits(m, i.dst) /\ (InIsr => Own(i.dst))
  BY StorableFits DEF MayStore
<1>4. CpuStep(m, i) \in Cpu /\ KeepsStack(m, CpuStep(m, i))
  BY <1>2, <1>3 DEF Effect
<1>5. InIsr => Bank(m) = 1
  BY InnerRoutine DEF InBody
<1>6. InIsr => KeepsContext(m, CpuStep(m, i))
  BY <1>2, <1>3, <1>5 DEF Effect
<1> QED
  BY <1>4, <1>6, KeptSound

\* Jumps and comparisons.
LEMMA QuietSound ==
    ASSUME IInv, InBody, NEW d, Quiet(m, d)
    PROVE  Sound(d, frames)
<1>1. d \in Cpu /\ KeepsStack(m, d) /\ KeepsContext(m, d)
  BY DEF Quiet, KeepsStack, KeepsContext
<1> QED
  BY <1>1, KeptSound

\* Named instructions.
LEMMA NamedIs ==
    ASSUME NEW mns, NEW i \in Named(mns)
    PROVE  i \in Instructions /\ i.mn \in mns /\ IsInstruction(i)
<1>1. i \in Instructions /\ i.mn \in mns
  BY DEF Named
<1> QED
  BY <1>1, InstructionsAre

\* The instructions that leave the stack alone keep the invariant: moves,
LEMMA ExecMoveSound == ASSUME IInv, ExecMove PROVE IInv'
<1>1. PICK i \in Moves : MayStore(i.dst) /\ m' = CpuStep(m, i)
  BY DEF ExecMove, Executes
<1>2. i \in Instructions /\ i.mn \in MoveNames
  BY NamedIs DEF Moves, MoveNames
<1>3. InBody /\ frames' = frames
  BY DEF ExecMove, Body
<1>4. Sound(CpuStep(m, i), frames)
  BY <1>1, <1>2, <1>3, StoringSound
<1> QED
  BY <1>1, <1>3, <1>4 DEF IInv

\* logic and bits,
LEMMA ExecLogicSound == ASSUME IInv, ExecLogic PROVE IInv'
<1>1. PICK i \in Logicals : MayStore(i.dst) /\ m' = CpuStep(m, i)
  BY DEF ExecLogic, Executes
<1>2. i \in Instructions /\ i.mn \in LogicNames
  BY NamedIs DEF Logicals, LogicNames
<1>3. InBody /\ frames' = frames
  BY DEF ExecLogic, Body
<1>4. Sound(CpuStep(m, i), frames)
  BY <1>1, <1>2, <1>3, StoringSound
<1> QED
  BY <1>1, <1>3, <1>4 DEF IInv

\* INC and DEC,
LEMMA ExecCountSound == ASSUME IInv, ExecCount PROVE IInv'
<1>1. PICK i \in Counts : MayStore(i.dst) /\ m' = CpuStep(m, i)
  BY DEF ExecCount, Executes
<1>2. i \in Instructions /\ i.mn \in {"INC", "DEC"}
  BY NamedIs DEF Counts
<1>3. InBody /\ frames' = frames
  BY DEF ExecCount, Body
<1>4. Sound(CpuStep(m, i), frames)
  BY <1>1, <1>2, <1>3, StoringSound
<1> QED
  BY <1>1, <1>3, <1>4 DEF IInv

\* DJNZ and JBC,
LEMMA ExecLoopSound == ASSUME IInv, ExecLoop PROVE IInv'
<1>1. PICK i \in Loops : MayStore(i.dst) /\ m' = CpuStep(m, i)
  BY DEF ExecLoop, Executes
<1>2. i \in Instructions /\ i.mn \in {"DJNZ", "JBC"}
  BY NamedIs DEF Loops
<1>3. InBody /\ frames' = frames
  BY DEF ExecLoop, Body
<1>4. Sound(CpuStep(m, i), frames)
  BY <1>1, <1>2, <1>3, StoringSound
<1> QED
  BY <1>1, <1>3, <1>4 DEF IInv

\* CJNE,
LEMMA ExecCompareSound == ASSUME IInv, ExecCompare PROVE IInv'
<1>1. PICK i \in Compares : m' = CpuStep(m, i)
  BY DEF ExecCompare, Executes
<1>2. i \in Instructions /\ i.mn \in CompareNames
  BY NamedIs DEF Compares, CompareNames
<1>3. InBody /\ frames' = frames /\ m \in Cpu
  BY DEF ExecCompare, Body, IInv, Sound, Typed
<1>4. Quiet(m, CpuStep(m, i))
  BY <1>2, <1>3, QuietStep
<1>5. Sound(CpuStep(m, i), frames)
  BY <1>3, <1>4, QuietSound
<1> QED
  BY <1>1, <1>3, <1>5 DEF IInv

\* and jumps and branches.
LEMMA ExecJumpSound == ASSUME IInv, ExecJump PROVE IInv'
<1>1. PICK i \in Jumps : m' = CpuStep(m, i)
  BY DEF ExecJump, Executes
<1>2. i \in Instructions /\ i.mn \in JumpNames
  BY NamedIs DEF Jumps, JumpNames
<1>3. InBody /\ frames' = frames /\ m \in Cpu
  BY DEF ExecJump, Body, IInv, Sound, Typed
<1>4. Quiet(m, CpuStep(m, i))
  BY <1>2, <1>3, QuietStep
<1>5. Sound(CpuStep(m, i), frames)
  BY <1>3, <1>4, QuietSound
<1> QED
  BY <1>1, <1>3, <1>5 DEF IInv

------------------------------------------------------------------------------
\* Setting up the stack

\* Reset leaves an empty stack and SP at the end of the first register bank.
LEMMA InitSound == ASSUME Init PROVE IInv
<1>1. m = Reset /\ frames = <<>>
  BY DEF Init
<1>2. Regs - 1 \in Bytes
  BY StackRoom, Sizes DEF Bytes
<1>3. 0 \in Bytes /\ 0 \in 0..(Word - 1)
  BY Sizes
<1>4. m \in Cpu /\ m.sp = Regs - 1
  BY <1>1, <1>2, <1>3 DEF Reset, Cpu
<1>5. frames \in Seq(Frames) /\ Len(frames) = 0
  BY <1>1, EmptySeq
<1>6. Typed(m, frames)
  BY <1>4, <1>5 DEF Typed
<1>7. Intact(m, frames) /\ Contained(m, frames)
  BY <1>1, <1>4, <1>5 DEF Intact, Contained
<1> QED
  BY <1>6, <1>7 DEF IInv, Sound

\* Firmware turns to its own stack.
LEMMA ExecSetStackSound == ASSUME IInv, ExecSetStack PROVE IInv'
<1> DEFINE i == [mn |-> "MOV", dst |-> [mode |-> "DIRECT", arg |-> SP],
                 src |-> [mode |-> "IMM8", arg |-> StackBase], lhs |-> NoOperand]
           c == Fetched(m, i)
           d == [c EXCEPT !.sp = StackBase]
<1>1. m \in Cpu /\ frames = <<>> /\ frames' = frames /\ m' = CpuStep(m, i)
  BY DEF ExecSetStack, Executes, IInv, Sound, Typed
<1>2. /\ i.mn = "MOV" /\ i.dst.mode = "DIRECT" /\ i.dst.arg = SP
      /\ i.src.mode = "IMM8" /\ i.src.arg = StackBase
  OBVIOUS
<1> HIDE DEF i
<1>3. c \in Cpu
  BY <1>1, QuietEnds DEF Quiet
<1> HIDE DEF c
<1>4. Execute(c, i) = Mov(c, i)
  BY <1>2, ExecuteMov
<1>5. Value(c, i.src) = StackBase
  BY <1>2 DEF Value
<1>6. Store(c, i.dst, StackBase) = WriteDirect(c, SP, StackBase)
  BY <1>2 DEF Store
<1>7. SP \in Bytes
  BY AddressBytes
<1>8. WriteDirect(c, SP, StackBase) = d
  BY <1>7, AddressBytes, Addresses, Sizes DEF WriteDirect
<1>9. Execute(c, i) = d
  BY <1>4, <1>5, <1>6, <1>8 DEF Mov
<1>10. d \in Cpu /\ d.sp = StackBase
  BY <1>3, StackRoom DEF Cpu
<1>11. CpuStep(m, i) = Retire(m, d)
  BY <1>9 DEF CpuStep, c
<1> HIDE DEF d
<1>12. m' \in Cpu /\ m'.sp = StackBase
  <2>1. Retire(m, d) \in Cpu /\ Retire(m, d).sp = d.sp
    BY <1>10, RetireAlike
  <2>2. m' = Retire(m, d)
    BY <1>1, <1>11
  <2> QED
    BY <1>10, <2>1, <2>2
<1>13. frames' \in Seq(Frames) /\ Len(frames') = 0 /\ frames' = <<>>
  BY <1>1, EmptySeq
<1>14. Typed(m', frames')
  BY <1>12, <1>13 DEF Typed
<1>15. Intact(m', frames') /\ Contained(m', frames')
  BY <1>12, <1>13 DEF Intact, Contained, EndIn
<1> QED
  BY <1>14, <1>15 DEF IInv, Sound

------------------------------------------------------------------------------
\* Calls, pushes and interrupts

\* One or two values more on the stack.
LEMMA PushedOne ==
    ASSUME NEW c \in Cpu, NEW d, NEW v, Pushed(c, d, v), c.sp + 1 < Byte
    PROVE  /\ d \in Cpu /\ d.sp = c.sp + 1 /\ d.iram[c.sp + 1] = v
           /\ \A a \in Bytes : a <= c.sp => d.iram[a] = c.iram[a]
           /\ d.acc = c.acc /\ d.b = c.b /\ d.psw = c.psw /\ d.dptr = c.dptr
<1>1. c.sp \in Bytes /\ c.iram \in [Bytes -> Bytes]
  BY DEF Cpu
<1>2. c.sp \in Nat /\ (c.sp + 1) % Byte = c.sp + 1
  BY <1>1, SpTwice DEF Bytes
<1>3. \A a \in Bytes : a <= c.sp => a # c.sp + 1
  BY <1>2 DEF Bytes
<1> QED
  BY <1>1, <1>2, <1>3 DEF Pushed

\* Two values on the stack, low byte first.
LEMMA PushedTwo ==
    ASSUME NEW c \in Cpu, NEW d, NEW e, NEW v, NEW w, Pushed(c, d, v), Pushed(d, e, w),
           c.sp + 2 < Byte
    PROVE  /\ e \in Cpu /\ e.sp = c.sp + 2 /\ e.iram[c.sp + 1] = v /\ e.iram[c.sp + 2] = w
           /\ \A a \in Bytes : a <= c.sp => e.iram[a] = c.iram[a]
           /\ e.acc = c.acc /\ e.b = c.b /\ e.psw = c.psw /\ e.dptr = c.dptr
<1>1. c.sp \in Bytes
  BY DEF Cpu
<1>2. c.sp \in Nat /\ c.sp + 1 < Byte /\ (c.sp + 1) + 1 < Byte /\ (c.sp + 1) + 1 = c.sp + 2
  BY <1>1, Sizes DEF Bytes
<1>3. /\ d \in Cpu /\ d.sp = c.sp + 1 /\ d.iram[c.sp + 1] = v
      /\ \A a \in Bytes : a <= c.sp => d.iram[a] = c.iram[a]
      /\ d.acc = c.acc /\ d.b = c.b /\ d.psw = c.psw /\ d.dptr = c.dptr
  BY <1>2, PushedOne
<1>4. /\ e \in Cpu /\ e.sp = d.sp + 1 /\ e.iram[d.sp + 1] = w
      /\ \A a \in Bytes : a <= d.sp => e.iram[a] = d.iram[a]
      /\ e.acc = d.acc /\ e.b = d.b /\ e.psw = d.psw /\ e.dptr = d.dptr
  BY <1>2, <1>3, PushedOne
<1>5. c.sp + 1 \in Bytes
  BY <1>2, Sizes DEF Bytes
<1>6. e.iram[c.sp + 1] = v
  BY <1>2, <1>3, <1>4, <1>5
<1>7. \A a \in Bytes : a <= c.sp => a <= c.sp + 1
  BY <1>2 DEF Bytes
<1>8. \A a \in Bytes : a <= c.sp => e.iram[a] = c.iram[a]
  BY <1>3, <1>4, <1>7
<1> QED
  BY <1>2, <1>3, <1>4, <1>6, <1>8

\* The stack is above the first register bank once it is set up.
LEMMA AboveBank ==
    ASSUME NEW c \in Cpu, NEW fs \in Seq(Frames), Intact(c, fs), fs = <<>> => c.sp = StackBase
    PROVE  StackBase <= c.sp /\ \A a \in 0..(Regs - 1) : a \in Bytes /\ a <= c.sp
<1>1. c.sp \in Bytes /\ StackBase \in Nat /\ Byte \in Nat
  BY StackRoom, Sizes DEF Cpu
<1>2. StackBase <= c.sp
  <2>1. CASE fs = <<>>
    BY <1>1, <2>1
  <2>2. CASE fs # <<>>
    <3>1. Len(fs) \in 1..Len(fs)
      BY <2>2, FramesParts
    <3>2. StackBase <= fs[Len(fs)].sp /\ fs[Len(fs)].sp + Len(fs[Len(fs)].bytes) <= c.sp
      BY <3>1, IntactBounds
    <3>3. fs[Len(fs)].sp \in Nat /\ Len(fs[Len(fs)].bytes) \in Nat
      BY <3>1, FramesParts
    <3>4. \A x, y, z, b \in Nat : b <= x /\ x + y <= z => b <= z
      OBVIOUS
    <3> QED
      BY <1>1, <3>2, <3>3, <3>4 DEF Bytes
  <2> QED
    BY <2>1, <2>2
<1>3. \A a \in 0..(Regs - 1) : a \in Bytes /\ a <= c.sp
  BY <1>1, <1>2, StackRoom, Sizes DEF Bytes
<1> QED
  BY <1>2, <1>3

\* A call, or a push of A, deeper in the body of an interrupt routine.
LEMMA BodyDeeper ==
    ASSUME NEW fs \in Seq(Frames), NEW f \in Frames, NEW n \in 1..Len(fs), fs[n].stage = "body",
           NEW k, NEW l, Resumable(k, fs, n, Len(fs) + 1),
           l.b = k.b, l.dptr = k.dptr, l.bank0 = k.bank0, BankField(l.psw) = 1,
           f.kind = "push" => f.from = ACC
    PROVE  Resumable(l, Append(fs, f), n, Len(fs) + 2)
<1> DEFINE gs == Append(fs, f)
           N == Len(fs)
<1>1. /\ Len(gs) = N + 1 /\ gs[N + 1] = f
      /\ \A x \in 1..N : gs[x] = fs[x]
  BY AppendedFrames
<1> HIDE DEF gs
<1>2. /\ k.b = fs[n].ctx.b /\ k.dptr = fs[n].ctx.dptr /\ k.bank0 = fs[n].ctx.bank0
      /\ n + 1 < N + 1 => Saves(fs[n + 1], fs[n])
      /\ n + 2 < N + 1 => Saves(fs[n + 2], fs[n]) /\ fs[n + 1].from # fs[n + 2].from
      /\ N + 1 >= n + 3
      /\ \A x \in (n + 3)..(N + 1 - 1) : fs[x].kind = "push" => fs[x].from = ACC
      /\ n + 1 < N + 1 /\ fs[n].exact => fs[n + 1].from = PSW
  BY DEF Resumable
<1>3. N \in Nat /\ n \in Nat
  BY LenProperties
<1> HIDE DEF N
<1> DEFINE e == N + 2
<1>4. /\ n + 1 < N + 1 /\ n + 2 < N + 1 /\ n + 1 \in 1..N /\ n + 2 \in 1..N /\ n \in 1..N
      /\ e >= n + 3
  BY <1>2, <1>3
<1>5. ASSUME NEW x \in (n + 3)..(e - 1)
      PROVE  x = N + 1 \/ (x \in (n + 3)..(N + 1 - 1) /\ x \in 1..N)
  BY <1>3
<1> HIDE DEF e
<1>6. \A x \in (n + 3)..(e - 1) : gs[x].kind = "push" => gs[x].from = ACC
  BY <1>1, <1>2, <1>5
<1>7. gs[n] = fs[n] /\ gs[n + 1] = fs[n + 1] /\ gs[n + 2] = fs[n + 2]
  BY <1>1, <1>4
<1>8. /\ l.b = gs[n].ctx.b /\ l.dptr = gs[n].ctx.dptr /\ l.bank0 = gs[n].ctx.bank0
      /\ Saves(gs[n + 1], gs[n]) /\ Saves(gs[n + 2], gs[n])
      /\ gs[n + 1].from # gs[n + 2].from /\ gs[n].stage = "body"
      /\ gs[n].exact => gs[n + 1].from = PSW
  BY <1>2, <1>4, <1>7
<1>9. Resumable(l, gs, n, e)
  BY <1>4, <1>6, <1>8 DEF Resumable
<1> QED
  BY <1>9 DEF gs, N, e

\* The bytes of a frame.
LEMMA FrameBytes ==
    /\ \A pc \in 0..(Word - 1) :
          LowHigh(pc) \in Seq(Bytes) /\ Len(LowHigh(pc)) = 2 /\ Returns(LowHigh(pc), pc)
    /\ \A v \in Bytes : <<v>> \in Seq(Bytes) /\ Len(<<v>>) = 1 /\ <<v>>[1] = v
<1>1. ASSUME NEW pc \in 0..(Word - 1)
      PROVE  LowHigh(pc) \in Seq(Bytes) /\ Len(LowHigh(pc)) = 2 /\ Returns(LowHigh(pc), pc)
  <2> DEFINE lo == pc % Byte
             hi == pc \div Byte
  <2>1. lo \in Bytes /\ hi \in Bytes
    BY Sizes, WordBytes
  <2>2. LowHigh(pc) = <<lo, hi>>
    BY DEF LowHigh
  <2>3. Returns(LowHigh(pc), pc) <=>
           Len(LowHigh(pc)) = 2 /\ LowHigh(pc)[1] = lo /\ LowHigh(pc)[2] = hi
    BY DEF Returns
  <2> HIDE DEF lo, hi
  <2>4. <<lo, hi>> \in Seq(Bytes) /\ Len(<<lo, hi>>) = 2 /\ <<lo, hi>>[1] = lo /\ <<lo, hi>>[2] = hi
    BY <2>1
  <2> QED
    BY <2>2, <2>3, <2>4
<1>2. \A v \in Bytes : <<v>> \in Seq(Bytes) /\ Len(<<v>>) = 1 /\ <<v>>[1] = v
  OBVIOUS
<1> QED
  BY <1>1, <1>2

\* A step that puts frame f on the stack.
LEMMA DeeperSound ==
    ASSUME IInv, NEW d \in Cpu, NEW f \in Frames, IsFrame(f),
           frames = <<>> => m.sp = StackBase, f.sp = m.sp, d.sp = m.sp + Len(f.bytes),
           \A a \in Bytes : a <= m.sp => d.iram[a] = m.iram[a],
           \A k \in 1..Len(f.bytes) : d.iram[m.sp + k] = f.bytes[k],
           f.kind = "isr" => Resumable(Context(d), Append(frames, f), Len(frames) + 1, Len(frames) + 2)
                             /\ f.ctx = Context(m),
           f.kind # "isr" /\ InIsr => Resumable(Context(d), Append(frames, f), Isr, Len(frames) + 2)
    PROVE  Sound(d, Append(frames, f))
<1> DEFINE gs == Append(frames, f)
           L == Len(frames)
<1>1. /\ m \in Cpu /\ frames \in Seq(Frames) /\ Intact(m, frames) /\ Contained(m, frames)
      /\ \A n \in 1..L : IsFrame(frames[n])
  BY DEF IInv, Sound, Typed
<1>2. /\ gs \in Seq(Frames) /\ Len(gs) = L + 1 /\ gs[L + 1] = f
      /\ \A n \in 1..L : gs[n] = frames[n]
  BY <1>1, AppendedFrames
<1>3. Intact(d, gs)
  BY <1>1, IntactPushed
<1> HIDE DEF gs
<1>4. L \in Nat
  BY <1>1, FramesParts
<1>5. \A n \in 1..Len(gs) : IsFrame(gs[n])
  <2>1. \A n \in 1..Len(gs) : n = L + 1 \/ n \in 1..L
    BY <1>2, <1>4
  <2> QED
    BY <1>1, <1>2, <2>1
<1>6. ASSUME NEW n \in 1..Len(gs), Spans(gs, n, Len(gs) + 1)
      PROVE  Resumable(Context(d), gs, n, Len(gs) + 1)
  <2>1. Len(gs) + 1 = L + 2 /\ gs[n].kind = "isr"
    BY <1>2, <1>4, <1>6 DEF Spans, IsIsr
  <2>2. CASE f.kind = "isr"
    <3>1. n = L + 1
      <4>1. n # L + 1 => L + 1 \in (n + 1)..(Len(gs) + 1 - 1) /\ L + 1 \in 1..Len(gs)
        BY <1>2, <1>4
      <4> QED
        BY <1>2, <1>6, <2>2, <4>1 DEF Spans, IsIsr
    <3> QED
      BY <2>1, <2>2, <3>1 DEF gs
  <2>3. CASE f.kind # "isr"
    <3>1. n \in 1..L /\ n + 1 \in Int /\ L + 1 \in (n + 1)..(L + 1)
      BY <1>2, <1>4, <2>1, <2>3
    <3>2. \A x \in (n + 1)..(L + 1 - 1) : x \in (n + 1)..(Len(gs) + 1 - 1) /\ x \in 1..L
                                          /\ x \in 1..Len(gs)
      BY <1>2, <1>4, <3>1
    <3>3. \A x \in (n + 1)..(L + 1 - 1) : ~IsIsr(frames, x)
      BY <1>2, <1>6, <3>2 DEF Spans, IsIsr
    <3>4. IsIsr(frames, n)
      BY <1>2, <2>1, <3>1 DEF IsIsr
    <3>5. Spans(frames, n, L + 1)
      BY <3>1, <3>3, <3>4 DEF Spans
    <3>6. InIsr /\ n = Isr
      BY <1>1, <3>5, Innermost
    <3> QED
      BY <2>1, <2>3, <3>6 DEF gs
  <2> QED
    BY <2>2, <2>3
<1>7. \A x \in 1..Len(gs) : x <= L => gs[x] = frames[x]
  BY <1>2, <1>4
<1>8. Len(gs) = L + 1 /\ gs[Len(gs)].kind = "isr" => gs[Len(gs)].ctx = Context(m)
  BY <1>2
<1>9. Contained(d, gs)
  <2>1. Len(gs) <= L + 1
    BY <1>2, <1>4
  <2> QED
    BY <1>1, <1>2, <1>6, <1>7, <1>8, <2>1, ContainedStep
<1>10. Sound(d, gs)
  BY <1>2, <1>3, <1>5, <1>9 DEF Sound, Typed
<1> QED
  BY <1>10 DEF gs

\* What a quiet step leaves where it was.
LEMMA FetchQuiet ==
    ASSUME NEW c \in Cpu, NEW i
    PROVE  LET d == Fetched(c, i)
           IN  /\ d \in Cpu /\ d.sp = c.sp /\ d.iram = c.iram /\ d.acc = c.acc
               /\ d.psw = c.psw /\ d.b = c.b /\ d.dptr = c.dptr
<1> DEFINE x == (c.pc + 1 + OperandBytes(i.dst.mode) + OperandBytes(i.src.mode)) % Word
<1>1. Quiet(c, Fetched(c, i))
  BY QuietEnds
<1>2. Fetched(c, i) = [c EXCEPT !.pc = x]
  BY DEF Fetched
<1> HIDE DEF x
<1>3. Fetched(c, i).acc = c.acc /\ Fetched(c, i).psw = c.psw
  BY <1>2 DEF Cpu
<1> QED
  BY <1>1, <1>3 DEF Quiet

\* ACALL and LCALL put the return address on the stack.
LEMMA ExecCallSound == ASSUME IInv, ExecCall PROVE IInv'
<1>1. PICK i \in Calls :
         LET ret == Fetched(m, i).pc
         IN  /\ m' = CpuStep(m, i)
             /\ Deeper([kind |-> "call", bytes |-> LowHigh(ret), ret |-> ret, sp |-> m.sp])
  BY DEF ExecCall, Executes
<1> DEFINE c == Fetched(m, i)
           f == [kind |-> "call", bytes |-> LowHigh(c.pc), ret |-> c.pc, sp |-> m.sp]
           x == IF i.mn = "ACALL" THEN InPage(c, i.dst.arg) ELSE i.dst.arg
           d == Call(c, x)
<1>2. InBody /\ m \in Cpu /\ frames \in Seq(Frames) /\ Intact(m, frames)
  BY DEF ExecCall, IInv, Sound, Typed
<1>3. /\ c \in Cpu /\ c.sp = m.sp /\ c.iram = m.iram /\ c.acc = m.acc
      /\ c.psw = m.psw /\ c.b = m.b /\ c.dptr = m.dptr
  BY <1>2, FetchQuiet
<1>4. /\ frames = <<>> => m.sp = StackBase
      /\ m.sp + Len(f.bytes) < Byte /\ frames' = Append(frames, f)
  BY <1>1 DEF Deeper
<1>5. m' = Retire(m, Execute(c, i))
  BY <1>1 DEF CpuStep
<1>6. i.mn \in {"ACALL", "LCALL"} /\ IsInstruction(i)
  BY NamedIs DEF Calls
<1>7. /\ f.kind = "call" /\ f.bytes = LowHigh(c.pc) /\ f.ret = c.pc /\ f.sp = m.sp
      /\ f = [kind |-> "call", bytes |-> LowHigh(c.pc), ret |-> c.pc, sp |-> m.sp]
  OBVIOUS
<1> HIDE DEF c, f
<1>8. Execute(c, i) = d
  BY <1>6, ExecuteBranches
<1>9. x \in 0..(Word - 1)
  <2>1. PICK size : <<i.mn, i.dst.mode, i.src.mode, size>> \in Table
    BY <1>6 DEF IsInstruction
  <2>2. CASE i.mn = "ACALL"
    <3>1. i.dst.mode = "ADDR11"
      BY <2>1, <2>2, OtherRows
    <3>2. i.dst.arg \in 0..(Page - 1)
      BY <1>6, <3>1, OperandArgs DEF IsInstruction
    <3> QED
      BY <1>3, <2>2, <3>2, InPageType
  <2>3. CASE i.mn = "LCALL"
    <3>1. i.dst.mode = "ADDR16"
      BY <2>1, <2>3, OtherRows
    <3>2. i.dst.arg \in 0..(Word - 1)
      BY <1>6, <3>1, OperandArgs DEF IsInstruction
    <3> QED
      BY <2>3, <3>2
  <2> QED
    BY <1>6, <2>2, <2>3
<1> HIDE DEF x
<1>10. c.pc \in 0..(Word - 1)
  BY <1>3 DEF Cpu
<1>11. /\ f.bytes \in Seq(Bytes) /\ Len(f.bytes) = 2 /\ Returns(f.bytes, c.pc)
       /\ f.bytes[1] = c.pc % Byte /\ f.bytes[2] = c.pc \div Byte
  BY <1>7, <1>10, FrameBytes DEF Returns
<1>12. c.sp + 2 < Byte
  BY <1>3, <1>4, <1>11
<1>13. /\ d \in Cpu /\ d.sp = m.sp + 2
       /\ d.iram[m.sp + 1] = c.pc % Byte /\ d.iram[m.sp + 2] = c.pc \div Byte
       /\ \A a \in Bytes : a <= m.sp => d.iram[a] = m.iram[a]
       /\ d.acc = m.acc /\ d.b = m.b /\ d.psw = m.psw /\ d.dptr = m.dptr
  <2> DEFINE lo == Stacked(c, c.pc % Byte)
  <2>1. Pushed(c, lo, c.pc % Byte) /\ Pushed(lo, d, c.pc \div Byte)
    BY <1>3, <1>9, CallType
  <2> HIDE DEF lo, d
  <2> QED
    BY <1>3, <1>12, <2>1, PushedTwo
<1> HIDE DEF d
<1>14. m' = d
  BY <1>5, <1>8, <1>13, RetireAlike
<1>15. f \in Frames /\ IsFrame(f)
  <2>1. m.sp \in Bytes
    BY <1>2 DEF Cpu
  <2>2. f \in CallFrames
    BY <1>7, <1>10, <1>11, <2>1 DEF CallFrames
  <2> QED
    BY <1>7, <1>11, <2>2 DEF Frames, IsFrame
<1>16. \A k \in 1..Len(f.bytes) : d.iram[m.sp + k] = f.bytes[k]
  <2>1. \A k \in 1..2 : k = 1 \/ k = 2
    OBVIOUS
  <2> QED
    BY <1>11, <1>13, <2>1
<1>17. ASSUME InIsr
       PROVE  Resumable(Context(d), Append(frames, f), Isr, Len(frames) + 2)
  <2>1. /\ Isr \in 1..Len(frames) /\ frames[Isr].stage = "body"
        /\ Resumable(Context(m), frames, Isr, Len(frames) + 1) /\ BankField(m.psw) = 1
    BY <1>2, <1>17, InnerRoutine DEF InBody, IsrStage
  <2>2. \A a \in 0..(Regs - 1) : d.iram[a] = m.iram[a]
    BY <1>2, <1>4, <1>13, AboveBank
  <2>3. /\ Context(d).b = Context(m).b /\ Context(d).dptr = Context(m).dptr
        /\ Context(d).bank0 = Context(m).bank0 /\ BankField(Context(d).psw) = 1
    BY <1>2, <1>13, <2>1, <2>2, ContextParts
  <2> QED
    BY <1>2, <1>7, <1>15, <2>1, <2>3, BodyDeeper
<1>18. Sound(d, Append(frames, f))
  BY <1>4, <1>7, <1>11, <1>13, <1>15, <1>16, <1>17, DeeperSound
<1> QED
  BY <1>4, <1>14, <1>18 DEF IInv

\* An interrupt puts PC on the stack, and its context into the history.
LEMMA InterruptSound == ASSUME IInv, Interrupt PROVE IInv'
<1> DEFINE f == [kind |-> "isr", bytes |-> LowHigh(m.pc), stage |-> "enter", exact |-> TRUE,
                 ctx |-> Context(m), sp |-> m.sp]
           L == Len(frames)
<1>1. m \in Cpu /\ frames \in Seq(Frames) /\ Intact(m, frames)
  BY DEF IInv, Sound, Typed
<1>2. /\ frames = <<>> => m.sp = StackBase
      /\ m.sp + Len(f.bytes) < Byte /\ frames' = Append(frames, f)
  BY DEF Interrupt, Deeper
<1>3. PICK v \in Vectors : m' = EnterVector(v)
  BY DEF Interrupt
<1> DEFINE d == Call(m, v)
<1>4. m' = d
  BY <1>3 DEF EnterVector, Call, PushPc
<1>5. /\ f.kind = "isr" /\ f.bytes = LowHigh(m.pc) /\ f.stage = "enter" /\ f.exact = TRUE
      /\ f.ctx = Context(m) /\ f.sp = m.sp
      /\ f = [kind |-> "isr", bytes |-> LowHigh(m.pc), stage |-> "enter", exact |-> TRUE,
                 ctx |-> Context(m), sp |-> m.sp]
  OBVIOUS
<1> HIDE DEF f
<1>6. m.pc \in 0..(Word - 1) /\ v \in 0..(Word - 1) /\ m.sp \in Bytes
  BY <1>1, CoreAssumption DEF Cpu
<1>7. /\ f.bytes \in Seq(Bytes) /\ Len(f.bytes) = 2 /\ Returns(f.bytes, m.pc)
      /\ f.bytes[1] = m.pc % Byte /\ f.bytes[2] = m.pc \div Byte
  BY <1>5, <1>6, FrameBytes DEF Returns
<1>8. /\ d \in Cpu /\ d.sp = m.sp + 2
      /\ d.iram[m.sp + 1] = m.pc % Byte /\ d.iram[m.sp + 2] = m.pc \div Byte
      /\ \A a \in Bytes : a <= m.sp => d.iram[a] = m.iram[a]
      /\ d.acc = m.acc /\ d.b = m.b /\ d.psw = m.psw /\ d.dptr = m.dptr
  <2> DEFINE lo == Stacked(m, m.pc % Byte)
  <2>1. Pushed(m, lo, m.pc % Byte) /\ Pushed(lo, d, m.pc \div Byte)
    BY <1>1, <1>6, CallType
  <2> HIDE DEF lo, d
  <2>2. m.sp + 2 < Byte
    BY <1>2, <1>7
  <2> QED
    BY <1>1, <2>1, <2>2, PushedTwo
<1> HIDE DEF d
<1>9. Context(m) \in Contexts /\ Context(m).pc = m.pc /\ Context(m).sp = m.sp
  BY <1>1, ContextParts
<1>10. f \in Frames /\ IsFrame(f)
  <2>1. f \in IsrFrames
    BY <1>5, <1>6, <1>7, <1>9 DEF IsrFrames
  <2>2. f.kind # "call" /\ f.kind # "push"
    BY <1>5
  <2>3. Returns(f.bytes, f.ctx.pc) /\ f.ctx.sp = f.sp
    BY <1>5, <1>7, <1>9
  <2> QED
    BY <2>1, <2>2, <2>3 DEF Frames, IsFrame
<1>11. \A k \in 1..Len(f.bytes) : d.iram[m.sp + k] = f.bytes[k]
  <2>1. \A k \in 1..2 : k = 1 \/ k = 2
    OBVIOUS
  <2> QED
    BY <1>7, <1>8, <2>1
<1>12. Resumable(Context(d), Append(frames, f), L + 1, L + 2)
  <2>1. Append(frames, f)[L + 1] = f
    BY <1>1, <1>10, AppendedFrames
  <2>2. \A a \in 0..(Regs - 1) : d.iram[a] = m.iram[a]
    BY <1>1, <1>2, <1>8, AboveBank
  <2>3. /\ Context(d).b = f.ctx.b /\ Context(d).dptr = f.ctx.dptr
        /\ Context(d).bank0 = f.ctx.bank0 /\ Context(d).acc = f.ctx.acc
        /\ Context(d).psw = f.ctx.psw
    BY <1>1, <1>5, <1>8, <2>2, ContextParts
  <2>4. Alike(Context(d).psw, f.ctx.psw, f.exact)
    BY <2>3 DEF Alike
  <2>5. L \in Nat
    BY <1>1, FramesParts
  <2> DEFINE n == L + 1
             e == L + 2
             gs == Append(frames, f)
  <2>6. ~(n + 1 < e) /\ ~(n + 2 < e) /\ e <= n + 3
    BY <2>5
  <2>7. gs[n] = f
    BY <2>1
  <2> HIDE DEF n, e, gs
  <2>8. Resumable(Context(d), gs, n, e)
    BY <1>5, <2>3, <2>4, <2>6, <2>7 DEF Resumable
  <2> QED
    BY <2>8 DEF n, e, gs
<1>13. Sound(d, Append(frames, f))
  BY <1>2, <1>5, <1>7, <1>8, <1>10, <1>11, <1>12, DeeperSound
<1> QED
  BY <1>2, <1>4, <1>13 DEF IInv

\* A push in the prologue of an interrupt routine.
LEMMA EnterDeeper ==
    ASSUME NEW fs \in Seq(Frames), NEW f \in Frames, NEW n \in 1..Len(fs), fs[n].stage = "enter",
           NEW k, NEW l, Resumable(k, fs, n, Len(fs) + 1), Same(l, k, fs[n].exact),
           f.kind = "push", f.from \in {PSW, ACC}, Saves(f, fs[n]),
           \A x \in (n + 1)..Len(fs) : fs[x].from # f.from
    PROVE  Resumable(l, Append(fs, f), n, Len(fs) + 2)
<1> DEFINE gs == Append(fs, f)
           N == Len(fs)
<1>1. /\ gs[N + 1] = f /\ \A x \in 1..N : gs[x] = fs[x]
  BY AppendedFrames
<1> HIDE DEF gs
<1>2. N \in Nat /\ n \in Nat /\ n <= N /\ gs[n] = fs[n]
  BY <1>1, LenProperties
<1>3. /\ k.b = fs[n].ctx.b /\ k.dptr = fs[n].ctx.dptr /\ k.bank0 = fs[n].ctx.bank0
      /\ n + 1 < N + 1 => Saves(fs[n + 1], fs[n])
      /\ n + 2 < N + 1 => Saves(fs[n + 2], fs[n]) /\ fs[n + 1].from # fs[n + 2].from
      /\ N + 1 <= n + 3
      /\ k.acc = fs[n].ctx.acc /\ Alike(k.psw, fs[n].ctx.psw, fs[n].exact)
  BY DEF Resumable
<1>4. \A x \in (n + 1)..N : fs[x].from # f.from
  OBVIOUS
<1> HIDE DEF N
<1>5. N # n + 2
  <2> SUFFICES ASSUME N = n + 2 PROVE FALSE
    OBVIOUS
  <2>1. n + 1 < N + 1 /\ n + 2 < N + 1 /\ n + 1 \in (n + 1)..N /\ n + 2 \in (n + 1)..N
    BY <1>2
  <2>2. /\ fs[n + 1].from \in {PSW, ACC} /\ fs[n + 2].from \in {PSW, ACC}
        /\ fs[n + 1].from # fs[n + 2].from
    BY <1>3, <2>1 DEF Saves
  <2>3. fs[n + 1].from # f.from /\ fs[n + 2].from # f.from
    BY <1>4, <2>1
  <2> QED
    BY <2>2, <2>3
<1>6. N = n \/ N = n + 1
  BY <1>2, <1>3, <1>5
<1> DEFINE e == N + 2
<1>7. ~(n + 2 < e) \/ N = n + 1
  BY <1>2, <1>6
<1>8. e <= n + 3
  BY <1>2, <1>6
<1> HIDE DEF e
<1>9. Saves(gs[n + 1], gs[n])
  <2>1. CASE N = n
    BY <1>1, <1>2, <2>1
  <2>2. CASE N = n + 1
    <3>1. n + 1 \in 1..N /\ n + 1 < N + 1
      BY <1>2, <2>2
    <3> QED
      BY <1>1, <1>2, <1>3, <3>1
  <2> QED
    BY <1>6, <2>1, <2>2
<1>10. ASSUME n + 2 < e
       PROVE  Saves(gs[n + 2], gs[n]) /\ gs[n + 1].from # gs[n + 2].from
  <2>1. N = n + 1
    BY <1>7, <1>10
  <2>2. n + 1 \in 1..N /\ n + 2 = N + 1 /\ n + 1 \in (n + 1)..N
    BY <1>2, <2>1
  <2>3. gs[n + 2] = f /\ gs[n + 1] = fs[n + 1] /\ fs[n + 1].from # f.from
    BY <1>1, <1>4, <2>2
  <2> QED
    BY <1>2, <2>3
<1>11. /\ l.b = gs[n].ctx.b /\ l.dptr = gs[n].ctx.dptr /\ l.bank0 = gs[n].ctx.bank0
       /\ l.acc = gs[n].ctx.acc /\ Alike(l.psw, gs[n].ctx.psw, gs[n].exact)
       /\ gs[n].stage = "enter"
  BY <1>2, <1>3 DEF Same, Alike
<1>12. Resumable(l, gs, n, e)
  BY <1>8, <1>9, <1>10, <1>11 DEF Resumable
<1> QED
  BY <1>12 DEF gs, N, e

\* What PUSH reads does not depend on where the program is.
LEMMA ReadUp ==
    ASSUME NEW c \in Cpu, NEW i, NEW a \in Bytes
    PROVE  LET d == Fetched(c, i)
           IN  /\ ReadDirect([d EXCEPT !.sp = (d.sp + 1) % Byte], a)
                     = ReadDirect([c EXCEPT !.sp = (@ + 1) % Byte], a)
               /\ a = ACC => ReadDirect([c EXCEPT !.sp = (@ + 1) % Byte], a) = c.acc
               /\ a = PSW => ReadDirect([c EXCEPT !.sp = (@ + 1) % Byte], a) = c.psw
<1> DEFINE x == (c.pc + 1 + OperandBytes(i.dst.mode) + OperandBytes(i.src.mode)) % Word
           d == [c EXCEPT !.pc = x]
           t == (c.sp + 1) % Byte
           u == [c EXCEPT !.sp = t]
           w == [d EXCEPT !.sp = t]
<1>1. Fetched(c, i) = d
  BY DEF Fetched
<1> HIDE DEF x
<1>2. d.sp = c.sp
  BY DEF Cpu
<1> HIDE DEF t
<1>3. /\ w.iram = u.iram /\ w.acc = u.acc /\ w.b = u.b /\ w.psw = u.psw /\ w.sp = u.sp
      /\ w.dptr = u.dptr /\ w.sfr = u.sfr /\ u.acc = c.acc /\ u.psw = c.psw
  BY DEF Cpu
<1>4. [Fetched(c, i) EXCEPT !.sp = (Fetched(c, i).sp + 1) % Byte] = w
  BY <1>1, <1>2 DEF t
<1>5. [c EXCEPT !.sp = (@ + 1) % Byte] = u
  BY DEF t
<1> HIDE DEF u, w, d
<1>6. ReadDirect(w, a) = ReadDirect(u, a)
  BY <1>3 DEF ReadDirect
<1>7. (a = ACC => ReadDirect(u, a) = c.acc) /\ (a = PSW => ReadDirect(u, a) = c.psw)
  BY <1>3, ReadDirectCases
<1> QED
  BY <1>4, <1>5, <1>6, <1>7

\* PUSH, in the prologue of an interrupt routine or elsewhere.
LEMMA ExecPushSound == ASSUME IInv, ExecPush PROVE IInv'
<1> DEFINE up == [m EXCEPT !.sp = (@ + 1) % Byte]
           L == Len(frames)
<1>1. PICK i \in Pushes :
         /\ InIsr /\ IsrStage = "enter" => i.dst.arg \in {PSW, ACC} \ Saved
         /\ InIsr /\ IsrStage = "body" => i.dst.arg = ACC
         /\ m' = CpuStep(m, i)
         /\ Deeper([kind |-> "push", bytes |-> <<ReadDirect(up, i.dst.arg)>>,
                    from |-> i.dst.arg, sp |-> m.sp])
  BY DEF ExecPush, Executes
<1> DEFINE a == i.dst.arg
           v == ReadDirect(up, a)
           c == Fetched(m, i)
           f == [kind |-> "push", bytes |-> <<v>>, from |-> a, sp |-> m.sp]
           d == Push(c, a)
<1>2. m \in Cpu /\ frames \in Seq(Frames) /\ Intact(m, frames) /\ L \in Nat
  BY FramesParts DEF IInv, Sound, Typed
<1>3. /\ frames = <<>> => m.sp = StackBase
      /\ m.sp + Len(f.bytes) < Byte /\ frames' = Append(frames, f)
  BY <1>1 DEF Deeper
<1>4. i.mn = "PUSH" /\ IsInstruction(i)
  BY NamedIs DEF Pushes
<1>5. a \in Bytes
  <2>1. PICK size : <<i.mn, i.dst.mode, i.src.mode, size>> \in Table
    BY <1>4 DEF IsInstruction
  <2>2. i.dst.mode = "DIRECT"
    BY <1>4, <2>1, OtherRows
  <2> QED
    BY <1>4, <2>2, OperandArgs DEF IsInstruction
<1>6. /\ c \in Cpu /\ c.sp = m.sp /\ c.iram = m.iram /\ c.acc = m.acc
      /\ c.psw = m.psw /\ c.b = m.b /\ c.dptr = m.dptr
  BY <1>2, FetchQuiet
<1>7. /\ ReadDirect([c EXCEPT !.sp = (c.sp + 1) % Byte], a) = v
      /\ (a = ACC => v = m.acc) /\ (a = PSW => v = m.psw)
  BY <1>2, <1>5, ReadUp
<1>8. m' = Retire(m, d)
  BY <1>1, <1>4, ExecuteBranches DEF CpuStep
<1> HIDE DEF c
<1>9. v \in Bytes /\ Pushed(c, d, v)
  <2> DEFINE w == ReadDirect([c EXCEPT !.sp = (c.sp + 1) % Byte], a)
  <2>1. w \in Bytes /\ Pushed(c, Push(c, a), w)
    BY <1>5, <1>6, PushType
  <2> QED
    BY <1>7, <2>1
<1> HIDE DEF v, d
<1>10. /\ f.kind = "push" /\ f.bytes = <<v>> /\ f.from = a /\ f.sp = m.sp
       /\ f = [kind |-> "push", bytes |-> <<v>>, from |-> a, sp |-> m.sp]
  OBVIOUS
<1> HIDE DEF f
<1>11. f.bytes \in Seq(Bytes) /\ Len(f.bytes) = 1 /\ f.bytes[1] = v
  BY <1>9, <1>10, FrameBytes
<1>12. /\ d \in Cpu /\ d.sp = m.sp + 1 /\ d.iram[m.sp + 1] = v
       /\ \A x \in Bytes : x <= m.sp => d.iram[x] = m.iram[x]
       /\ d.acc = m.acc /\ d.b = m.b /\ d.psw = m.psw /\ d.dptr = m.dptr
  <2>1. c.sp + 1 < Byte
    BY <1>3, <1>6, <1>11
  <2> QED
    BY <1>6, <1>9, <2>1, PushedOne
<1>13. m' = d
  BY <1>8, <1>12, RetireAlike
<1>14. f \in Frames /\ IsFrame(f)
  <2>1. m.sp \in Bytes
    BY <1>2 DEF Cpu
  <2>2. f \in PushFrames
    BY <1>5, <1>10, <1>11, <2>1 DEF PushFrames
  <2> QED
    BY <1>10, <1>11, <2>2 DEF Frames, IsFrame
<1>15. \A k \in 1..Len(f.bytes) : d.iram[m.sp + k] = f.bytes[k]
  <2>1. \A k \in 1..1 : k = 1
    OBVIOUS
  <2> QED
    BY <1>11, <1>12, <2>1
<1>16. ASSUME InIsr
       PROVE  Resumable(Context(d), Append(frames, f), Isr, L + 2)
  <2>1. /\ Isr \in 1..L /\ frames[Isr] \in Frames
        /\ Resumable(Context(m), frames, Isr, L + 1)
        /\ IsrStage = "enter" \/ (IsrStage = "body" /\ BankField(m.psw) = 1)
    <3>1. IsrStage # "leave"
      BY <1>16 DEF ExecPush
    <3> QED
      BY <1>16, <3>1, InnerRoutine
  <2>2. \A x \in 0..(Regs - 1) : d.iram[x] = m.iram[x]
    BY <1>2, <1>3, <1>12, AboveBank
  <2>3. /\ Context(d).b = Context(m).b /\ Context(d).dptr = Context(m).dptr
        /\ Context(d).bank0 = Context(m).bank0 /\ Context(d).acc = Context(m).acc
        /\ Context(d).psw = Context(m).psw /\ Context(m).psw = m.psw /\ Context(m).acc = m.acc
    BY <1>2, <1>12, <2>2, ContextParts
  <2>4. CASE IsrStage = "body"
    <3>1. f.from = ACC /\ frames[Isr].stage = "body"
      BY <1>1, <1>10, <1>16, <2>4 DEF IsrStage
    <3>2. BankField(Context(d).psw) = 1
      BY <2>1, <2>3, <2>4
    <3> QED
      BY <1>2, <1>14, <2>1, <2>3, <3>1, <3>2, BodyDeeper
  <2>5. CASE IsrStage = "enter"
    <3>1. f.from \in {PSW, ACC} /\ f.from \notin Saved /\ frames[Isr].stage = "enter"
      BY <1>1, <1>10, <1>16, <2>5 DEF IsrStage
    <3>2. \A x \in (Isr + 1)..L : frames[x].from # f.from
      BY <3>1 DEF Saved
    <3>3. Same(Context(d), Context(m), frames[Isr].exact)
      BY <2>3 DEF Same, Alike
    <3>4. m.acc = frames[Isr].ctx.acc /\ Alike(m.psw, frames[Isr].ctx.psw, frames[Isr].exact)
      BY <2>1, <2>3, <3>1 DEF Resumable
    <3>5. Saves(f, frames[Isr])
      BY <1>7, <1>10, <1>11, <3>1, <3>4 DEF Saves
    <3> QED
      BY <1>2, <1>10, <1>14, <2>1, <3>1, <3>2, <3>3, <3>5, EnterDeeper
  <2> QED
    BY <2>1, <2>4, <2>5
<1>17. Sound(d, Append(frames, f))
  BY <1>3, <1>10, <1>11, <1>12, <1>14, <1>15, <1>16, DeeperSound
<1> QED
  BY <1>3, <1>13, <1>17 DEF IInv

------------------------------------------------------------------------------
\* Returns and pops

\* An interrupt routine enters a stage, or promises less than before: its frame is replaced.
LEMMA StagedFrames ==
    ASSUME NEW fs \in Seq(Frames), NEW n \in 1..Len(fs), NEW g \in Frames,
           NEW gs, gs = [fs EXCEPT ![n] = g]
    PROVE  /\ gs \in Seq(Frames) /\ Len(gs) = Len(fs) /\ gs[n] = g
           /\ \A k \in 1..Len(fs) : k # n => gs[k] = fs[k]
<1>1. /\ [fs EXCEPT ![n] = g] \in Seq(Frames) /\ Len([fs EXCEPT ![n] = g]) = Len(fs)
      /\ \A k \in 1..Len(fs) : [fs EXCEPT ![n] = g][k] = IF k = n THEN g ELSE fs[k]
  BY ExceptSeq
<1> QED
  BY <1>1

\* The routine that is innermost without the last frame is so with it.
LEMMA LastGone ==
    ASSUME NEW fs \in Seq(Frames), NEW gs \in Seq(Frames), Len(gs) = Len(fs) - 1,
           \A x \in 1..Len(gs) : gs[x].kind = fs[x].kind,
           fs[Len(fs)].kind # "isr", NEW n \in 1..Len(gs)
    PROVE  Spans(gs, n, Len(gs) + 1) <=> Spans(fs, n, Len(fs) + 1)
<1>1. Len(fs) \in Nat /\ Len(gs) \in Nat /\ Len(gs) + 1 = Len(fs)
  BY FramesParts
<1>2. IsIsr(gs, n) <=> IsIsr(fs, n)
  BY <1>1 DEF IsIsr
<1> DEFINE N == Len(gs)
           M == Len(fs)
<1>3. N \in Nat /\ M = N + 1 /\ n \in Nat /\ n <= N
  BY <1>1
<1> HIDE DEF N, M
<1>4. N + 1 \in (n + 1)..(N + 1) /\ M + 1 \in (n + 1)..(M + 1)
  BY <1>3
<1>5. \A x \in 1..N : x \in 1..M /\ gs[x].kind = fs[x].kind
  BY <1>1, <1>3 DEF N, M
<1>6. ASSUME Spans(gs, n, N + 1) PROVE Spans(fs, n, M + 1)
  <2> DEFINE e == N + 1
  <2>1. e = N + 1
    OBVIOUS
  <2> HIDE DEF e
  <2>2. IsIsr(gs, n) /\ \A k \in (n + 1)..(e - 1) : ~IsIsr(gs, k)
    BY <1>6, <2>1 DEF Spans
  <2>3. ASSUME NEW k \in (n + 1)..(M + 1 - 1) PROVE ~IsIsr(fs, k)
    <3>1. CASE k = M
      BY <3>1 DEF IsIsr, M
    <3>2. CASE k # M
      <4>1. k \in (n + 1)..(e - 1) /\ k \in 1..N
        BY <1>3, <2>1, <2>3, <3>2
      <4> QED
        BY <1>5, <2>2, <4>1 DEF IsIsr, N
    <3> QED
      BY <3>1, <3>2
  <2> QED
    BY <1>2, <1>4, <2>2, <2>3 DEF Spans, M
<1>7. ASSUME Spans(fs, n, M + 1) PROVE Spans(gs, n, N + 1)
  <2> DEFINE e == M + 1
  <2>1. e = M + 1
    OBVIOUS
  <2> HIDE DEF e
  <2>2. IsIsr(fs, n) /\ \A k \in (n + 1)..(e - 1) : ~IsIsr(fs, k)
    BY <1>7, <2>1 DEF Spans
  <2>3. ASSUME NEW k \in (n + 1)..(N + 1 - 1) PROVE ~IsIsr(gs, k)
    <3>1. k \in (n + 1)..(e - 1) /\ k \in 1..N
      BY <1>3, <2>1, <2>3
    <3> QED
      BY <1>5, <2>2, <3>1 DEF IsIsr, M
  <2> QED
    BY <1>2, <1>4, <2>2, <2>3 DEF Spans, N
<1> QED
  BY <1>6, <1>7 DEF N, M

\* A step that takes the last frame off the stack.
LEMMA ShallowerSound ==
    ASSUME IInv, frames # <<>>, NEW d \in Cpu, NEW gs \in Seq(Frames),
           Len(gs) = Len(frames) - 1, d.sp = Top.sp,
           \A a \in Bytes : a > StackBase => d.iram[a] = m.iram[a],
           \A x \in 1..Len(gs) :
              /\ gs[x].kind = frames[x].kind /\ gs[x].bytes = frames[x].bytes
              /\ gs[x].sp = frames[x].sp
              /\ gs[x].kind # "isr" => gs[x] = frames[x]
              /\ gs[x].kind = "isr" => /\ gs[x].ctx = frames[x].ctx
                                       /\ gs[x].exact => frames[x].exact
                                       /\ \/ gs[x].stage = frames[x].stage
                                          \/ x = Isr /\ Top.kind # "isr",
           Top.kind # "isr" /\ InIsr => Resumable(Context(d), gs, Isr, Len(frames)),
           Top.kind = "isr" => \A n \in 1..Len(gs) : Spans(gs, n, Len(frames)) =>
                                  Resumable(Context(d), gs, n, Len(frames))
    PROVE  Sound(d, gs)
<1>1. /\ m \in Cpu /\ frames \in Seq(Frames) /\ Intact(m, frames) /\ Contained(m, frames)
      /\ \A n \in 1..Len(frames) : IsFrame(frames[n])
  BY DEF IInv, Sound, Typed
<1>2. /\ Len(frames) \in Nat /\ Len(gs) \in Nat /\ Len(gs) + 1 = Len(frames)
      /\ \A x \in 1..Len(gs) : x \in 1..Len(frames)
  BY <1>1, FramesParts
<1>3. Intact(d, gs)
  BY <1>1, IntactPopped DEF Top
<1>4. \A x \in 1..Len(gs) : IsFrame(gs[x])
  BY <1>1, <1>2 DEF IsFrame
<1>5. ASSUME NEW n \in 1..Len(gs), Spans(gs, n, Len(gs) + 1)
      PROVE  Resumable(Context(d), gs, n, Len(gs) + 1)
  <2>1. CASE Top.kind = "isr"
    BY <1>2, <1>5, <2>1
  <2>2. CASE Top.kind # "isr"
    <3>1. Spans(frames, n, Len(frames) + 1)
      BY <1>1, <1>5, <2>2, LastGone DEF Top
    <3>2. InIsr /\ n = Isr
      BY <1>1, <3>1, Innermost
    <3> QED
      BY <1>2, <2>2, <3>2
  <2> QED
    BY <2>1, <2>2
<1>6. ASSUME NEW x \in 1..Len(gs), gs[x].kind = "isr", gs[x].stage # frames[x].stage
      PROVE  Spans(gs, x, Len(gs) + 1)
  <2>1. x = Isr /\ Top.kind # "isr"
    BY <1>6
  <2>2. frames[x].kind = "isr" /\ x \in 1..Len(frames)
    BY <1>2, <1>6
  <2>3. InIsr
    BY <1>1, <2>2, Innermost
  <2>4. Spans(frames, Isr, Len(frames) + 1)
    BY <1>1, <2>3, Innermost
  <2> QED
    BY <1>1, <2>1, <2>4, LastGone DEF Top
<1>7. \A x \in 1..Len(gs) : x <= Len(frames) =>
         /\ gs[x].kind = frames[x].kind
         /\ gs[x].kind # "isr" => gs[x] = frames[x]
         /\ gs[x].kind = "isr" => /\ gs[x].ctx = frames[x].ctx
                                  /\ gs[x].exact => frames[x].exact
                                  /\ \/ gs[x].stage = frames[x].stage
                                     \/ Spans(gs, x, Len(gs) + 1)
  BY <1>6
<1>8. Len(gs) <= Len(frames) + 1 /\ Len(gs) # Len(frames) + 1
  BY <1>2
<1>9. Contained(d, gs)
  BY <1>1, <1>5, <1>7, <1>8, ContainedStep
<1> QED
  BY <1>3, <1>4, <1>9 DEF Sound, Typed

\* RET and RETI lead where the last frame says.
LEMMA ReturnLeads ==
    ASSUME IInv, frames # <<>>, NEW pc \in 0..(Word - 1), Returns(Top.bytes, pc),
           NEW i, i.mn \in {"RET", "RETI"}
    PROVE  LET d == CpuStep(m, i)
           IN  /\ d \in Cpu /\ d.pc = pc /\ d.sp = Top.sp /\ d.iram = m.iram
               /\ d.acc = m.acc /\ d.psw = m.psw /\ d.b = m.b /\ d.dptr = m.dptr
<1> DEFINE c == Fetched(m, i)
           d == Return(c)
           s == Top.sp
<1>1. /\ m \in Cpu /\ frames \in Seq(Frames) /\ Intact(m, frames)
  BY DEF IInv, Sound, Typed
<1>2. Len(frames) \in 1..Len(frames) /\ s \in Nat
  BY <1>1, FramesParts DEF Top
<1>3. /\ c \in Cpu /\ c.sp = m.sp /\ c.iram = m.iram /\ c.acc = m.acc
      /\ c.psw = m.psw /\ c.b = m.b /\ c.dptr = m.dptr
  BY <1>1, FetchQuiet
<1>4. CpuStep(m, i) = Retire(m, d)
  BY ExecuteBranches DEF CpuStep
<1>5. Len(Top.bytes) = 2 /\ Top.bytes[1] = pc % Byte /\ Top.bytes[2] = pc \div Byte
  BY DEF Returns
<1>6. m.sp = s + 2
  BY <1>1, <1>2, <1>5 DEF Intact, EndIn, Top
<1>7. m.iram[s + 1] = pc % Byte /\ m.iram[s + 2] = pc \div Byte
  <2>1. 1 \in 1..Len(Top.bytes) /\ 2 \in 1..Len(Top.bytes)
    BY <1>5
  <2>2. m.iram[s + 1] = Top.bytes[1] /\ m.iram[s + 2] = Top.bytes[2]
    BY <1>1, <1>2, <2>1 DEF Intact, Top
  <2> QED
    BY <1>5, <2>2
<1> HIDE DEF c, s
<1>8. c.sp \in Bytes /\ c.sp >= 1 /\ c.sp >= 2 /\ c.sp - 1 = s + 1 /\ c.sp - 2 = s
  <2>1. c.sp \in Bytes
    BY <1>3 DEF Cpu
  <2> QED
    BY <1>2, <1>3, <1>6, <2>1
<1>9. (c.sp - 1) % Byte = s + 1 /\ (c.sp - 2) % Byte = s
  BY <1>8, SpTwice
<1>10. /\ d \in Cpu /\ d.sp = (c.sp - 2) % Byte
       /\ d.pc = c.iram[c.sp] * Byte + c.iram[(c.sp - 1) % Byte]
       /\ d.acc = c.acc /\ d.b = c.b /\ d.psw = c.psw /\ d.dptr = c.dptr /\ d.iram = c.iram
  BY <1>3, ReturnType
<1>11. d.pc = (pc \div Byte) * Byte + (pc % Byte)
  BY <1>3, <1>6, <1>7, <1>9, <1>10
<1>12. (pc \div Byte) * Byte + (pc % Byte) = pc
  <2>1. pc = Byte * (pc \div Byte) + (pc % Byte) /\ pc \div Byte \in Bytes
    BY Sizes, WordBytes
  <2>2. \A x, y \in Int : x * y = y * x
    OBVIOUS
  <2>3. pc \div Byte \in Int /\ Byte \in Int
    BY <2>1, Sizes DEF Bytes
  <2> QED
    BY <2>1, <2>2, <2>3
<1> HIDE DEF d
<1>13. CpuStep(m, i) = d
  <2>1. m.acc = d.acc
    BY <1>3, <1>10
  <2>2. Retire(m, d) = d
    BY <1>10, <2>1, RetireAlike
  <2> QED
    BY <1>4, <2>2
<1>14. d.sp = Top.sp
  BY <1>9, <1>10 DEF s
<1> QED
  BY <1>3, <1>10, <1>11, <1>12, <1>13, <1>14

\* One frame less in the body of an interrupt routine.
LEMMA BodyShallower ==
    ASSUME NEW fs \in Seq(Frames), NEW gs, NEW n \in 1..Len(fs), fs[n].stage = "body",
           \A x \in 1..(Len(fs) - 1) : gs[x] = fs[x],
           NEW k, NEW l, Resumable(k, fs, n, Len(fs) + 1),
           l.b = k.b, l.dptr = k.dptr, l.bank0 = k.bank0, BankField(l.psw) = 1,
           Len(fs) > n + 2 \/ fs[Len(fs)].kind # "push"
    PROVE  Resumable(l, gs, n, Len(fs)) /\ Len(fs) >= n + 3
<1> DEFINE N == Len(fs)
<1>1. N \in Nat /\ n \in Nat /\ n <= N
  BY FramesParts
<1>2. /\ k.b = fs[n].ctx.b /\ k.dptr = fs[n].ctx.dptr /\ k.bank0 = fs[n].ctx.bank0
      /\ n + 1 < N + 1 => Saves(fs[n + 1], fs[n])
      /\ n + 2 < N + 1 => Saves(fs[n + 2], fs[n]) /\ fs[n + 1].from # fs[n + 2].from
      /\ N + 1 >= n + 3
      /\ \A x \in (n + 3)..(N + 1 - 1) : fs[x].kind = "push" => fs[x].from = ACC
      /\ n + 1 < N + 1 /\ fs[n].exact => fs[n + 1].from = PSW
  BY DEF Resumable
<1>3. N # n + 2
  <2>1. N = n + 2 => n + 2 < N + 1
    BY <1>1
  <2> QED
    BY <1>1, <1>2, <2>1 DEF Saves
<1> HIDE DEF N
<1>4. /\ N >= n + 3 /\ n + 1 < N + 1 /\ n + 2 < N + 1
      /\ n \in 1..(N - 1) /\ n + 1 \in 1..(N - 1) /\ n + 2 \in 1..(N - 1)
  BY <1>1, <1>2, <1>3
<1>5. \A x \in (n + 3)..(N - 1) : x \in 1..(N - 1) /\ x \in (n + 3)..(N + 1 - 1)
  BY <1>1
<1>6. \A x \in 1..(N - 1) : gs[x] = fs[x]
  BY DEF N
<1>7. /\ l.b = gs[n].ctx.b /\ l.dptr = gs[n].ctx.dptr /\ l.bank0 = gs[n].ctx.bank0
      /\ Saves(gs[n + 1], gs[n]) /\ Saves(gs[n + 2], gs[n])
      /\ gs[n + 1].from # gs[n + 2].from /\ gs[n].stage = "body"
      /\ gs[n].exact => gs[n + 1].from = PSW
  BY <1>2, <1>4, <1>6
<1>8. \A x \in (n + 3)..(N - 1) : gs[x].kind = "push" => gs[x].from = ACC
  BY <1>2, <1>5, <1>6
<1>9. Resumable(l, gs, n, N)
  BY <1>4, <1>7, <1>8 DEF Resumable
<1> QED
  BY <1>4, <1>9 DEF N

\* RET leads back behind its call.
LEMMA ExecRetSound == ASSUME IInv, ExecRet PROVE IInv' /\ m'.pc = Top.ret /\ m'.sp = Top.sp
<1> DEFINE d == CpuStep(m, Ret)
           gs == Unwound(frames)
           L == Len(frames)
<1>1. /\ InBody /\ frames # <<>> /\ Top.kind = "call" /\ m' = d /\ frames' = gs
  BY DEF ExecRet, Executes
<1>2. /\ m \in Cpu /\ frames \in Seq(Frames) /\ \A n \in 1..L : IsFrame(frames[n])
  BY DEF IInv, Sound, Typed
<1>3. L \in Nat /\ L \in 1..L /\ Top \in Frames
  BY <1>1, <1>2, FramesParts DEF Top
<1>4. Returns(Top.bytes, Top.ret) /\ Top.ret \in 0..(Word - 1)
  BY <1>1, <1>2, <1>3, FrameParts DEF Top, IsFrame
<1>5. Ret.mn \in {"RET", "RETI"}
  BY DEF Ret
<1>6. /\ d \in Cpu /\ d.pc = Top.ret /\ d.sp = Top.sp /\ d.iram = m.iram
      /\ d.acc = m.acc /\ d.psw = m.psw /\ d.b = m.b /\ d.dptr = m.dptr
  BY <1>1, <1>4, <1>5, ReturnLeads
<1> HIDE DEF d
<1>7. gs \in Seq(Frames) /\ Len(gs) = L - 1 /\ \A n \in 1..(L - 1) : gs[n] = frames[n]
  BY <1>1, <1>2, UnwoundFrames
<1> HIDE DEF gs
<1>8. ASSUME InIsr PROVE Resumable(Context(d), gs, Isr, L)
  <2>1. /\ Isr \in 1..L /\ frames[Isr].stage = "body"
        /\ Resumable(Context(m), frames, Isr, L + 1) /\ BankField(m.psw) = 1
    BY <1>1, <1>8, InnerRoutine DEF InBody, IsrStage
  <2>2. /\ Context(d).b = Context(m).b /\ Context(d).dptr = Context(m).dptr
        /\ Context(d).bank0 = Context(m).bank0 /\ BankField(Context(d).psw) = 1
    BY <1>2, <1>6, <2>1, ContextParts
  <2>3. frames[L].kind # "push"
    BY <1>1 DEF Top
  <2> QED
    BY <1>2, <1>7, <2>1, <2>2, <2>3, BodyShallower
<1>9. Sound(d, gs)
  BY <1>1, <1>6, <1>7, <1>8, ShallowerSound
<1> QED
  BY <1>1, <1>6, <1>9 DEF IInv

\* What RETI leads back to.
LEMMA ExecRetiContext ==
    ASSUME IInv, ExecReti
    PROVE  /\ frames # <<>> /\ Top.kind = "isr" /\ m' \in Cpu
           /\ Len(frames) \in Nat /\ Len(frames) \in 1..Len(frames)
           /\ Same(Context(m'), Top.ctx, Top.exact)
           /\ m'.pc = Top.ctx.pc /\ m'.sp = Top.sp /\ m'.sp = Top.ctx.sp /\ m'.iram = m.iram
<1> DEFINE d == CpuStep(m, Reti)
           L == Len(frames)
<1>1. InIsr /\ IsrStage = "leave" /\ L = Isr /\ m' = d
  BY DEF ExecReti, Executes
<1>2. m \in Cpu /\ frames \in Seq(Frames) /\ \A n \in 1..L : IsFrame(frames[n])
  BY DEF IInv, Sound, Typed
<1>3. /\ Isr \in 1..L /\ frames[Isr].kind = "isr" /\ frames[Isr] \in Frames
      /\ Resumable(Context(m), frames, Isr, L + 1) /\ frames[Isr].exact \in BOOLEAN
  BY <1>1, InnerRoutine
<1>4. L \in Nat /\ L \in 1..L /\ Top = frames[L] /\ frames # <<>>
  BY <1>1, <1>2, <1>3, FramesParts DEF Top
<1>5. Top.kind = "isr" /\ Top \in Frames /\ Top.stage = "leave" /\ Top.exact \in BOOLEAN
  BY <1>1, <1>3, <1>4 DEF IsrStage
<1>6. Top.ctx \in Contexts
  BY <1>5, FrameParts
<1>7. Top.ctx.pc \in 0..(Word - 1) /\ Top.ctx.psw \in Bytes
  BY <1>6 DEF Contexts
<1>8. Returns(Top.bytes, Top.ctx.pc) /\ Top.ctx.sp = Top.sp
  BY <1>2, <1>4, <1>5 DEF IsFrame
<1>9. Reti.mn \in {"RET", "RETI"}
  BY DEF Reti, Ret
<1>10. /\ d \in Cpu /\ d.pc = Top.ctx.pc /\ d.sp = Top.sp /\ d.iram = m.iram
       /\ d.acc = m.acc /\ d.psw = m.psw /\ d.b = m.b /\ d.dptr = m.dptr
  BY <1>4, <1>7, <1>8, <1>9, ReturnLeads
<1> HIDE DEF d
<1>11. /\ Context(m).b = Top.ctx.b /\ Context(m).dptr = Top.ctx.dptr
       /\ Context(m).bank0 = Top.ctx.bank0
       /\ Context(m).acc = Top.ctx.acc /\ Alike(Context(m).psw, Top.ctx.psw, Top.exact)
  <2>1. Resumable(Context(m), frames, L, L + 1) /\ frames[L].stage = "leave"
    BY <1>1, <1>3, <1>4, <1>5
  <2> QED
    BY <1>4, <2>1 DEF Resumable
<1>12. /\ Context(d).b = Context(m).b /\ Context(d).dptr = Context(m).dptr
       /\ Context(d).bank0 = Context(m).bank0 /\ Context(d).acc = Context(m).acc
       /\ Context(d).psw = Context(m).psw /\ Context(d).psw \in Bytes
  <2>1. Context(d).psw = d.psw /\ d.psw \in Bytes
    BY <1>10, ContextParts DEF Cpu
  <2> QED
    BY <1>2, <1>10, <2>1, ContextParts
<1>13. BankField(Context(d).psw) = BankField(Top.ctx.psw)
  BY <1>7, <1>11, <1>12, AlikeBank
<1>14. Same(Context(d), Top.ctx, Top.exact)
  BY <1>11, <1>12, <1>13 DEF Same
<1> QED
  BY <1>1, <1>4, <1>5, <1>8, <1>10, <1>14

\* RETI ends the routine, and what it interrupted goes on.
LEMMA ExecRetiSound == ASSUME IInv, ExecReti PROVE IInv'
<1> DEFINE d == m'
           gs == [n \in 1..(Len(frames) - 1) |->
                      IF frames[n].kind = "isr"
                      THEN [frames[n] EXCEPT !.exact = @ /\ Top.exact] ELSE frames[n]]
           L == Len(frames)
<1>1. /\ frames # <<>> /\ Top.kind = "isr" /\ d \in Cpu /\ L \in Nat /\ L \in 1..L
      /\ Same(Context(d), Top.ctx, Top.exact) /\ d.sp = Top.sp /\ d.iram = m.iram
  BY ExecRetiContext
<1>2. frames' = gs
  BY DEF ExecReti
<1>3. /\ m \in Cpu /\ frames \in Seq(Frames) /\ Contained(m, frames)
  BY DEF IInv, Sound, Typed
<1>4. Top.exact \in BOOLEAN /\ Top = frames[L]
  BY <1>1, <1>3, FramesParts, FrameParts DEF Top
<1>5. ASSUME NEW n \in 1..(L - 1)
      PROVE  /\ gs[n] \in Frames
             /\ gs[n].kind = frames[n].kind /\ gs[n].bytes = frames[n].bytes
             /\ gs[n].sp = frames[n].sp
             /\ gs[n].kind # "isr" => gs[n] = frames[n]
             /\ gs[n].kind = "isr" => /\ gs[n].ctx = frames[n].ctx
                                      /\ gs[n].stage = frames[n].stage
                                      /\ gs[n].exact \in BOOLEAN /\ frames[n].exact \in BOOLEAN
                                      /\ gs[n].exact => frames[n].exact /\ Top.exact
  <2>1. n \in 1..L /\ frames[n] \in Frames
    BY <1>1, <1>3, <1>5, FramesParts
  <2>2. CASE frames[n].kind = "isr"
    <3> DEFINE f == frames[n]
               g == [f EXCEPT !.exact = @ /\ Top.exact]
    <3>1. gs[n] = g
      BY <1>5, <2>2
    <3>2. f \in IsrFrames /\ f.exact \in BOOLEAN
      BY <2>1, <2>2, FrameParts
    <3> HIDE DEF f
    <3>3. (f.exact /\ Top.exact) \in BOOLEAN
      BY <1>4, <3>2
    <3>4. /\ g \in IsrFrames /\ g.kind = f.kind /\ g.bytes = f.bytes /\ g.sp = f.sp
          /\ g.ctx = f.ctx /\ g.stage = f.stage /\ g.exact = (f.exact /\ Top.exact)
      BY <3>2, <3>3 DEF IsrFrames
    <3> HIDE DEF g
    <3>5. gs[n] \in Frames
      BY <3>1, <3>4 DEF Frames
    <3>6. g.exact \in BOOLEAN /\ (g.exact => f.exact /\ Top.exact)
      BY <3>3, <3>4
    <3> QED
      BY <2>2, <3>1, <3>2, <3>4, <3>5, <3>6 DEF f
  <2>3. CASE frames[n].kind # "isr"
    BY <1>5, <2>1, <2>3
  <2> QED
    BY <2>2, <2>3
<1>6. gs \in Seq(Frames) /\ Len(gs) = L - 1
  <2>1. L - 1 \in Nat
    BY <1>1
  <2>2. gs \in [1..(L - 1) -> Frames]
    BY <1>5
  <2> HIDE DEF gs
  <2>3. gs \in Seq(Frames)
    BY <2>1, <2>2, SeqDef
  <2>4. DOMAIN gs = 1..(L - 1) /\ DOMAIN gs = 1..Len(gs) /\ Len(gs) \in Nat
    BY <2>2, <2>3, LenProperties
  <2> QED
    BY <2>1, <2>3, <2>4
<1> HIDE DEF gs, d
<1>7. ASSUME NEW n \in 1..Len(gs), Spans(gs, n, L)
      PROVE  Resumable(Context(d), gs, n, L)
  <2>1. n \in 1..(L - 1) /\ n \in 1..L /\ n \in Nat /\ n < L
    BY <1>1, <1>6
  <2>2. IsIsr(gs, n) /\ gs[n].kind = "isr"
    BY <1>7 DEF Spans, IsIsr
  <2>3. \A x \in (n + 1)..(L - 1) : x \in 1..(L - 1) /\ x \in 1..Len(gs)
    BY <1>6, <2>1
  <2>4. \A x \in (n + 1)..(L - 1) : gs[x].kind # "isr" /\ gs[x] = frames[x]
    BY <1>5, <1>7, <2>3 DEF Spans, IsIsr
  <2>5. Spans(frames, n, L)
    <3>1. IsIsr(frames, n)
      BY <1>5, <2>1, <2>2 DEF IsIsr
    <3>2. IsIsr(frames, L)
      BY <1>1, <1>4 DEF IsIsr
    <3>3. L \in (n + 1)..(L + 1)
      BY <1>1, <2>1
    <3>4. \A x \in (n + 1)..(L - 1) : ~IsIsr(frames, x)
      BY <2>4 DEF IsIsr
    <3> QED
      BY <3>1, <3>2, <3>3, <3>4 DEF Spans
  <2>6. At(m, frames, L) = Top.ctx
    <3>1. L # L + 1
      BY <1>1
    <3> QED
      BY <1>4, <3>1 DEF At
  <2>7. Resumable(Top.ctx, frames, n, L)
    <3>1. L \in 2..(L + 1)
      BY <1>1, <2>1
    <3>2. Resumable(At(m, frames, L), frames, n, L)
      BY <1>3, <2>1, <2>5, <3>1 DEF Contained
    <3> QED
      BY <2>6, <3>2
  <2>8. /\ gs[n].ctx = frames[n].ctx /\ gs[n].stage = frames[n].stage
        /\ gs[n].exact \in BOOLEAN /\ frames[n].exact \in BOOLEAN
        /\ gs[n].exact => frames[n].exact
        /\ gs[n].exact => Top.exact
    BY <1>5, <2>1, <2>2
  <2>9. Same(Context(d), Top.ctx, gs[n].exact)
    BY <1>1, <2>8 DEF Same, Alike
  <2> QED
    BY <1>1, <2>1, <2>4, <2>7, <2>8, <2>9, ResumableKept
<1>8. \A x \in 1..Len(gs) :
         /\ gs[x].kind = frames[x].kind /\ gs[x].bytes = frames[x].bytes
         /\ gs[x].sp = frames[x].sp
         /\ gs[x].kind # "isr" => gs[x] = frames[x]
         /\ gs[x].kind = "isr" => /\ gs[x].ctx = frames[x].ctx
                                  /\ gs[x].exact => frames[x].exact
                                  /\ gs[x].stage = frames[x].stage
  BY <1>5, <1>6
<1>9. Sound(d, gs)
  BY <1>1, <1>6, <1>7, <1>8, ShallowerSound
<1> QED
  BY <1>2, <1>9 DEF IInv, d

\* What POP takes off the stack, and where it puts it.
LEMMA PopLeads ==
    ASSUME IInv, frames # <<>>, Top.kind = "push", NEW i \in Pops,
           i.dst.arg \in Data \cup {PSW, ACC}
    PROVE  LET d == CpuStep(m, i)
               v == Top.bytes[1]
           IN  /\ d \in Cpu /\ d.sp = Top.sp
               /\ \A a \in Bytes : a > StackBase => d.iram[a] = m.iram[a]
               /\ i.dst.arg \in {PSW, ACC} => d.b = m.b /\ d.dptr = m.dptr /\ d.iram = m.iram
               /\ i.dst.arg = ACC => d.acc = v /\ Alike(d.psw, m.psw, FALSE)
               /\ i.dst.arg = PSW => d.acc = m.acc /\ d.psw = v
<1> DEFINE c == Fetched(m, i)
           a == i.dst.arg
           v == Top.bytes[1]
           stored == WriteDirect(c, a, v)
           e == Pop(c, a)
           s == Top.sp
<1>1. /\ m \in Cpu /\ frames \in Seq(Frames) /\ Intact(m, frames)
      /\ \A n \in 1..Len(frames) : IsFrame(frames[n])
  BY DEF IInv, Sound, Typed
<1>2. Len(frames) \in 1..Len(frames) /\ s \in Nat /\ Top \in Frames /\ Top = frames[Len(frames)]
  BY <1>1, FramesParts DEF Top
<1>3. /\ c \in Cpu /\ c.sp = m.sp /\ c.iram = m.iram /\ c.acc = m.acc
      /\ c.psw = m.psw /\ c.b = m.b /\ c.dptr = m.dptr
  BY <1>1, FetchQuiet
<1>4. i.mn = "POP"
  BY NamedIs DEF Pops
<1>5. CpuStep(m, i) = Retire(m, e)
  BY <1>4, ExecuteBranches DEF CpuStep
<1>6. Len(Top.bytes) = 1 /\ Top.bytes \in Seq(Bytes)
  BY <1>1, <1>2, FrameParts DEF IsFrame
<1>7. 1 \in 1..Len(Top.bytes) /\ v \in Bytes
  <2>1. 1 \in 1..Len(Top.bytes)
    BY <1>6
  <2> QED
    BY <1>6, <2>1, ElementOfSeq
<1>8. m.sp = s + 1 /\ m.iram[s + 1] = v
  <2>1. m.sp = s + 1
    BY <1>1, <1>2, <1>6 DEF Intact, EndIn
  <2>2. m.iram[s + 1] = v
    BY <1>1, <1>2, <1>7 DEF Intact
  <2> QED
    BY <2>1, <2>2
<1>9. a \in Bytes /\ a # SP /\ (a < Half => a <= StackBase)
  BY DataPlaces, AddressBytes, Addresses
<1> HIDE DEF c, v, s
<1>10. (c.sp - 1) % Byte = s
  <2>1. c.sp \in Bytes /\ c.sp >= 1 /\ c.sp - 1 = s
    <3>1. c.sp \in Bytes /\ c.sp = s + 1
      BY <1>3, <1>8 DEF Cpu
    <3> QED
      BY <1>2, <3>1
  <2> QED
    BY <2>1, SpTwice
<1>11. c.iram[c.sp] = v
  BY <1>3, <1>8
<1>12. /\ stored \in Cpu /\ e \in Cpu
       /\ e.sp = (stored.sp - 1) % Byte
       /\ e.acc = stored.acc /\ e.b = stored.b /\ e.psw = stored.psw
       /\ e.dptr = stored.dptr /\ e.iram = stored.iram /\ e.pc = stored.pc
  BY <1>3, <1>9, <1>11, PopType
<1>13. ASSUME a = ACC
       PROVE  /\ stored.acc = v /\ stored.psw = c.psw /\ stored.b = c.b /\ stored.dptr = c.dptr
              /\ stored.iram = c.iram /\ stored.sp = c.sp
  BY <1>3, <1>7, <1>9, <1>13, WriteDirectCases DEF Cpu
<1>14. ASSUME a = PSW
       PROVE  /\ stored.acc = c.acc /\ stored.psw = v /\ stored.b = c.b /\ stored.dptr = c.dptr
              /\ stored.iram = c.iram /\ stored.sp = c.sp
  BY <1>3, <1>7, <1>9, <1>14, WriteDirectCases DEF Cpu
<1>15. stored.sp = c.sp /\ \A x \in Bytes : x > StackBase => stored.iram[x] = c.iram[x]
  <2>1. CASE a = ACC
    BY <1>13, <2>1
  <2>2. CASE a = PSW
    BY <1>14, <2>2
  <2>3. CASE a \in Data
    <3> DEFINE o == [mode |-> "DIRECT", arg |-> a]
    <3>1. o.mode = "DIRECT" /\ o.arg = a
      OBVIOUS
    <3> HIDE DEF o
    <3>2. o.mode \in PlaceModes /\ o.mode \notin {"RN", "AT_RI"}
      BY <3>1 DEF PlaceModes
    <3>3. Effect(c, Store(c, o, v), o)
      BY <1>3, <1>7, <1>9, <3>1, <3>2, StoreEffect
    <3>4. Store(c, o, v) = stored
      BY <3>1 DEF Store
    <3>5. Fits(c, o)
      BY <2>3, <3>1 DEF Fits
    <3> QED
      BY <3>3, <3>4, <3>5 DEF Effect, KeepsStack
  <2> QED
    BY <2>1, <2>2, <2>3
<1> HIDE DEF stored, e
<1>16. /\ CpuStep(m, i) \in Cpu /\ CpuStep(m, i).sp = e.sp /\ CpuStep(m, i).iram = e.iram
       /\ CpuStep(m, i).b = e.b /\ CpuStep(m, i).dptr = e.dptr /\ CpuStep(m, i).acc = e.acc
       /\ Alike(CpuStep(m, i).psw, e.psw, FALSE)
       /\ m.acc = e.acc => CpuStep(m, i).psw = e.psw
  <2>1. /\ Retire(m, e) \in Cpu /\ Retire(m, e).sp = e.sp /\ Retire(m, e).iram = e.iram
        /\ Retire(m, e).b = e.b /\ Retire(m, e).dptr = e.dptr /\ Retire(m, e).acc = e.acc
        /\ Alike(Retire(m, e).psw, e.psw, FALSE)
        /\ m.acc = e.acc => Retire(m, e) = e
    BY <1>12, RetireAlike
  <2> QED
    BY <1>5, <2>1
<1>17. CpuStep(m, i).sp = Top.sp
  BY <1>10, <1>12, <1>15, <1>16 DEF s
<1>18. \A x \in Bytes : x > StackBase => CpuStep(m, i).iram[x] = m.iram[x]
  BY <1>3, <1>12, <1>15, <1>16
<1>19. a \in {PSW, ACC} => /\ CpuStep(m, i).b = m.b /\ CpuStep(m, i).dptr = m.dptr
                           /\ CpuStep(m, i).iram = m.iram
  BY <1>3, <1>12, <1>13, <1>14, <1>16
<1>20. a = ACC => CpuStep(m, i).acc = Top.bytes[1] /\ Alike(CpuStep(m, i).psw, m.psw, FALSE)
  BY <1>3, <1>12, <1>13, <1>16 DEF v
<1>21. a = PSW => CpuStep(m, i).acc = m.acc /\ CpuStep(m, i).psw = Top.bytes[1]
  BY <1>3, <1>12, <1>14, <1>16 DEF v
<1> QED
  BY <1>16, <1>17, <1>18, <1>19, <1>20, <1>21

\* A pop in the body of a routine, or outside of one.
LEMMA BodyPopSound ==
    ASSUME IInv, frames # <<>>, Top.kind = "push", NEW i \in Pops,
           InBody, InIsr => Len(frames) > Isr + 2,
           MayStore(i.dst) \/ i.dst.arg = PSW, i.dst.arg = PSW => Top.from = PSW
    PROVE  Sound(CpuStep(m, i), Unwound(frames))
<1> DEFINE d == CpuStep(m, i)
           gs == Unwound(frames)
           L == Len(frames)
           a == i.dst.arg
<1>1. m \in Cpu /\ frames \in Seq(Frames)
  BY DEF IInv, Sound, Typed
<1>2. i.mn = "POP" /\ IsInstruction(i)
  BY NamedIs DEF Pops
<1>3. i.dst.mode = "DIRECT"
  <2>1. PICK size : <<i.mn, i.dst.mode, i.src.mode, size>> \in Table
    BY <1>2 DEF IsInstruction
  <2> QED
    BY <1>2, <2>1, OtherRows
<1>4. a \in Data \cup {PSW, ACC}
  BY <1>3 DEF MayStore, Storable
<1>5. /\ d \in Cpu /\ d.sp = Top.sp
      /\ \A x \in Bytes : x > StackBase => d.iram[x] = m.iram[x]
      /\ a \in {PSW, ACC} => d.b = m.b /\ d.dptr = m.dptr /\ d.iram = m.iram
      /\ a = ACC => Alike(d.psw, m.psw, FALSE)
  BY <1>4, PopLeads
<1> HIDE DEF d
<1>6. gs \in Seq(Frames) /\ Len(gs) = L - 1 /\ \A n \in 1..(L - 1) : gs[n] = frames[n]
  BY <1>1, UnwoundFrames
<1> HIDE DEF gs
<1>7. ASSUME InIsr PROVE Resumable(Context(d), gs, Isr, L)
  <2>1. /\ Isr \in 1..L /\ frames[Isr].stage = "body"
        /\ Resumable(Context(m), frames, Isr, L + 1) /\ BankField(m.psw) = 1
    BY <1>7, InnerRoutine DEF InBody, IsrStage
  <2>2. L \in Nat /\ Isr \in Nat /\ L > Isr + 2
    BY <1>1, <1>7, <2>1, FramesParts
  <2>3. Top.from = ACC
    <3>1. \A x \in (Isr + 3)..(L + 1 - 1) : frames[x].kind = "push" => frames[x].from = ACC
      BY <2>1 DEF Resumable
    <3>2. L \in (Isr + 3)..(L + 1 - 1)
      BY <2>2
    <3> QED
      BY <3>1, <3>2 DEF Top
  <2>4. a = ACC
    <3>1. a # PSW
      BY <2>3, Addresses
    <3>2. Own(i.dst)
      BY <1>7, <3>1 DEF MayStore
    <3> QED
      BY <1>3, <3>2 DEF Own
  <2>5. d.b = m.b /\ d.dptr = m.dptr /\ d.iram = m.iram /\ Alike(d.psw, m.psw, FALSE)
    BY <1>5, <2>4
  <2>6. BankField(d.psw) = 1
    <3>1. d.psw \in Bytes /\ m.psw \in Bytes
      BY <1>1, <1>5 DEF Cpu
    <3> QED
      BY <2>1, <2>5, <3>1, AlikeBank
  <2>7. /\ Context(d).b = Context(m).b /\ Context(d).dptr = Context(m).dptr
        /\ Context(d).bank0 = Context(m).bank0 /\ BankField(Context(d).psw) = 1
    BY <1>1, <1>5, <2>5, <2>6, ContextParts
  <2> QED
    BY <1>1, <1>6, <2>1, <2>2, <2>7, BodyShallower
<1>8. Sound(d, gs)
  BY <1>5, <1>6, <1>7, ShallowerSound
<1> QED
  BY <1>8 DEF d, gs

\* The pops that end an interrupt routine, each to the register that was pushed.
LEMMA LastPopSound ==
    ASSUME IInv, frames # <<>>, Top.kind = "push", NEW i \in Pops,
           InIsr, IsrStage # "enter", Len(frames) <= Isr + 2, i.dst.arg = Top.from
    PROVE  Sound(CpuStep(m, i), Unwound([frames EXCEPT ![Isr].stage = "leave"]))
<1> DEFINE d == CpuStep(m, i)
           L == Len(frames)
           n == Isr
           r == frames[n]
           hs == [frames EXCEPT ![n].stage = "leave"]
           gs == Unwound(hs)
           a == i.dst.arg
           v == Top.bytes[1]
<1>1. m \in Cpu /\ frames \in Seq(Frames)
  BY DEF IInv, Sound, Typed
<1>2. /\ n \in 1..L /\ n \in Nat /\ r.kind = "isr" /\ r \in Frames
      /\ Resumable(Context(m), frames, n, L + 1) /\ r.exact \in BOOLEAN
      /\ r.stage \in {"body", "leave"}
  BY InnerRoutine DEF IsrStage
<1>3. L \in Nat /\ Top = frames[L]
  BY <1>1, FramesParts DEF Top
<1>4. hs \in Seq(Frames) /\ Len(hs) = L
      /\ (\A k \in 1..L : k # n => hs[k] = frames[k])
      /\ hs[n].kind = "isr" /\ hs[n].bytes = r.bytes /\ hs[n].sp = r.sp
      /\ hs[n].ctx = r.ctx /\ hs[n].stage = "leave" /\ hs[n].exact = r.exact
  <2> DEFINE g == [frames[n] EXCEPT !.stage = "leave"]
  <2>1. frames[n] \in IsrFrames
    BY <1>2, FrameParts
  <2>2. /\ g \in IsrFrames /\ g.kind = "isr" /\ g.bytes = r.bytes /\ g.sp = r.sp
        /\ g.ctx = r.ctx /\ g.stage = "leave" /\ g.exact = r.exact
    BY <2>1 DEF IsrFrames
  <2>3. hs = [frames EXCEPT ![n] = g]
    OBVIOUS
  <2> HIDE DEF hs, n, g
  <2>4. g \in Frames /\ n \in 1..Len(frames)
    BY <1>2, <2>2 DEF Frames
  <2>5. /\ hs \in Seq(Frames) /\ Len(hs) = Len(frames) /\ hs[n] = g
        /\ \A k \in 1..Len(frames) : k # n => hs[k] = frames[k]
    BY <1>1, <2>3, <2>4, StagedFrames
  <2> QED
    BY <2>2, <2>5
<1> HIDE DEF hs, r
<1>5. n # L
  BY <1>2, <1>3 DEF r
<1>6. L = n + 1 \/ L = n + 2
  BY <1>2, <1>3, <1>5
<1>7. /\ Context(m).b = r.ctx.b /\ Context(m).dptr = r.ctx.dptr /\ Context(m).bank0 = r.ctx.bank0
      /\ n + 1 < L + 1 => Saves(frames[n + 1], r)
      /\ n + 2 < L + 1 => Saves(frames[n + 2], r) /\ frames[n + 1].from # frames[n + 2].from
      /\ r.stage = "body" => L + 1 >= n + 3
      /\ r.stage = "leave" => /\ L + 1 <= n + 2
                              /\ frames[n + 1].from = PSW => Context(m).acc = r.ctx.acc
                              /\ n + 1 # L + 1 /\ frames[n + 1].from = ACC =>
                                    Alike(Context(m).psw, r.ctx.psw, r.exact)
      /\ n + 1 < L + 1 /\ r.exact => frames[n + 1].from = PSW
  BY <1>2 DEF Resumable, r
<1>8. Saves(Top, r)
  <2>1. CASE L = n + 1
    BY <1>2, <1>3, <1>7, <2>1
  <2>2. CASE L = n + 2
    BY <1>2, <1>3, <1>7, <2>2
  <2> QED
    BY <1>6, <2>1, <2>2
<1>9. /\ a \in {PSW, ACC}
      /\ a = ACC => v = r.ctx.acc
      /\ a = PSW => Alike(v, r.ctx.psw, r.exact)
  BY <1>8 DEF Saves
<1>10. /\ d \in Cpu /\ d.sp = Top.sp
       /\ \A x \in Bytes : x > StackBase => d.iram[x] = m.iram[x]
       /\ d.b = m.b /\ d.dptr = m.dptr /\ d.iram = m.iram
       /\ a = ACC => d.acc = v /\ Alike(d.psw, m.psw, FALSE)
       /\ a = PSW => d.acc = m.acc /\ d.psw = v
  BY <1>9, PopLeads
<1> HIDE DEF d, v
<1>11. /\ Context(d).b = r.ctx.b /\ Context(d).dptr = r.ctx.dptr
       /\ Context(d).bank0 = r.ctx.bank0 /\ Context(d).acc = d.acc /\ Context(d).psw = d.psw
       /\ Context(m).acc = m.acc /\ Context(m).psw = m.psw
  BY <1>1, <1>7, <1>10, ContextParts
<1>12. gs \in Seq(Frames) /\ Len(gs) = L - 1 /\ \A k \in 1..(L - 1) : gs[k] = hs[k]
  <2>1. hs # <<>>
    BY <1>2, <1>3, <1>4, FramesParts
  <2> QED
    BY <1>4, <2>1, UnwoundFrames
<1> HIDE DEF gs
<1>13. n \in 1..(L - 1) /\ gs[n] = hs[n]
  BY <1>2, <1>3, <1>5, <1>12
<1> HIDE DEF a
<1>14. Resumable(Context(d), gs, n, L)
  <2>1. CASE L = n + 2
    <3>1. /\ Saves(frames[n + 1], r) /\ Saves(frames[n + 2], r)
          /\ frames[n + 1].from # frames[n + 2].from
          /\ r.exact => frames[n + 1].from = PSW
      BY <1>2, <1>7, <2>1
    <3>2. n + 1 \in 1..(L - 1) /\ n + 1 \in 1..L /\ n + 1 # n
      BY <1>2, <2>1
    <3>3. gs[n + 1] = frames[n + 1]
      BY <1>4, <1>12, <3>2
    <3>4. Top = frames[n + 2] /\ a = frames[n + 2].from
      BY <1>3, <2>1 DEF a
    <3>5. frames[n + 1].from = PSW => Context(d).acc = r.ctx.acc
      <4>1. frames[n + 1].from = PSW => a = ACC
        BY <1>9, <3>1, <3>4
      <4> QED
        BY <1>9, <1>10, <1>11, <4>1
    <3>6. frames[n + 1].from = ACC => Alike(Context(d).psw, r.ctx.psw, r.exact)
      <4>1. frames[n + 1].from = ACC => a = PSW
        BY <1>9, <3>1, <3>4
      <4> QED
        BY <1>9, <1>10, <1>11, <4>1
    <3>7. /\ gs[n].ctx = r.ctx /\ gs[n].stage = "leave" /\ gs[n].exact = r.exact
      BY <1>4, <1>13
    <3>8. Saves(gs[n + 1], gs[n])
      BY <3>1, <3>3, <3>7 DEF Saves
    <3>9. ~(n + 2 < L) /\ L <= n + 2 /\ n + 1 # L
      BY <1>2, <2>1
    <3>10. /\ gs[n + 1].from = PSW => Context(d).acc = gs[n].ctx.acc
           /\ gs[n + 1].from = ACC => Alike(Context(d).psw, gs[n].ctx.psw, gs[n].exact)
           /\ gs[n].exact => gs[n + 1].from = PSW
      BY <3>1, <3>3, <3>5, <3>6, <3>7
    <3>11. /\ Context(d).b = gs[n].ctx.b /\ Context(d).dptr = gs[n].ctx.dptr
           /\ Context(d).bank0 = gs[n].ctx.bank0
      BY <1>11, <3>7
    <3>12. gs[n].stage # "enter" /\ gs[n].stage # "body"
      BY <3>7
    <3> QED
      BY <3>8, <3>9, <3>10, <3>11, <3>12 DEF Resumable
  <2>2. CASE L = n + 1
    <3>1. r.stage = "leave" /\ Saves(frames[n + 1], r) /\ n + 1 # L + 1
      BY <1>2, <1>7, <2>2
    <3>2. Top = frames[n + 1] /\ a = frames[n + 1].from
      BY <1>3, <2>2 DEF a
    <3>3. a = PSW => Context(m).acc = r.ctx.acc
      BY <1>7, <3>1, <3>2
    <3>4. a = ACC => Alike(Context(m).psw, r.ctx.psw, r.exact) /\ ~r.exact
      <4>1. r.exact => frames[n + 1].from = PSW
        BY <1>2, <1>7, <2>2
      <4> QED
        BY <1>7, <3>1, <3>2, <4>1, Addresses
    <3>5. Context(d).acc = r.ctx.acc
      BY <1>9, <1>10, <1>11, <3>3
    <3>6. Alike(Context(d).psw, r.ctx.psw, r.exact)
      <4>1. CASE a = PSW
        BY <1>9, <1>10, <1>11, <4>1
      <4>2. CASE a = ACC
        BY <1>10, <1>11, <3>4, <4>2 DEF Alike
      <4> QED
        BY <1>9, <4>1, <4>2
    <3>7. gs[n].ctx = r.ctx /\ gs[n].stage = "leave" /\ gs[n].exact = r.exact
      BY <1>4, <1>13
    <3>8. ~(n + 1 < L) /\ ~(n + 2 < L) /\ L <= n + 2
      BY <1>2, <2>2
    <3> QED
      BY <1>11, <3>5, <3>6, <3>7, <3>8 DEF Resumable
  <2> QED
    BY <1>6, <2>1, <2>2
<1>15. \A x \in 1..Len(gs) :
          /\ gs[x].kind = frames[x].kind /\ gs[x].bytes = frames[x].bytes
          /\ gs[x].sp = frames[x].sp
          /\ gs[x].kind # "isr" => gs[x] = frames[x]
          /\ gs[x].kind = "isr" => /\ gs[x].ctx = frames[x].ctx
                                   /\ gs[x].exact => frames[x].exact
                                   /\ gs[x].stage = frames[x].stage \/ x = n
  <2>1. \A x \in 1..Len(gs) : x \in 1..(L - 1) /\ x \in 1..L
    BY <1>3, <1>12
  <2>2. \A x \in 1..Len(gs) : x # n => gs[x] = frames[x]
    BY <1>4, <1>12, <2>1
  <2>3. /\ gs[n].kind = "isr" /\ r.kind = "isr" /\ gs[n].bytes = r.bytes /\ gs[n].sp = r.sp
        /\ gs[n].ctx = r.ctx /\ gs[n].exact = r.exact /\ r = frames[n]
    BY <1>2, <1>4, <1>13 DEF r
  <2> QED
    BY <2>2, <2>3
<1>16. Sound(d, gs)
  <2>1. /\ Len(gs) = Len(frames) - 1 /\ Top.kind # "isr"
        /\ Resumable(Context(d), gs, Isr, Len(frames))
    BY <1>12, <1>14
  <2> QED
    BY <1>10, <1>12, <1>15, <2>1, ShallowerSound
<1> QED
  BY <1>16 DEF d, gs, hs

\* POP, in the epilogue of an interrupt routine or elsewhere.
LEMMA ExecPopSound == ASSUME IInv, ExecPop PROVE IInv'
<1>1. PICK i \in Pops :
         /\ m' = CpuStep(m, i)
         /\ \/ /\ InBody /\ (InIsr => Len(frames) > Isr + 2)
               /\ (MayStore(i.dst) \/ i.dst.arg = PSW) /\ (i.dst.arg = PSW => Top.from = PSW)
               /\ frames' = Unwound(frames)
            \/ /\ InIsr /\ IsrStage # "enter" /\ Len(frames) <= Isr + 2
               /\ i.dst.arg = Top.from
               /\ frames' = Unwound([frames EXCEPT ![Isr].stage = "leave"])
  BY DEF ExecPop, Executes
<1>2. frames # <<>> /\ Top.kind = "push"
  BY DEF ExecPop
<1>3. Sound(CpuStep(m, i), frames')
  BY <1>1, <1>2, BodyPopSound, LastPopSound
<1> QED
  BY <1>1, <1>3 DEF IInv

\* The bank change that ends the prologue of an interrupt routine.
LEMMA BankSelected ==
    ASSUME m \in Cpu, NEW i,
           i = [mn |-> "MOV", dst |-> [mode |-> "DIRECT", arg |-> PSW],
                src |-> [mode |-> "IMM8", arg |-> RsUnit], lhs |-> NoOperand]
    PROVE  LET d == CpuStep(m, i)
           IN  /\ d \in Cpu /\ d.psw = RsUnit /\ d.sp = m.sp /\ d.iram = m.iram
               /\ d.b = m.b /\ d.dptr = m.dptr
<1> DEFINE c == Fetched(m, i)
           d == [c EXCEPT !.psw = RsUnit]
<1>1. /\ i.mn = "MOV" /\ i.dst.mode = "DIRECT" /\ i.dst.arg = PSW
      /\ i.src.mode = "IMM8" /\ i.src.arg = RsUnit
  OBVIOUS
<1>2. /\ c \in Cpu /\ c.sp = m.sp /\ c.iram = m.iram /\ c.acc = m.acc
      /\ c.b = m.b /\ c.dptr = m.dptr
  BY FetchQuiet
<1> HIDE DEF c
<1>3. Execute(c, i) = Mov(c, i)
  BY <1>1, ExecuteMov
<1>4. Value(c, i.src) = RsUnit
  BY <1>1 DEF Value
<1>5. Store(c, i.dst, RsUnit) = WriteDirect(c, PSW, RsUnit)
  BY <1>1 DEF Store
<1>6. PSW \in Bytes
  BY AddressBytes
<1>7. WriteDirect(c, PSW, RsUnit) = d
  BY <1>6, AddressBytes, Addresses, Sizes DEF WriteDirect
<1>8. Execute(c, i) = d
  BY <1>3, <1>4, <1>5, <1>7 DEF Mov
<1>9. RsUnit \in Bytes
  BY <1>2, BankFieldKept, Sizes
<1>10. /\ d \in Cpu /\ d.psw = RsUnit /\ d.sp = m.sp /\ d.iram = m.iram /\ d.acc = m.acc
       /\ d.b = m.b /\ d.dptr = m.dptr
  BY <1>2, <1>9 DEF Cpu
<1>11. CpuStep(m, i) = Retire(m, d)
  BY <1>8 DEF CpuStep, c
<1> HIDE DEF d
<1>12. Retire(m, d) = d
  BY <1>10, RetireAlike
<1> QED
  BY <1>10, <1>11, <1>12

\* The routine turns to its own bank with PSW and A saved.
LEMMA ExecSelectBankSound ==
    ASSUME IInv, ExecSelectBank PROVE IInv' /\ Len(frames') = Len(frames)
<1> DEFINE i == [mn |-> "MOV", dst |-> [mode |-> "DIRECT", arg |-> PSW],
                 src |-> [mode |-> "IMM8", arg |-> RsUnit], lhs |-> NoOperand]
           d == CpuStep(m, i)
           L == Len(frames)
           n == Isr
           r == frames[n]
           from == frames[n + 1].from
           g == [r EXCEPT !.stage = "body"]
           h == [g EXCEPT !.exact = @ /\ from = PSW]
           fs == [frames EXCEPT ![n] = g]
           gs == [fs EXCEPT ![n] = h]
<1>1. /\ InIsr /\ IsrStage = "enter" /\ L = n + 2 /\ m' = d
      /\ frames' = [frames EXCEPT ![n].stage = "body", ![n].exact = @ /\ from = PSW]
  BY DEF ExecSelectBank, Executes
<1>2. /\ m \in Cpu /\ frames \in Seq(Frames) /\ Intact(m, frames) /\ Contained(m, frames)
      /\ \A k \in 1..L : IsFrame(frames[k])
  BY DEF IInv, Sound, Typed
<1>3. /\ d \in Cpu /\ d.psw = RsUnit /\ d.sp = m.sp /\ d.iram = m.iram
      /\ d.b = m.b /\ d.dptr = m.dptr
  BY <1>2, BankSelected
<1> HIDE DEF d
<1>4. /\ n \in 1..L /\ n \in Nat /\ r.kind = "isr" /\ r \in Frames /\ r \in IsrFrames
      /\ Resumable(Context(m), frames, n, L + 1) /\ r.exact \in BOOLEAN /\ r.stage = "enter"
  BY <1>1, InnerRoutine, FrameParts DEF IsrStage
<1>5. frames' = gs
  <2>1. fs[n] = g
    BY <1>2, <1>4
  <2> QED
    BY <1>1, <2>1
<1>6. /\ g \in IsrFrames /\ g.kind = "isr" /\ g.bytes = r.bytes /\ g.sp = r.sp
      /\ g.ctx = r.ctx /\ g.stage = "body" /\ g.exact = r.exact
  BY <1>4 DEF IsrFrames
<1> HIDE DEF g, r, from
<1>7. (g.exact /\ from = PSW) \in BOOLEAN
  BY <1>4, <1>6
<1>8. /\ h \in IsrFrames /\ h.kind = "isr" /\ h.bytes = r.bytes /\ h.sp = r.sp
      /\ h.ctx = r.ctx /\ h.stage = "body" /\ h.exact = (g.exact /\ from = PSW)
  BY <1>6, <1>7 DEF IsrFrames
<1>9. h.exact => r.exact /\ from = PSW
  BY <1>6, <1>8
<1> HIDE DEF h, fs
<1>10. g \in Frames /\ h \in Frames
  BY <1>6, <1>8 DEF Frames
<1> HIDE DEF n
<1>11. fs \in Seq(Frames) /\ Len(fs) = L /\ \A k \in 1..L : k # n => fs[k] = frames[k]
  BY <1>2, <1>4, <1>10, StagedFrames DEF fs
<1>12. gs \in Seq(Frames) /\ Len(gs) = L /\ gs[n] = h /\ \A k \in 1..L : k # n => gs[k] = fs[k]
  BY <1>4, <1>10, <1>11, StagedFrames
<1>13. \A k \in 1..L : k # n => gs[k] = frames[k]
  BY <1>11, <1>12
<1> HIDE DEF gs
<1>14. \A k \in 1..L : gs[k].kind = frames[k].kind /\ gs[k].sp = frames[k].sp
                       /\ gs[k].bytes = frames[k].bytes
  <2>1. frames[n].kind = "isr" /\ frames[n].sp = r.sp /\ frames[n].bytes = r.bytes
    BY <1>4 DEF r
  <2> QED
    BY <1>8, <1>12, <1>13, <2>1
<1>15. Typed(d, gs)
  <2>1. IsFrame(h)
    BY <1>2, <1>4, <1>8 DEF IsFrame, r
  <2>2. \A k \in 1..L : IsFrame(gs[k])
    BY <1>2, <1>12, <1>13, <2>1
  <2> QED
    BY <1>3, <1>12, <2>2 DEF Typed
<1>16. Intact(d, gs)
  <2>1. KeepsStack(m, d)
    BY <1>3 DEF KeepsStack
  <2> QED
    BY <1>2, <1>3, <1>12, <1>14, <2>1, IntactKept
<1>17. Resumable(Context(d), gs, n, L + 1)
  <2> DEFINE e == L + 1
  <2>1. /\ n + 1 < e /\ n + 2 < e /\ e >= n + 3 /\ n + 1 \in 1..L /\ n + 2 \in 1..L
        /\ n + 1 # n /\ n + 2 # n /\ \A x \in (n + 3)..(e - 1) : FALSE
    BY <1>1, <1>4 DEF n
  <2>2. gs[n + 1] = frames[n + 1] /\ gs[n + 2] = frames[n + 2]
    BY <1>13, <2>1
  <2> HIDE DEF e
  <2>3. /\ Context(m).b = r.ctx.b /\ Context(m).dptr = r.ctx.dptr /\ Context(m).bank0 = r.ctx.bank0
        /\ Saves(frames[n + 1], r) /\ Saves(frames[n + 2], r)
        /\ frames[n + 1].from # frames[n + 2].from
    BY <1>4, <2>1 DEF Resumable, r, e
  <2>4. ASSUME NEW f, Saves(f, r) PROVE Saves(f, h)
    BY <1>8, <1>9, <2>4 DEF Saves, Alike
  <2>5. BankField(Context(d).psw) = 1
    BY <1>3, BankFieldKept, ContextParts, Sizes
  <2>6. /\ Context(d).b = h.ctx.b /\ Context(d).dptr = h.ctx.dptr /\ Context(d).bank0 = h.ctx.bank0
    BY <1>2, <1>3, <1>8, <2>3, ContextParts
  <2>7. /\ Saves(gs[n + 1], h) /\ Saves(gs[n + 2], h) /\ gs[n + 1].from # gs[n + 2].from
        /\ h.exact => gs[n + 1].from = PSW
    BY <1>9, <2>2, <2>3, <2>4 DEF from
  <2>8. h.stage = "body"
    BY <1>8
  <2>9. Resumable(Context(d), gs, n, e)
    BY <1>12, <2>1, <2>5, <2>6, <2>7, <2>8 DEF Resumable
  <2> QED
    BY <2>9 DEF e
<1>18. Contained(d, gs)
  <2>1. \A k \in 1..L : IsIsr(gs, k) <=> IsIsr(frames, k)
    BY <1>12, <1>14 DEF IsIsr
  <2>2. L \in Nat
    BY <1>2, FramesParts
  <2>3. Spans(frames, n, L + 1) /\ \A k : Spans(frames, k, L + 1) => k = n
    BY <1>1, <1>2, Innermost DEF n
  <2>4. ASSUME NEW k \in 1..L PROVE Spans(gs, k, L + 1) <=> Spans(frames, k, L + 1)
    <3>1. \A x \in (k + 1)..(L + 1 - 1) : x \in 1..L
      BY <2>2
    <3> QED
      BY <1>12, <2>1, <3>1 DEF Spans
  <2>5. \A k \in 1..Len(gs) : Spans(gs, k, Len(gs) + 1) => Resumable(Context(d), gs, k, Len(gs) + 1)
    BY <1>12, <1>17, <2>3, <2>4
  <2>6. Spans(gs, n, Len(gs) + 1)
    BY <1>4, <1>12, <2>3, <2>4
  <2>7. gs[n].ctx = frames[n].ctx /\ (gs[n].exact => frames[n].exact) /\ frames[n].kind = "isr"
        /\ gs[n].kind = "isr"
    BY <1>4, <1>8, <1>9, <1>12 DEF r
  <2>8. \A x \in 1..Len(gs) : x <= L =>
           /\ gs[x].kind = frames[x].kind
           /\ gs[x].kind # "isr" => gs[x] = frames[x]
           /\ gs[x].kind = "isr" => /\ gs[x].ctx = frames[x].ctx
                                    /\ gs[x].exact => frames[x].exact
                                    /\ \/ gs[x].stage = frames[x].stage
                                       \/ Spans(gs, x, Len(gs) + 1)
    BY <1>12, <1>13, <2>6, <2>7
  <2>9. Len(gs) <= L + 1 /\ Len(gs) # L + 1
    BY <1>12, <2>2
  <2> QED
    BY <1>2, <1>3, <1>12, <2>5, <2>8, <2>9, ContainedStep
<1> QED
  BY <1>1, <1>5, <1>12, <1>15, <1>16, <1>18 DEF IInv, Sound

------------------------------------------------------------------------------
\* The theorems

\* Every step keeps the invariant.
LEMMA NextSound == ASSUME IInv, [Next]_vars PROVE IInv'
<1>1. CASE UNCHANGED vars
  <2>1. m' = m /\ frames' = frames
    BY <1>1 DEF vars
  <2> QED
    BY <2>1 DEF IInv
<1>2. CASE ExecMove
  BY <1>2, ExecMoveSound
<1>3. CASE ExecLogic
  BY <1>3, ExecLogicSound
<1>4. CASE ExecCount
  BY <1>4, ExecCountSound
<1>5. CASE ExecLoop
  BY <1>5, ExecLoopSound
<1>6. CASE ExecCompare
  BY <1>6, ExecCompareSound
<1>7. CASE ExecJump
  BY <1>7, ExecJumpSound
<1>8. CASE ExecSetStack
  BY <1>8, ExecSetStackSound
<1>9. CASE ExecCall
  BY <1>9, ExecCallSound
<1>10. CASE ExecRet
  BY <1>10, ExecRetSound
<1>11. CASE ExecPush
  BY <1>11, ExecPushSound
<1>12. CASE ExecSelectBank
  BY <1>12, ExecSelectBankSound
<1>13. CASE ExecPop
  BY <1>13, ExecPopSound
<1>14. CASE ExecReti
  BY <1>14, ExecRetiSound
<1>15. CASE Interrupt
  BY <1>15, InterruptSound
<1> QED
  BY <1>1, <1>2, <1>3, <1>4, <1>5, <1>6, <1>7, <1>8, <1>9, <1>10, <1>11, <1>12, <1>13,
     <1>14, <1>15 DEF Next

\* The CPU and the history of its stack keep their types: every register a byte, every
\* cell of internal RAM a byte, PC a word, whatever cpu_step executes.
THEOREM CoreTypeCorrect == Spec => []TypeOK
<1>1. IInv => TypeOK
  BY DEF IInv, Sound, TypeOK
<1> QED
  BY <1>1, InitSound, NextSound, PTL DEF Spec

\* Return addresses and pushed values stay where PUSH, the calls and
\* cpu_service_interrupt put them, for any firmware that keeps to the discipline.
THEOREM StackIntactCorrect == Spec => []StackIntact
<1>1. IInv => StackIntact
  <2> SUFFICES ASSUME IInv PROVE StackIntact
    OBVIOUS
  <2>1. Intact(m, frames)
    BY DEF IInv, Sound
  <2>2. \A n : EndIn(frames, n) = EndOf(n)
    BY DEF EndIn, EndOf
  <2> QED
    BY <2>1, <2>2 DEF Intact, StackIntact
<1> QED
  BY <1>1, InitSound, NextSound, PTL DEF Spec

\* Only RET, POP and RETI take something off the stack.
LEMMA OnlyReturns ==
    ASSUME IInv, Next, Len(frames') < Len(frames)
    PROVE  ExecRet \/ ExecPop \/ ExecReti
<1>1. frames \in Seq(Frames) /\ Len(frames) \in Nat
  BY FramesParts DEF IInv, Sound, Typed
<1>2. ~UNCHANGED frames
  BY <1>1
<1>3. ASSUME NEW f, frames' = Append(frames, f) PROVE FALSE
  <2>1. frames \in Seq(Frames \cup {f})
    <3>1. \A n \in 1..Len(frames) : frames[n] \in Frames \cup {f}
      BY <1>1, ElementOfSeq
    <3> QED
      BY <1>1, <3>1, LenProperties, SeqDef
  <2>2. Len(Append(frames, f)) = Len(frames) + 1
    BY <2>1, AppendProperties
  <2> QED
    BY <1>1, <1>3, <2>2
<1>4. ~ExecCall /\ ~ExecPush /\ ~Interrupt
  BY <1>3 DEF ExecCall, ExecPush, Interrupt, Deeper
<1>5. ~ExecSelectBank
  BY <1>1, ExecSelectBankSound
<1> QED
  BY <1>2, <1>4, <1>5
     DEF Next, ExecMove, ExecLogic, ExecCount, ExecLoop, ExecCompare, ExecJump, ExecSetStack, Body

\* An interrupted context is found again.
LEMMA ContextAgain ==
    ASSUME NEW k \in Contexts, NEW l \in Contexts, NEW x, Same(l, k, x),
           l.pc = k.pc, l.sp = k.sp
    PROVE  UpToParity(l) = UpToParity(k)
<1> DEFINE p == PutBit(l.psw, 0, 0)
           q == PutBit(k.psw, 0, 0)
<1>1. p = q
  BY DEF Same, Alike
<1>2. UpToParity(l) = [l EXCEPT !.psw = p] /\ UpToParity(k) = [k EXCEPT !.psw = q]
  BY DEF UpToParity
<1> HIDE DEF p, q
<1> QED
  BY <1>1, <1>2 DEF Same, Contexts

\* What RET and RETI go back to is what was left, for any firmware that keeps to
\* the discipline, any vectors and any depth of interrupts: cpu_step,
\* cpu_service_interrupt and the stack operations lose nothing but P.
THEOREM ResumesCorrect == Spec => Resumes
<1> DEFINE A == Len(frames') < Len(frames) =>
                    CASE Top.kind = "call" -> m'.pc = Top.ret /\ m'.sp = Top.sp
                      [] Top.kind = "push" -> TRUE
                      [] Top.kind = "isr"  ->
                            /\ UpToParity(Context(m')) = UpToParity(Top.ctx)
                            /\ Top.exact => m'.psw = Top.ctx.psw
<1>1. ASSUME IInv, Next PROVE A
  <2> SUFFICES ASSUME Len(frames') < Len(frames)
               PROVE  \/ Top.kind = "call" /\ m'.pc = Top.ret /\ m'.sp = Top.sp
                      \/ Top.kind = "push"
                      \/ /\ Top.kind = "isr"
                         /\ UpToParity(Context(m')) = UpToParity(Top.ctx)
                         /\ Top.exact => m'.psw = Top.ctx.psw
    OBVIOUS
  <2>1. CASE ExecRet
    BY <1>1, <2>1, ExecRetSound DEF ExecRet
  <2>2. CASE ExecPop
    BY <2>2 DEF ExecPop
  <2>3. CASE ExecReti
    <3>1. /\ Top.kind = "isr" /\ m' \in Cpu /\ Len(frames) \in 1..Len(frames)
          /\ Same(Context(m'), Top.ctx, Top.exact)
          /\ m'.pc = Top.ctx.pc /\ m'.sp = Top.ctx.sp
      BY <1>1, <2>3, ExecRetiContext
    <3>2. frames \in Seq(Frames)
      BY <1>1 DEF IInv, Sound, Typed
    <3>3. Top \in Frames
      BY <3>1, <3>2, FramesParts DEF Top
    <3>4. Top.ctx \in Contexts
      BY <3>1, <3>3, FrameParts
    <3>5. /\ Context(m') \in Contexts /\ Context(m').pc = m'.pc /\ Context(m').sp = m'.sp
          /\ Context(m').psw = m'.psw
      BY <3>1, ContextParts
    <3>6. UpToParity(Context(m')) = UpToParity(Top.ctx)
      BY <3>1, <3>4, <3>5, ContextAgain
    <3>7. Top.exact => m'.psw = Top.ctx.psw
      BY <3>1, <3>5 DEF Same, Alike
    <3> QED
      BY <3>1, <3>6, <3>7
  <2> QED
    BY <1>1, <2>1, <2>2, <2>3, OnlyReturns
<1>2. IInv /\ [Next]_vars => [A]_vars
  BY <1>1
<1> QED
  BY <1>2, InitSound, NextSound, PTL DEF Spec, Resumes

\* cpu_write_bit sets the bit it is given and leaves all others, wherever the
\* firmware is.
THEOREM BitAddressingCorrect == Spec => []BitAddressing
<1>1. IInv => BitAddressing
  <2> SUFFICES ASSUME IInv, NEW b \in BitAddresses, NEW v \in 0..1, NEW e \in BitAddresses
               PROVE  ReadBit(WriteBit(m, b, v), e) = IF e = b THEN v ELSE ReadBit(m, e)
    BY DEF BitAddressing
  <2>1. m \in Cpu
    BY DEF IInv, Sound, Typed
  <2> QED
    BY <2>1, BitWritten
<1> QED
  BY <1>1, InitSound, NextSound, PTL DEF Spec

\* The exec functions of instr_impl.c, given operands fetched in the order of their
\* parameters, and cpu_step of cpu.c do the same but for P and the complemented bits,
\* for every row of instr_list.h, every opcode number and all operand bytes, in every
\* state.
THEOREM TableAgreesCorrect == Spec => []TableAgrees
<1>1. IInv => TableAgrees
  <2> SUFFICES ASSUME IInv, NEW row \in Table, NEW n \in Numbers(row),
                      NEW code \in CodeBytes \X CodeBytes
               PROVE  LET i == Decoded(row, n, code)
                      IN  /\ \/ Complemented(i)
                             \/ UpToParity(TableStep(m, row, n, code)) = UpToParity(CpuStep(m, i))
                          /\ Fetched(m, i).pc = (m.pc + row[4]) % Word
    BY DEF TableAgrees
  <2>1. m \in Cpu
    BY DEF IInv, Sound, Typed
  <2>2. code \in Bytes \X Bytes
    BY CoreAssumption
  <2> QED
    BY <2>1, <2>2, InterpretersAgree
<1> QED
  BY <1>1, InitSound, NextSound, PTL DEF Spec

=============================================================================
