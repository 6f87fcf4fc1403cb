------------------------------ MODULE Remainders ------------------------------
(***************************************************************************)
(* Lemmas about quotients and remainders by a modulus that is not fixed:   *)
(* registers, timers and decimal digits wrap around at a constant; and     *)
(* induction over the natural numbers, for what is counted step by step.   *)
(***************************************************************************)
EXTENDS Integers, WellFoundedInduction, TLAPS

\* Remainders within one modulus of the range.
LEMMA Wrap ==
    ASSUME NEW n \in Nat \ {0}, NEW x \in Int
    PROVE  /\ x % n \in 0..(n - 1)
           /\ x \in 0..(n - 1) => x % n = x
           /\ x \in n..(2 * n - 1) => x % n = x - n
           /\ x \in (-n)..(-1) => x % n = x + n
OBVIOUS

\* Dividing leaves quotient and remainder.
LEMMA Quotient ==
    ASSUME NEW n \in Nat \ {0}, NEW x \in Nat
    PROVE  /\ x \div n \in Nat /\ x \div n <= x
           /\ x = n * (x \div n) + (x % n)
OBVIOUS

\* Quotient and remainder are unique.
LEMMA SameQuotient ==
    ASSUME NEW n \in Nat \ {0}, NEW p \in Nat, NEW q \in Nat,
           NEW r \in 0..(n - 1), NEW s \in 0..(n - 1), n * p + r = n * q + s
    PROVE  p = q /\ r = s
<1>1. \A x, y \in Nat, t, u \in 0..(n - 1) : n * x + t = n * y + u => ~(x > y)
  <2> SUFFICES ASSUME NEW x \in Nat, NEW y \in Nat, NEW t \in 0..(n - 1), NEW u \in 0..(n - 1),
                      n * x + t = n * y + u, x > y
               PROVE  FALSE
    OBVIOUS
  <2>1. PICK d \in Nat \ {0} : x = y + d
    <3>1. x - y \in Nat \ {0} /\ x = y + (x - y)
      OBVIOUS
    <3> QED
      BY <3>1
  <2>2. n * (y + d) = n * y + n * d
    BY <2>1
  <2>3. n * d >= n
    BY <2>1
  <2>4. n * y \in Int /\ n * d \in Int
    BY <2>1
  <2> QED
    BY <2>1, <2>2, <2>3, <2>4
<1>2. ~(p > q) /\ ~(q > p)
  BY <1>1
<1>3. p = q
  BY <1>2
<1>4. n * p \in Int
  OBVIOUS
<1> QED
  BY <1>3, <1>4

\* Dividing a product by a factor.
LEMMA Factor ==
    ASSUME NEW a \in Nat, NEW b \in Nat \ {0}
    PROVE  (a * b) \div b = a /\ (a * b) % b = 0
<1> DEFINE x == a * b
           q == x \div b
           r == x % b
<1>1. x \in Nat
  OBVIOUS
<1> HIDE DEF x
<1>2. q \in Nat /\ x = b * q + r
  BY <1>1, Quotient
<1>3. r \in 0..(b - 1)
  BY <1>1, Wrap
<1> HIDE DEF q, r
<1>4. b * a + 0 = b * q + r /\ 0 \in 0..(b - 1)
  BY <1>2 DEF x
<1>5. a = q /\ 0 = r
  BY <1>2, <1>3, <1>4, SameQuotient
<1> QED
  BY <1>5 DEF q, r, x

\* Numbers of two digits compare by the higher digit first.
LEMMA Lexicographic ==
    ASSUME NEW n \in Nat \ {0}, NEW p \in Nat, NEW q \in Nat,
           NEW r \in 0..(n - 1), NEW s \in 0..(n - 1)
    PROVE  (n * p + r > n * q + s) = (p > q \/ (p = q /\ r > s))
<1>1. \A x, y \in Nat, t, u \in 0..(n - 1) : x > y => n * x + t > n * y + u
  <2> SUFFICES ASSUME NEW x \in Nat, NEW y \in Nat, NEW t \in 0..(n - 1), NEW u \in 0..(n - 1),
                      x > y
               PROVE  n * x + t > n * y + u
    OBVIOUS
  <2>1. PICK d \in Nat \ {0} : x = y + d
    <3>1. x - y \in Nat \ {0} /\ x = y + (x - y)
      OBVIOUS
    <3> QED
      BY <3>1
  <2>2. /\ n * (y + d) = n * y + n * d /\ n * d >= n
        /\ n * y \in Int /\ n * d \in Int
    BY <2>1
  <2> QED
    BY <2>1, <2>2
<1>2. n * p \in Int /\ n * q \in Int
  OBVIOUS
<1>3. CASE p > q
  BY <1>1, <1>3
<1>4. CASE q > p
  <2>1. n * q + s > n * p + r
    BY <1>1, <1>4
  <2> QED
    BY <1>2, <1>4, <2>1
<1>5. CASE p = q
  BY <1>2, <1>5
<1> QED
  BY <1>3, <1>4, <1>5

\* Whole multiples of the modulus do not count.
LEMMA DropMultiple ==
    ASSUME NEW n \in Nat \ {0}, NEW k \in Nat, NEW y \in Nat
    PROVE  (n * k + y) % n = y % n
<1> DEFINE x == n * k + y
           p == x \div n
           q == y \div n
           r == x % n
           s == y % n
<1>1. x \in Nat /\ x = n * k + y
  OBVIOUS
<1>2. q \in Nat /\ y = n * q + s
  BY Quotient
<1>3. s \in 0..(n - 1)
  BY Wrap
<1> HIDE DEF x
<1>4. p \in Nat /\ x = n * p + r
  BY <1>1, Quotient
<1>5. r \in 0..(n - 1)
  BY <1>1, Wrap
<1> HIDE DEF p, q, r, s
<1>6. n * p + r = n * (k + q) + s
  <2>1. n * (k + q) = n * k + n * q
    BY <1>2
  <2> QED
    BY <1>1, <1>2, <1>3, <1>4, <2>1
<1>7. p = k + q /\ r = s
  BY <1>2, <1>3, <1>4, <1>5, <1>6, SameQuotient
<1> QED
  BY <1>7 DEF r, s, x

\* A remainder may be taken before adding as well as after.
LEMMA RemainderFirst ==
    ASSUME NEW n \in Nat \ {0}, NEW c \in Nat, NEW d \in Nat
    PROVE  ((c % n) + d) % n = (c + d) % n
<1> DEFINE q == c \div n
           r == c % n
<1>1. q \in Nat /\ c = n * q + r
  BY Quotient
<1>2. r \in 0..(n - 1)
  BY Wrap
<1> HIDE DEF q, r
<1>3. r + d \in Nat /\ c + d = n * q + (r + d)
  BY <1>1, <1>2
<1>4. (n * q + (r + d)) % n = (r + d) % n
  BY <1>1, <1>3, DropMultiple
<1> QED
  BY <1>3, <1>4 DEF r

\* Taking a remainder by a multiple of the modulus first changes nothing.
LEMMA RemainderOfMultiple ==
    ASSUME NEW n \in Nat \ {0}, NEW w \in Nat \ {0}, w % n = 0, NEW x \in Nat
    PROVE  (x % w) % n = x % n
<1> DEFINE k == w \div n
           q == x \div w
           r == x % w
<1>1. k \in Nat /\ w = n * k
  BY Quotient
<1>2. q \in Nat /\ x = w * q + r
  BY Quotient
<1>3. r \in 0..(w - 1)
  BY Wrap
<1> HIDE DEF k, q, r
<1>4. r \in Nat /\ k * q \in Nat /\ x = n * (k * q) + r
  <2>1. (n * k) * q = n * (k * q)
    BY <1>1, <1>2
  <2> QED
    BY <1>1, <1>2, <1>3, <2>1
<1>5. (n * (k * q) + r) % n = r % n
  BY <1>4, DropMultiple
<1> QED
  BY <1>4, <1>5 DEF r

\* The successor's quotient and remainder.
LEMMA OneMore ==
    ASSUME NEW n \in Nat \ {0}, NEW x \in Nat
    PROVE  /\ x % n = n - 1 => (x + 1) % n = 0 /\ (x + 1) \div n = x \div n + 1
           /\ x % n # n - 1 => (x + 1) % n = (x % n) + 1 /\ (x + 1) \div n = x \div n
<1> DEFINE q == x \div n
           r == x % n
           p == (x + 1) \div n
           s == (x + 1) % n
<1>1. q \in Nat /\ x = n * q + r
  BY Quotient
<1>2. r \in 0..(n - 1)
  BY Wrap
<1>3. x + 1 \in Nat
  OBVIOUS
<1>4. p \in Nat /\ x + 1 = n * p + s
  BY <1>3, Quotient
<1>5. s \in 0..(n - 1)
  BY <1>3, Wrap
<1> HIDE DEF p, q, r, s
<1>6. CASE r = n - 1
  <2>1. n * (q + 1) = n * q + n
    BY <1>1
  <2>2. n * p + s = n * (q + 1) + 0 /\ 0 \in 0..(n - 1) /\ q + 1 \in Nat
    BY <1>1, <1>2, <1>4, <1>5, <1>6, <2>1
  <2>3. p = q + 1 /\ s = 0
    BY <1>4, <1>5, <2>2, SameQuotient
  <2> QED
    BY <1>6, <2>3 DEF p, q, r, s
<1>7. CASE r # n - 1
  <2>1. n * p + s = n * q + (r + 1) /\ r + 1 \in 0..(n - 1)
    BY <1>1, <1>2, <1>4, <1>5, <1>7
  <2>2. p = q /\ s = r + 1
    BY <1>1, <1>4, <1>5, <2>1, SameQuotient
  <2> QED
    BY <1>7, <2>2 DEF p, q, r, s
<1> QED
  BY <1>6, <1>7

\* One count more of a number that two digits hold, the higher one with m values.
LEMMA CarryDigit ==
    ASSUME NEW d \in Nat \ {0}, NEW m \in Nat \ {0}, NEW x \in Nat
    PROVE  LET y == x % (m * d)
               z == (x + 1) % (m * d)
               h == y \div d
               l == y % d
           IN  /\ l # d - 1 => /\ z \div d = h /\ z % d = l + 1
                               /\ x + 1 >= m * d => x >= m * d
               /\ l = d - 1 => /\ z % d = 0
                               /\ z \div d = IF h = m - 1 THEN 0 ELSE h + 1
                               /\ h = m - 1 => x + 1 >= m * d
                               /\ h # m - 1 /\ x + 1 >= m * d => x >= m * d
<1> DEFINE M == m * d
           y == x % M
           z == (x + 1) % M
           h == y \div d
           l == y % d
<1>1. M \in Nat \ {0} /\ M = d * m
  OBVIOUS
<1> HIDE DEF M
<1>2. y \in 0..(M - 1) /\ (x \in 0..(M - 1) => y = x)
  <2>1. x \in Int /\ M \in Nat \ {0}
    BY <1>1
  <2>2. y \in 0..(M - 1)
    BY <2>1, Wrap
  <2>3. x \in 0..(M - 1) => y = x
    BY <2>1, Wrap
  <2> QED
    BY <2>2, <2>3
<1>3. /\ y = M - 1 => z = 0
      /\ y # M - 1 => z = y + 1
  BY <1>1, OneMore
<1>4. x >= y
  <2>1. x \div M \in Nat /\ x = M * (x \div M) + y
    BY <1>1, Quotient
  <2>2. M * (x \div M) \in Nat
    BY <1>1, <2>1
  <2> QED
    BY <1>2, <2>1, <2>2
<1> HIDE DEF y, z
<1>5. h \in Nat /\ y = d * h + l
  BY <1>2, Quotient
<1>6. l \in 0..(d - 1)
  BY <1>2, Wrap
<1>15. y \in Nat
  BY <1>1, <1>2
<1>7. /\ l = d - 1 => (y + 1) % d = 0 /\ (y + 1) \div d = h + 1
      /\ l # d - 1 => (y + 1) % d = l + 1 /\ (y + 1) \div d = h
  BY <1>15, OneMore
<1> HIDE DEF h, l
<1>8. /\ M - 1 = d * (m - 1) + (d - 1) /\ m - 1 \in Nat /\ d - 1 \in 0..(d - 1)
  <2>1. d * (m - 1) = d * m - d
    OBVIOUS
  <2> QED
    BY <1>1, <2>1
<1>9. y = M - 1 <=> h = m - 1 /\ l = d - 1
  <2>1. y = M - 1 => h = m - 1 /\ l = d - 1
    BY <1>5, <1>6, <1>8, SameQuotient
  <2>2. h = m - 1 /\ l = d - 1 => y = M - 1
    BY <1>5, <1>8
  <2> QED
    BY <2>1, <2>2
<1>10. 0 % d = 0 /\ 0 \div d = 0
  <2>1. 0 \div d \in Nat /\ 0 \div d <= 0
    BY Quotient
  <2>2. 0 \in 0..(d - 1)
    OBVIOUS
  <2>3. 0 % d = 0
    BY <2>2, Wrap
  <2> QED
    BY <2>1, <2>3
<1>11. x + 1 >= M /\ ~(x >= M) => y = M - 1
  BY <1>1, <1>2
<1>12. y = M - 1 => x + 1 >= M
  BY <1>1, <1>4
<1>13. CASE l # d - 1
  <2>1. z = y + 1
    BY <1>3, <1>9, <1>13
  <2>2. z \div d = h /\ z % d = l + 1
    BY <1>7, <1>13, <2>1
  <2>3. x + 1 >= M => x >= M
    BY <1>9, <1>11, <1>13
  <2> QED
    BY <1>13, <2>2, <2>3 DEF y, z, h, l, M
<1>14. CASE l = d - 1
  <2>1. CASE h = m - 1
    <3>1. z = 0
      BY <1>3, <1>9, <1>14, <2>1
    <3>2. z % d = 0 /\ z \div d = 0 /\ x + 1 >= M
      BY <1>9, <1>10, <1>12, <1>14, <2>1, <3>1
    <3> QED
      BY <1>14, <2>1, <3>2 DEF y, z, h, l, M
  <2>2. CASE h # m - 1
    <3>1. z = y + 1
      BY <1>3, <1>9, <1>14, <2>2
    <3>2. z % d = 0 /\ z \div d = h + 1
      BY <1>7, <1>14, <3>1
    <3>3. x + 1 >= M => x >= M
      BY <1>9, <1>11, <1>14, <2>2
    <3> QED
      BY <1>14, <2>2, <3>2, <3>3 DEF y, z, h, l, M
  <2> QED
    BY <2>1, <2>2
<1> QED
  BY <1>13, <1>14

\* Quotient of a remainder by a multiple.
LEMMA QuotientOfRemainder ==
    ASSUME NEW p \in Nat \ {0}, NEW k \in Nat \ {0}, NEW x \in Nat
    PROVE  (x % (p * k)) \div p = (x \div p) % k
<1> DEFINE q == x \div p
           r == x % p
           a == q \div k
           b == q % k
           m == p * k
           y == x % m
<1>1. q \in Nat /\ x = p * q + r
  BY Quotient
<1>2. r \in 0..(p - 1)
  BY Wrap
<1> HIDE DEF q, r
<1>3. a \in Nat /\ q = k * a + b
  BY <1>1, Quotient
<1>4. q \in Int
  BY <1>1
<1>5. b \in 0..(k - 1)
  BY <1>4, Wrap
<1> HIDE DEF a, b
<1>6. m \in Nat \ {0} /\ m = p * k
  OBVIOUS
<1> HIDE DEF m
<1>7. x = m * a + (p * b + r) /\ p * b \in Nat /\ p * b + r \in Nat
  <2>1. p * (k * a + b) = p * (k * a) + p * b /\ p * (k * a) = (p * k) * a
    BY <1>3, <1>5
  <2>2. p * b \in Nat
    BY <1>5
  <2> QED
    BY <1>1, <1>2, <1>3, <1>6, <2>1, <2>2
<1>8. p * b + r \in 0..(m - 1)
  <2>1. p * b <= p * (k - 1) /\ p * (k - 1) = p * k - p
    BY <1>5
  <2> QED
    BY <1>2, <1>6, <1>7, <2>1
<1>9. y = p * b + r
  <2>1. (m * a + (p * b + r)) % m = (p * b + r) % m
    BY <1>3, <1>6, <1>7, DropMultiple
  <2> DEFINE z == p * b + r
  <2>2. z \in Int /\ z \in 0..(m - 1)
    BY <1>7, <1>8
  <2> HIDE DEF z
  <2>3. z % m = z
    BY <1>6, <2>2, Wrap
  <2> QED
    BY <1>7, <2>1, <2>3 DEF z
<1>10. y \div p = b
  <2> DEFINE z == p * b + r
             c == z \div p
             d == z % p
  <2>1. z \in Nat
    BY <1>7
  <2>2. z = p * b + r
    OBVIOUS
  <2> HIDE DEF z
  <2>3. c \in Nat /\ z = p * c + d
    BY <2>1, Quotient
  <2>4. d \in 0..(p - 1)
    BY <2>1, Wrap
  <2> HIDE DEF c, d
  <2>5. b \in Nat
    BY <1>5
  <2>6. c = b
    BY <1>2, <2>2, <2>3, <2>4, <2>5, SameQuotient
  <2> QED
    BY <1>9, <2>2, <2>6 DEF c
<1> QED
  BY <1>10 DEF b, q, y, m

\* Two counters that count modulo the same number, and what comes on top.
LEMMA SumOfCounters ==
    ASSUME NEW n \in Nat \ {0}, NEW a \in Nat, NEW b \in Nat, NEW c \in Nat
    PROVE  ((a % n) + (b % n) + c) % n = (a + b + c) % n
<1>1. a % n \in Nat /\ b % n \in Nat
  <2>1. a % n \in 0..(n - 1) /\ b % n \in 0..(n - 1)
    BY Wrap
  <2> QED
    BY <2>1
<1> DEFINE s == a % n
           t == b % n
<1>2. s \in Nat /\ t \in Nat
  BY <1>1
<1>3. \A x \in Nat : (s + x) % n = (a + x) % n
  BY RemainderFirst
<1>4. \A x \in Nat : (t + x) % n = (b + x) % n
  BY RemainderFirst
<1> HIDE DEF s, t
<1>5. t + c \in Nat /\ a + c \in Nat /\ s + t + c = s + (t + c) /\ a + (t + c) = t + (a + c)
      /\ b + (a + c) = a + b + c
  BY <1>2
<1>6. (s + (t + c)) % n = (a + (t + c)) % n /\ (t + (a + c)) % n = (b + (a + c)) % n
  BY <1>3, <1>4, <1>5
<1>7. (s + t + c) % n = (a + b + c) % n
  BY <1>5, <1>6
<1> QED
  BY <1>7 DEF s, t

\* Quotient and remainder are what the division theorem says.
LEMMA QuotientIs ==
    ASSUME NEW c \in Nat \ {0}, NEW x \in Nat, NEW q \in Nat, NEW r \in 0..(c - 1), x = c * q + r
    PROVE  x \div c = q /\ x % c = r
<1> DEFINE p == x \div c
           s == x % c
<1>1. p \in Nat /\ x = c * p + s
  BY Quotient
<1>2. s \in 0..(c - 1)
  BY Wrap
<1> HIDE DEF p, s
<1>3. c * p + s = c * q + r
  BY <1>1
<1>5. p \in Nat /\ s \in 0..(c - 1)
  BY <1>1, <1>2
<1>4. p = q /\ s = r
  BY <1>3, <1>5, SameQuotient, SMTT(30)
<1> QED
  BY <1>4 DEF p, s

\* Dividing twice is dividing by the product.
LEMMA NestedQuotient ==
    ASSUME NEW x \in Nat, NEW a \in Nat \ {0}, NEW b \in Nat \ {0}
    PROVE  (x \div a) \div b = x \div (a * b)
<1> DEFINE y == x \div a
           r == x % a
           z == y \div b
           s == y % b
           m == a * b
           t == a * s + r
<1>1. y \in Nat /\ x = a * y + r
  BY Quotient
<1>2. r \in 0..(a - 1)
  BY Wrap
<1> HIDE DEF y, r
<1>3. z \in Nat /\ y = b * z + s
  BY <1>1, Quotient
<1>4. s \in 0..(b - 1)
  BY <1>1, Wrap
<1> HIDE DEF z, s
<1>5. m \in Nat \ {0} /\ m = a * b
  OBVIOUS
<1> HIDE DEF m
<1>6. x = m * z + t
  <2>1. a * (b * z + s) = a * (b * z) + a * s /\ a * (b * z) = (a * b) * z
    BY <1>3, <1>4
  <2> QED
    BY <1>1, <1>2, <1>3, <1>4, <1>5, <2>1
<1>7. t \in 0..(m - 1)
  <2>1. a * s <= a * (b - 1) /\ a * s \in Nat
    BY <1>4
  <2>2. a * (b - 1) = m - a
    BY <1>5
  <2> QED
    BY <1>2, <1>5, <2>1, <2>2
<1> HIDE DEF t
<1>8. x \div m = z
  BY <1>3, <1>5, <1>6, <1>7, QuotientIs
<1> QED
  BY <1>8 DEF m, z, y

\* One more bit of a dividend.
LEMMA NextDigit ==
    ASSUME NEW x \in Nat, NEW d \in Nat \ {0}
    PROVE  x \div d = 2 * (x \div (2 * d)) + ((x \div d) % 2)
<1> DEFINE y == x \div d
           h == y \div 2
<1>1. y \in Nat
  BY Quotient
<1>2. h = x \div (d * 2)
  BY NestedQuotient
<1>3. d * 2 = 2 * d
  OBVIOUS
<1> HIDE DEF y
<1>4. h \in Nat /\ y = 2 * h + (y % 2)
  BY <1>1, Quotient
<1> HIDE DEF h
<1>5. h = x \div (2 * d)
  BY <1>2, <1>3
<1> QED
  BY <1>4, <1>5 DEF y

\* What it does to quotient and remainder.
LEMMA ShiftIn ==
    ASSUME NEW x \in Nat, NEW b \in 0..1, NEW c \in Nat \ {0}
    PROVE  LET r == 2 * (x % c) + b
               y == 2 * x + b
           IN  /\ r >= c => y % c = r - c /\ y \div c = 2 * (x \div c) + 1
               /\ ~(r >= c) => y % c = r /\ y \div c = 2 * (x \div c)
<1> DEFINE q == x \div c
           s == x % c
           r == 2 * s + b
           y == 2 * x + b
<1>1. q \in Nat /\ x = c * q + s
  BY Quotient
<1>2. s \in 0..(c - 1)
  BY Wrap
<1> HIDE DEF q, s
<1>3. y \in Nat /\ r \in Nat
  BY <1>2
<1>4. y = c * (2 * q) + r
  <2>1. c * (2 * q) = 2 * (c * q) /\ c * q \in Nat
    BY <1>1
  <2> QED
    BY <1>1, <1>2, <2>1
<1>5. y = c * (2 * q + 1) + (r - c)
  <2>1. c * (2 * q + 1) = c * (2 * q) + c /\ c * (2 * q) \in Nat
    BY <1>1
  <2> QED
    BY <1>3, <1>4, <2>1
<1>6. r < 2 * c
  BY <1>2
<1> HIDE DEF r, y
<1>7. ASSUME r >= c PROVE y % c = r - c /\ y \div c = 2 * q + 1
  <2> DEFINE d == r - c
             p == 2 * q + 1
  <2>1. d \in 0..(c - 1) /\ p \in Nat
    BY <1>1, <1>3, <1>6, <1>7
  <2>2. y = c * p + d
    BY <1>5
  <2> HIDE DEF d, p
  <2>3. y % c = d /\ y \div c = p
    BY <1>3, <2>1, <2>2, QuotientIs
  <2> QED
    BY <2>3 DEF d, p
<1>8. ASSUME ~(r >= c) PROVE y % c = r /\ y \div c = 2 * q
  <2>1. r \in 0..(c - 1) /\ 2 * q \in Nat
    BY <1>1, <1>3, <1>8
  <2> QED
    BY <1>3, <1>4, <2>1, QuotientIs
<1> QED
  BY <1>7, <1>8 DEF q, s, r, y

\* Shifting a bit into a number that is kept to some bits.
LEMMA ShiftModulo ==
    ASSUME NEW x \in Nat, NEW b \in 0..1, NEW m \in Nat \ {0}
    PROVE  (2 * x + b) % (2 * m) = 2 * (x % m) + b
<1> DEFINE q == x \div m
           s == x % m
           y == 2 * x + b
           r == 2 * s + b
<1>1. q \in Nat /\ x = m * q + s
  BY Quotient
<1>2. s \in 0..(m - 1)
  BY Wrap
<1> HIDE DEF q, s
<1>3. y \in Nat /\ r \in 0..(2 * m - 1) /\ 2 * m \in Nat \ {0}
  BY <1>2
<1>4. y = (2 * m) * q + r
  <2>1. (2 * m) * q = 2 * (m * q) /\ m * q \in Nat
    BY <1>1
  <2> QED
    BY <1>1, <1>2, <2>1
<1> HIDE DEF y, r
<1>5. y % (2 * m) = r
  BY <1>1, <1>3, <1>4, QuotientIs
<1> QED
  BY <1>5 DEF y, r, s

\* A number of two digits.
LEMMA Digits ==
    ASSUME NEW n \in Nat \ {0}, NEW x \in 0..(n * n - 1)
    PROVE  /\ x \div n \in 0..(n - 1) /\ x % n \in 0..(n - 1)
           /\ x = n * (x \div n) + (x % n)
<1> DEFINE q == x \div n
           r == x % n
           m == n * n
<1>1. m \in Nat /\ x \in Nat /\ x < m
  OBVIOUS
<1>2. q \in Nat /\ x = n * q + r
  BY <1>1, Quotient
<1>3. r \in 0..(n - 1)
  BY <1>1, Wrap
<1> HIDE DEF q, r
<1>4. q < n
  <2> SUFFICES ASSUME n <= q PROVE FALSE
    BY <1>2
  <2> DEFINE y == n * q
  <2>1. y \in Nat /\ m <= y
    BY <1>2
  <2> HIDE DEF y, m
  <2>2. x = y + r
    BY <1>2 DEF y
  <2> QED
    BY <1>1, <1>3, <2>1, <2>2
<1> QED
  BY <1>2, <1>3, <1>4 DEF q, r

\* Digits make a number below the square.
LEMMA OfDigits ==
    ASSUME NEW n \in Nat \ {0}, NEW q \in 0..(n - 1), NEW r \in 0..(n - 1)
    PROVE  n * q + r \in 0..(n * n - 1)
<1>1. n * q <= n * (n - 1) /\ n * q \in Nat
  OBVIOUS
<1>2. n * (n - 1) = n * n - n /\ n * n \in Nat
  OBVIOUS
<1> QED
  BY <1>1, <1>2

\* The product of two numbers is below the product of their bounds.
LEMMA BelowSquare ==
    ASSUME NEW n \in Nat \ {0}, NEW a \in 0..(n - 1), NEW b \in 0..(n - 1)
    PROVE  a * b \in Nat /\ a * b < n * n
<1>1. a * b <= a * n /\ a * n <= (n - 1) * n /\ a * b \in Nat /\ a * n \in Nat
  OBVIOUS
<1>2. (n - 1) * n = n * n - n /\ n * n \in Nat
  OBVIOUS
<1> QED
  BY <1>1, <1>2

\* The halves of a product are those of the four partial products.
LEMMA PartialProducts ==
    ASSUME NEW H \in Nat, NEW a0 \in Nat, NEW a1 \in Nat, NEW b0 \in Nat, NEW b1 \in Nat,
           NEW u0 \in Nat, NEW v0 \in Nat, NEW u1 \in Nat, NEW v1 \in Nat,
           NEW u2 \in Nat, NEW v2 \in Nat, NEW m1 \in Nat, NEW m0 \in Nat,
           a0 * b0 = H * u0 + v0, a0 * b1 = H * u1 + v1, a1 * b0 = H * u2 + v2,
           u0 + v1 + v2 = H * m1 + m0
    PROVE  (H * a1 + a0) * (H * b1 + b0) = (H * H) * (a1 * b1 + u1 + u2 + m1) + (H * m0 + v0)
<1> DEFINE p0 == a0 * b0
           p1 == a0 * b1
           p2 == a1 * b0
           p3 == a1 * b1
           mid == u0 + v1 + v2
<1>1. (H * a1 + a0) * (H * b1 + b0) = (H * H) * p3 + H * p1 + H * p2 + p0
  <2>1. \A x, y, z \in Nat : (x + y) * z = x * z + y * z /\ z * (x + y) = z * x + z * y
                             /\ x * (y * z) = (x * y) * z /\ x * y = y * x /\ x * y \in Nat
    OBVIOUS
  <2> DEFINE x == H * a1
             y == H * b1
  <2>2. x \in Nat /\ y \in Nat
    OBVIOUS
  <2>3. (x + a0) * (y + b0) = x * y + x * b0 + a0 * y + a0 * b0
    BY <2>2
  <2>4. x * y = (H * H) * p3
    OBVIOUS
  <2>5. x * b0 = H * p2
    OBVIOUS
  <2>6. a0 * y = H * p1
    OBVIOUS
  <2>7. x * y \in Nat /\ x * b0 \in Nat /\ a0 * y \in Nat /\ p0 \in Nat
    BY <2>2
  <2> DEFINE s == (x + a0) * (y + b0)
             t1 == x * y
             t2 == x * b0
             t3 == a0 * y
             w1 == (H * H) * p3
             w2 == H * p2
             w3 == H * p1
  <2>8. s = t1 + t2 + t3 + p0 /\ t1 = w1 /\ t2 = w2 /\ t3 = w3
        /\ t1 \in Nat /\ t2 \in Nat /\ t3 \in Nat /\ p0 \in Nat
    BY <2>3, <2>4, <2>5, <2>6, <2>7
  <2> HIDE DEF s, t1, t2, t3, w1, w2, w3, p0
  <2>9. s = w1 + w3 + w2 + p0
    BY <2>8
  <2> QED
    BY <2>9 DEF s, w1, w2, w3, x, y
<1>2. H * p1 = (H * H) * u1 + H * v1
  <2>1. H * (H * u1 + v1) = H * (H * u1) + H * v1 /\ H * (H * u1) = (H * H) * u1
    OBVIOUS
  <2> QED
    BY <2>1
<1>3. H * p2 = (H * H) * u2 + H * v2
  <2>1. H * (H * u2 + v2) = H * (H * u2) + H * v2 /\ H * (H * u2) = (H * H) * u2
    OBVIOUS
  <2> QED
    BY <2>1
<1>4. H * u0 + H * v1 + H * v2 = (H * H) * m1 + H * m0
  <2>1. H * (u0 + v1 + v2) = H * u0 + H * v1 + H * v2
    OBVIOUS
  <2>2. H * (H * m1 + m0) = H * (H * m1) + H * m0 /\ H * (H * m1) = (H * H) * m1
    OBVIOUS
  <2> QED
    BY <2>1, <2>2
<1>5. (H * H) * (p3 + u1 + u2 + m1) = (H * H) * p3 + (H * H) * u1 + (H * H) * u2 + (H * H) * m1
  <2> DEFINE L == H * H
  <2>1. L \in Nat /\ p3 \in Nat
    OBVIOUS
  <2> HIDE DEF L, p3
  <2>2. L * (p3 + u1 + u2 + m1) = L * p3 + L * u1 + L * u2 + L * m1
    BY <2>1
  <2> QED
    BY <2>2 DEF L
<1> DEFINE whole == (H * a1 + a0) * (H * b1 + b0)
           L3 == (H * H) * p3
           L1 == (H * H) * u1
           L2 == (H * H) * u2
           Lm == (H * H) * m1
           x1 == H * p1
           x2 == H * p2
           y0 == H * u0
           y1 == H * v1
           y2 == H * v2
           z0 == H * m0
           all == (H * H) * (p3 + u1 + u2 + m1)
<1>6. /\ L3 \in Nat /\ L1 \in Nat /\ L2 \in Nat /\ Lm \in Nat
      /\ y0 \in Nat /\ y1 \in Nat /\ y2 \in Nat /\ z0 \in Nat /\ p0 = y0 + v0
  <2>1. H * H \in Nat /\ p3 \in Nat
    OBVIOUS
  <2> QED
    BY <2>1
<1>7. /\ whole = L3 + x1 + x2 + p0 /\ x1 = L1 + y1 /\ x2 = L2 + y2
      /\ y0 + y1 + y2 = Lm + z0 /\ all = L3 + L1 + L2 + Lm
  BY <1>1, <1>2, <1>3, <1>4, <1>5
<1> HIDE DEF whole, L3, L1, L2, Lm, x1, x2, y0, y1, y2, z0, all, p0
<1>8. whole = all + (z0 + v0)
  BY <1>6, <1>7
<1> QED
  BY <1>8 DEF whole, all, z0

\* A remainder of naturals is a natural below the divisor.
LEMMA RestOf ==
    ASSUME NEW n \in Nat \ {0}, NEW x \in Nat
    PROVE  x % n \in 0..(n - 1) /\ x % n \in Nat
<1> x \in Int
  OBVIOUS
<1>1. x % n \in 0..(n - 1)
  BY Wrap
<1> DEFINE r == x % n
<1> HIDE DEF r
<1>2. r \in 0..(n - 1)
  BY <1>1 DEF r
<1>3. r \in Nat
  BY <1>2
<1> QED
  BY <1>1, <1>3 DEF r

\* A multiple is divided by its factor.
LEMMA QuotientOfMultiple ==
    ASSUME NEW x \in Nat, NEW k \in Nat \ {0}
    PROVE  (x * k) \div k = x
<1> DEFINE y == x * k
<1>1. y \in Nat /\ y = k * x + 0 /\ 0 \in 0..(k - 1)
  OBVIOUS
<1> HIDE DEF y
<1>2. y \div k = x
  BY <1>1, QuotientIs
<1> QED
  BY <1>2 DEF y

\* A larger dividend has a quotient no smaller.
LEMMA QuotientGrows ==
    ASSUME NEW x \in Nat, NEW y \in Nat, x <= y, NEW c \in Nat \ {0}
    PROVE  x \div c <= y \div c
<1> DEFINE p == x \div c
           r == x % c
           q == y \div c
           s == y % c
<1>1. p \in Nat /\ q \in Nat /\ x = c * p + r /\ y = c * q + s
  BY Quotient
<1>2. r \in 0..(c - 1) /\ s \in 0..(c - 1)
  BY RestOf
<1> HIDE DEF p, q, r, s
<1> SUFFICES ASSUME q + 1 <= p PROVE FALSE
  BY <1>1 DEF p, q
<1>3. c * (q + 1) <= c * p /\ c * (q + 1) = c * q + c
  BY <1>1
<1> DEFINE u == c * p
           v == c * q
<1>4. u \in Nat /\ v \in Nat /\ v + c <= u /\ x = u + r /\ y = v + s
  BY <1>1, <1>3
<1> HIDE DEF u, v
<1> QED
  BY <1>2, <1>4

\* Cycles of which at most s make a second come back from the time they take, or one less.
LEMMA ThereAndBack ==
    ASSUME NEW n \in Nat, NEW c \in Nat \ {0}, NEW s \in Nat, c <= s
    PROVE  LET back == (((n * s) \div c) * c) \div s
           IN  back \in Nat /\ n - back \in {0, 1}
<1> DEFINE m == n * s
           t == m \div c
           r == m % c
           d == t * c
<1>1. m \in Nat /\ s \in Nat \ {0}
  OBVIOUS
<1> HIDE DEF m
<1>2. t \in Nat /\ m = c * t + r
  BY <1>1, Quotient
<1>3. r \in 0..(c - 1)
  BY <1>1, RestOf
<1> HIDE DEF t, r
<1>4. d \in Nat /\ m = d + r
  BY <1>2, <1>3
<1> HIDE DEF d
<1>5. CASE r = 0
  <2>1. d = n * s
    BY <1>1, <1>3, <1>4, <1>5 DEF m
  <2>2. d \div s = n
    BY <1>1, <2>1, QuotientOfMultiple
  <2>3. n - (d \div s) = 0
    BY <2>2
  <2> QED
    BY <2>2, <2>3 DEF d, t, m
<1>6. CASE r # 0
  <2> DEFINE e == s - r
             p == n - 1
  <2>1. n # 0
    <3> SUFFICES ASSUME n = 0 PROVE FALSE
      OBVIOUS
    <3>1. m = 0
      BY DEF m
    <3> QED
      BY <1>3, <1>4, <1>6, <3>1
  <2>2. e \in 0..(s - 1) /\ p \in Nat
    BY <1>1, <1>3, <1>6, <2>1
  <2>3. d = s * p + e
    <3>1. s * p = m - s
      BY <1>1 DEF m
    <3> HIDE DEF p
    <3> QED
      BY <1>1, <1>3, <1>4, <3>1
  <2>5. n = p + 1
    OBVIOUS
  <2> HIDE DEF e, p
  <2>4. d \div s = p
    BY <1>1, <1>4, <2>2, <2>3, QuotientIs
  <2>6. n - (d \div s) = 1
    BY <2>2, <2>4, <2>5
  <2> QED
    BY <2>2, <2>4, <2>6 DEF d, t, m
<1> QED
  BY <1>5, <1>6

\* Converting to the coarser unit, or to the finer one first, is the same.
LEMMA Coarser ==
    ASSUME NEW n \in Nat, NEW c \in Nat \ {0}, NEW k \in Nat \ {0}, NEW u \in Nat \ {0}
    PROVE  /\ ((n * (k * u)) \div c) \div k = (n * u) \div c
           /\ ((n * k) * c) \div (k * u) = (n * c) \div u
<1> DEFINE x == n * u
           y == n * c
<1>1. x \in Nat /\ y \in Nat /\ x * k \in Nat /\ y * k \in Nat
  OBVIOUS
<1>2. n * (k * u) = x * k /\ (n * k) * c = y * k
  <2>1. n * (k * u) = (n * u) * k
    OBVIOUS
  <2>2. (n * k) * c = (n * c) * k
    OBVIOUS
  <2> QED
    BY <2>1, <2>2
<1> HIDE DEF x, y
<1>3. ((x * k) \div c) \div k = x \div c
  <2> DEFINE z == x * k
  <2>1. z \in Nat
    BY <1>1
  <2>2. z \div k = x
    BY <1>1, QuotientOfMultiple
  <2> HIDE DEF z
  <2>3. (z \div c) \div k = z \div (c * k) /\ (z \div k) \div c = z \div (k * c)
    BY <2>1, NestedQuotient
  <2>4. c * k = k * c
    OBVIOUS
  <2>5. (z \div c) \div k = x \div c
    BY <2>2, <2>3, <2>4
  <2> QED
    BY <2>5 DEF z
<1>4. (y * k) \div (k * u) = y \div u
  <2> DEFINE z == y * k
  <2>1. z \in Nat
    BY <1>1
  <2>2. z \div k = y
    BY <1>1, QuotientOfMultiple
  <2> HIDE DEF z
  <2>3. (z \div k) \div u = z \div (k * u)
    BY <2>1, NestedQuotient
  <2>4. z \div (k * u) = y \div u
    BY <2>2, <2>3
  <2> QED
    BY <2>4 DEF z
<1> QED
  BY <1>2, <1>3, <1>4 DEF x, y

------------------------------------------------------------------------------
\* A set of numbers that is not empty has a least element.
LEMMA Least ==
    ASSUME NEW S \in SUBSET Nat, S # {}
    PROVE  \E x \in S : \A y \in S : ~(y < x)
<1> DEFINE R == OpToRel(<, Nat)
<1>1. IsWellFoundedOn(R, Nat)
  BY NatLessThanWellFounded
<1>2. \A x, y \in Nat : (<<x, y>> \in R) <=> x < y
  BY DEF OpToRel
<1> HIDE DEF R
<1>3. PICK x \in S : \A y \in S : ~(<<y, x>> \in R)
  BY <1>1, WFMin
<1> QED
  BY <1>2, <1>3

\* Induction, with a set in place of a predicate.
LEMMA Induction ==
    ASSUME NEW S, 0 \in S, \A n \in Nat : n \in S => n + 1 \in S
    PROVE  Nat \subseteq S
<1> SUFFICES ASSUME Nat \ S # {} PROVE FALSE
  OBVIOUS
<1>1. PICK x \in Nat \ S : \A y \in Nat \ S : ~(y < x)
  BY Least
<1>2. x # 0 /\ x - 1 \in Nat /\ (x - 1) + 1 = x
  BY <1>1
<1>3. x - 1 \in S
  BY <1>1, <1>2
<1> QED
  BY <1>1, <1>2, <1>3

\* f is computed step by step: f[k] from f[k - 1], in the set X.
Computes(f, n, X, base, step) ==
    /\ f \in [0..n -> X] /\ f[0] = base
    /\ \A k \in 0..n : k # 0 => f[k] = step[<<k, f[k - 1]>>]

\* A function that is computed step by step exists, and keeps to a set that is
\* closed under the steps.
LEMMA Iterates ==
    ASSUME NEW X, NEW base \in X, NEW step \in [Nat \X X -> X], NEW n \in Nat
    PROVE  \E f : Computes(f, n, X, base, step)
<1> DEFINE Good(m, f) == f \in [0..m -> X] /\ f[0] = base
                         /\ \A k \in 0..m : k # 0 => f[k] = step[<<k, f[k - 1]>>]
           S == {m \in Nat : \E f : Good(m, f)}
<1>1. 0 \in S
  <2> DEFINE f == [k \in 0..0 |-> base]
  <2>1. Good(0, f)
    OBVIOUS
  <2> QED
    BY <2>1
<1>2. \A m \in Nat : m \in S => m + 1 \in S
  <2> SUFFICES ASSUME NEW m \in Nat, NEW f, Good(m, f) PROVE \E g : Good(m + 1, g)
    OBVIOUS
  <2> DEFINE last == step[<<m + 1, f[m]>>]
             g == [k \in 0..(m + 1) |-> IF k <= m THEN f[k] ELSE last]
  <2>1. last \in X
    OBVIOUS
  <2>2. g \in [0..(m + 1) -> X] /\ g[0] = base
    <3> HIDE DEF last
    <3> QED
      BY <2>1
  <2>3. \A k \in 0..(m + 1) : k # 0 => g[k] = step[<<k, g[k - 1]>>]
    <3> SUFFICES ASSUME NEW k \in 0..(m + 1), k # 0 PROVE g[k] = step[<<k, g[k - 1]>>]
      OBVIOUS
    <3>1. k - 1 \in 0..m /\ k - 1 \in 0..(m + 1) /\ k - 1 <= m
      OBVIOUS
    <3>2. g[k - 1] = f[k - 1]
      BY <3>1
    <3>3. CASE k <= m
      <4>1. k \in 0..m
        BY <3>3
      <4> QED
        BY <3>2, <3>3, <4>1
    <3>4. CASE ~(k <= m)
      <4>1. k = m + 1 /\ k - 1 = m
        BY <3>4
      <4>2. g[k] = last
        BY <3>4
      <4> QED
        BY <3>2, <4>1, <4>2
    <3> QED
      BY <3>3, <3>4
  <2> HIDE DEF g
  <2> QED
    BY <2>2, <2>3
<1> HIDE DEF S
<1>3. n \in S
  BY <1>1, <1>2, Induction
<1> QED
  BY <1>3 DEF S, Computes

\* What a function on all the naturals is.
ComputesForever(f, X, base, step) ==
    f \in [Nat -> X] /\ f[0] = base /\ \A k \in Nat : f[k + 1] = step[<<k + 1, f[k]>>]

\* The step by step computed prefixes belong to one function.
LEMMA IteratesForever ==
    ASSUME NEW X, NEW base \in X, NEW step \in [Nat \X X -> X]
    PROVE  \E f : ComputesForever(f, X, base, step)
<1> DEFINE F(n) == CHOOSE f : Computes(f, n, X, base, step)
           G == [n \in Nat |-> F(n)[n]]
<1>1. \A n \in Nat : Computes(F(n), n, X, base, step)
  BY Iterates
<1> HIDE DEF F
<1>2. \A n \in Nat : /\ F(n) \in [0..n -> X] /\ F(n)[0] = base
                     /\ \A k \in 0..n : k # 0 => F(n)[k] = step[<<k, F(n)[k - 1]>>]
  BY <1>1 DEF Computes
<1> DEFINE P(k) == \A m \in Nat : \A n \in Nat : k <= m /\ k <= n => F(m)[k] = F(n)[k]
           S == {k \in Nat : P(k)}
<1>3. 0 \in S
  BY <1>2
<1>4. \A k \in Nat : k \in S => k + 1 \in S
  <2> HIDE DEF P
  <2> SUFFICES ASSUME NEW k \in Nat, P(k) PROVE P(k + 1)
    OBVIOUS
  <2> USE DEF P
  <2> SUFFICES ASSUME NEW m \in Nat, NEW n \in Nat, k + 1 <= m, k + 1 <= n
               PROVE  F(m)[k + 1] = F(n)[k + 1]
    OBVIOUS
  <2>1. k + 1 \in 0..m /\ k + 1 \in 0..n /\ k + 1 # 0 /\ (k + 1) - 1 = k /\ k <= m /\ k <= n
    OBVIOUS
  <2>2. F(m)[k + 1] = step[<<k + 1, F(m)[k]>>] /\ F(n)[k + 1] = step[<<k + 1, F(n)[k]>>]
    BY <1>2, <2>1
  <2> QED
    BY <2>1, <2>2
<1> HIDE DEF S
<1>5. \A k \in Nat : P(k)
  BY <1>3, <1>4, Induction DEF S
<1>6. G \in [Nat -> X]
  <2> SUFFICES ASSUME NEW n \in Nat PROVE F(n)[n] \in X
    OBVIOUS
  <2>1. F(n) \in [0..n -> X] /\ n \in 0..n
    BY <1>2
  <2> QED
    BY <2>1
<1>7. G[0] = base
  BY <1>2
<1>8. \A k \in Nat : G[k + 1] = step[<<k + 1, G[k]>>]
  <2> SUFFICES ASSUME NEW k \in Nat PROVE F(k + 1)[k + 1] = step[<<k + 1, F(k)[k]>>]
    OBVIOUS
  <2>1. k + 1 \in Nat /\ k + 1 \in 0..(k + 1) /\ k + 1 # 0 /\ (k + 1) - 1 = k /\ k <= k + 1 /\ k <= k
    OBVIOUS
  <2>2. F(k + 1)[k + 1] = step[<<k + 1, F(k + 1)[k]>>]
    BY <1>2, <2>1
  <2>3. F(k + 1)[k] = F(k)[k]
    BY <1>5, <2>1
  <2> QED
    BY <2>2, <2>3
<1> HIDE DEF G
<1> QED
  BY <1>6, <1>7, <1>8 DEF ComputesForever
===============================================================================
