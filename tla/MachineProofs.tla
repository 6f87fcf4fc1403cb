---------------------------- MODULE MachineProofs -----------------------------
(***************************************************************************)
(* Proofs about Machine, the loop of cpu_run_timed: the clock that         *)
(* firmware keeps with Timer 0 does not drift, the waveform has the level  *)
(* its time calls for, no round is over sooner than on the chip, and the   *)
(* conversions of timing.c agree with one another.                         *)
(***************************************************************************)
EXTENDS Machine, InterruptsProofs, Remainders, SequenceTheorems

------------------------------------------------------------------------------
\* The software clock

\* A poll enters T0 and takes TF0, or leaves TF0 as it is.
EntersT0(c, d) == Len(d.stack) > Len(c.stack) /\ d.at = "T0"

\* TF0 is taken by the poll that enters T0, and by no other.
LEMMA PollTf0 ==
    ASSUME NEW c \in Cpu, NEW d, d = CheckInterrupts(c)
    PROVE  IF EntersT0(c, d) THEN "TF0" \in c.flags /\ "TF0" \notin d.flags
           ELSE "TF0" \in d.flags <=> "TF0" \in c.flags
<1>1. CASE c.power_down \/ "EA" \notin c.ie \/ Scan(c) = NoSource
  <2>1. d = c
    BY <1>1 DEF CheckInterrupts
  <2>2. Len(c.stack) \in Nat
    BY LenProperties DEF Cpu
  <2>3. ~(Len(d.stack) > Len(c.stack))
    BY <2>1, <2>2
  <2> QED
    BY <2>1, <2>3 DEF EntersT0
<1>2. CASE ~(c.power_down \/ "EA" \notin c.ie \/ Scan(c) = NoSource)
  <2> DEFINE s == Scan(c)
             a == LeaveIdle(c)
             b == PushPriority(a)
  <2>1. s \in Sources /\ Acceptable(c, s)
    BY <1>2, ScanAcceptable
  <2>2. d = Service(c, s)
    BY <1>2 DEF CheckInterrupts
  <2> HIDE DEF s
  <2>3. a \in Cpu /\ a.flags = c.flags /\ a.it = c.it /\ a.stack = c.stack
    BY LeaveIdleType DEF LeaveIdle, Cpu
  <2> HIDE DEF a
  <2>4. b \in Cpu /\ b.flags = c.flags /\ b.it = c.it /\ b.stack = c.stack
    BY <2>3, PushType DEF PushPriority, Cpu
  <2> HIDE DEF b
  <2>5. d = CallVector(b, s)
    BY <2>2 DEF Service, a, b
  <2>6. d.stack = Append(c.stack, b.at) /\ d.at = s /\ d.flags = c.flags \ Acknowledged(b, s)
    BY <2>4, <2>5 DEF CallVector, Cpu
  <2>7. Len(d.stack) > Len(c.stack)
    <3>1. c.stack \in Seq(Routines) /\ b.at \in Routines
      BY <2>4 DEF Cpu
    <3>2. Len(Append(c.stack, b.at)) = Len(c.stack) + 1 /\ Len(c.stack) \in Nat
      BY <3>1, AppendProperties, LenProperties
    <3> QED
      BY <2>6, <3>2
  <2>8. CASE s = "T0"
    <3>1. "TF0" \in c.flags
      BY <2>1, <2>8 DEF Acceptable, Pending, FlagsOf
    <3>2. Acknowledged(b, s) = {"TF0"}
      BY <2>8 DEF Acknowledged, FlagsOf
    <3> QED
      BY <2>6, <2>7, <2>8, <3>1, <3>2 DEF EntersT0
  <2>9. CASE s # "T0"
    <3>1. "TF0" \notin Acknowledged(b, s)
      BY <2>1, <2>9 DEF Acknowledged, FlagsOf, Sources
    <3> QED
      BY <2>6, <2>9, <3>1 DEF EntersT0
  <2> QED
    BY <2>8, <2>9
<1> QED
  BY <1>1, <1>2

\* Timer 0 in mode 2, count ticks after it started from TH0.
Reloading(t, count) ==
    /\ t = [tl |-> t.tl, th |-> Reload, tf |-> FALSE, tr |-> t.tr, mode |-> 2,
            gate |-> FALSE, ct |-> FALSE]
    /\ t.tr \in BOOLEAN /\ t.tl = Reload + (count % Period)

\* The history of Timer 0: cycles due, overflows served, overflows lost.
Book == [counted : 0..((Period * Ticks) - 1), served : 0..(Ticks - 1), lost : 0..(Ticks - 1)]

\* TF0 as a number.
Waits(c) == IF "TF0" \in c.flags THEN 1 ELSE 0

\* What SoftwareClock says of a history and a controller.
Balances(b, c) == (b.served + b.lost + Waits(c)) % Ticks = b.counted \div Period

\* The invariant: SoftwareClock, and a TL0 that is where the cycles due put it.
ClockInv ==
    /\ cpu \in Cpu /\ round.cycles \in Nat /\ book \in Book
    /\ Reloading(timer, book.counted) /\ Balances(book, cpu)

\* The sizes that the arithmetic divides by are positive.
LEMMA Sizes == Period \in Nat \ {0} /\ Ticks \in Nat \ {0} /\ Period * Ticks \in Nat \ {0}
               /\ Reload \in 0..(Byte - 1) /\ Byte \in Nat \ {0} /\ Period = Byte - Reload
<1>1. Period \in Nat \ {0} /\ Ticks \in Nat \ {0}
  BY CountersAssumption, MachineAssumption DEF Period
<1> QED
  BY <1>1, CountersAssumption, MachineAssumption DEF Period

\* What n ticks do to the timer.
LEMMA TimerTicks ==
    ASSUME NEW t, NEW count \in Nat, Reloading(t, count), NEW n \in Nat
    PROVE  LET r == IncTimer(t, n)
           IN  /\ r.tf <=> ((count + n) \div Period) - (count \div Period) # 0
               /\ ((count + n) \div Period) - (count \div Period) \in Nat
               /\ Reloading([r EXCEPT !.tf = FALSE], count + n)
<1> DEFINE p == Period
           c == count % p
           q == count \div p
           r == IncTimer(t, n)
           left == Byte - t.tl
<1>1. p \in Nat \ {0} /\ Reload \in 0..(Byte - 1) /\ Byte \in Nat \ {0} /\ p = Byte - Reload
  BY Sizes
<1>2. q \in Nat /\ count = p * q + c
  BY <1>1, Quotient
<1>3. c \in 0..(p - 1)
  BY <1>1, Wrap
<1>4. t.tl = Reload + c /\ t.th = Reload /\ t.mode = 2 /\ t.tr \in BOOLEAN
      /\ t.gate = FALSE /\ t.ct = FALSE
  BY DEF Reloading
<1>9. PICK tl0, run : t = [tl |-> tl0, th |-> Reload, tf |-> FALSE, tr |-> run, mode |-> 2,
                       gate |-> FALSE, ct |-> FALSE]
  BY DEF Reloading
<1>10. t.tr = run
  BY <1>9
<1> DEFINE no == FALSE
           yes == TRUE
           two == 2
<1>11. t = [tl |-> tl0, th |-> Reload, tf |-> no, tr |-> run, mode |-> two,
            gate |-> no, ct |-> no]
  BY <1>9
<1> HIDE DEF p, no, yes, two
<1>5. left = p - c
  BY <1>1, <1>3, <1>4
<1>6. r = IncMode2(t, n)
  BY <1>4 DEF IncTimer
<1> HIDE DEF c, q, r
<1>7. CASE n < left
  <2>1. r = [t EXCEPT !.tl = t.tl + n]
    BY <1>6, <1>7 DEF IncMode2
  <2>2. c + n \in 0..(p - 1) /\ count + n = p * q + (c + n) /\ count + n \in Nat
    BY <1>1, <1>2, <1>3, <1>5, <1>7
  <2>3. (count + n) \div p = q /\ (count + n) % p = c + n
    <3> DEFINE z == count + n
               d == c + n
    <3>1. z \in Nat /\ d \in 0..(p - 1) /\ z = p * q + d
      BY <2>2
    <3> HIDE DEF z, d
    <3>2. q \in Nat
      BY <1>2
    <3>3. z \div p = q /\ z % p = d
      BY <1>1, <3>1, <3>2, QuotientIs
    <3> QED
      BY <3>3 DEF z, d
  <2>4. [r EXCEPT !.tf = FALSE] = [tl |-> Reload + ((count + n) % p), th |-> Reload, tf |-> FALSE,
                                   tr |-> t.tr, mode |-> 2, gate |-> FALSE, ct |-> FALSE]
    <3>1. t.tl + n = Reload + ((count + n) % p)
      BY <1>1, <1>3, <1>4, <2>3
    <3> DEFINE v == t.tl + n
    <3> HIDE DEF v
    <3>2. r = [t EXCEPT !.tl = v]
      BY <2>1 DEF v
    <3>6. r = [tl |-> v, th |-> Reload, tf |-> no, tr |-> run, mode |-> two,
               gate |-> no, ct |-> no]
      BY <1>11, <3>2
    <3>5. [r EXCEPT !.tf = no] = [tl |-> v, th |-> Reload, tf |-> no, tr |-> run,
                                  mode |-> two, gate |-> no, ct |-> no]
      BY <3>6
    <3>3. [r EXCEPT !.tf = FALSE] = [tl |-> v, th |-> Reload, tf |-> FALSE,
                                     tr |-> run, mode |-> 2, gate |-> FALSE, ct |-> FALSE]
      BY <3>5 DEF no, two
    <3>4. v = Reload + ((count + n) % p)
      BY <3>1 DEF v
    <3> QED
      BY <1>10, <3>3, <3>4
  <2>5. r.tf = FALSE
    BY <1>9, <2>1
  <2>6. Reloading([r EXCEPT !.tf = FALSE], count + n)
    BY <1>4, <2>4 DEF Reloading, p
  <2>7. ((count + n) \div p) - q = 0
    BY <1>2, <2>3
  <2> QED
    BY <2>5, <2>6, <2>7 DEF r, p, q
<1>8. CASE ~(n < left)
  <2> DEFINE m == n - left
             s == m \div p
             u == m % p
  <2>1. m \in Nat /\ n = m + (p - c)
    BY <1>1, <1>3, <1>5, <1>8
  <2> HIDE DEF m
  <2>2. s \in Nat /\ m = p * s + u
    BY <1>1, <2>1, Quotient
  <2>3. u \in 0..(p - 1)
    BY <1>1, <2>1, Wrap
  <2>4. r = [t EXCEPT !.tl = Reload + u, !.tf = TRUE]
    <3>1. r = [t EXCEPT !.tl = t.th + ((n - (Byte - t.tl)) % (Byte - t.th)), !.tf = TRUE]
      BY <1>6, <1>8 DEF IncMode2
    <3>2. (n - (Byte - t.tl)) % (Byte - t.th) = u
      BY <1>1, <1>4 DEF m
    <3> QED
      BY <1>4, <3>1, <3>2
  <2> HIDE DEF s, u
  <2>5. count + n = p * (q + (s + 1)) + u /\ q + (s + 1) \in Nat /\ count + n \in Nat
    <3>1. p * (q + (s + 1)) = p * q + p * s + p
      BY <1>1, <1>2, <2>2
    <3>2. p * q \in Nat /\ p * s \in Nat
      BY <1>1, <1>2, <2>2
    <3> QED
      BY <1>1, <1>2, <1>3, <2>1, <2>2, <2>3, <3>1, <3>2
  <2>6. (count + n) \div p = q + (s + 1) /\ (count + n) % p = u
    <3> DEFINE z == count + n
               e == q + (s + 1)
    <3>1. z \in Nat /\ z = p * e + u /\ e \in Nat
      BY <2>5
    <3> HIDE DEF z, e
    <3>2. z \div p = e /\ z % p = u
      BY <1>1, <2>3, <3>1, QuotientIs
    <3> QED
      BY <3>2 DEF z, e
  <2>7. [r EXCEPT !.tf = FALSE] = [tl |-> Reload + ((count + n) % p), th |-> Reload, tf |-> FALSE,
                                   tr |-> t.tr, mode |-> 2, gate |-> FALSE, ct |-> FALSE]
    <3> DEFINE v == Reload + u
    <3> HIDE DEF v
    <3>2. r = [t EXCEPT !.tl = v, !.tf = yes]
      BY <2>4 DEF v, yes
    <3>6. r = [tl |-> v, th |-> Reload, tf |-> yes, tr |-> run, mode |-> two,
               gate |-> no, ct |-> no]
      BY <1>11, <3>2
    <3>5. [r EXCEPT !.tf = no] = [tl |-> v, th |-> Reload, tf |-> no, tr |-> run,
                                  mode |-> two, gate |-> no, ct |-> no]
      BY <3>6
    <3>3. [r EXCEPT !.tf = FALSE] = [tl |-> v, th |-> Reload, tf |-> FALSE,
                                     tr |-> run, mode |-> 2, gate |-> FALSE, ct |-> FALSE]
      BY <3>5 DEF no, two
    <3>4. v = Reload + ((count + n) % p)
      BY <2>6 DEF v
    <3> QED
      BY <1>10, <3>3, <3>4
  <2>8. r.tf = TRUE
    BY <1>9, <2>4
  <2>9. Reloading([r EXCEPT !.tf = FALSE], count + n)
    BY <1>4, <2>7 DEF Reloading, p
  <2>10. ((count + n) \div p) - q = s + 1 /\ s + 1 \in Nat /\ s + 1 # 0
    BY <1>2, <2>2, <2>6
  <2> QED
    BY <2>8, <2>9, <2>10 DEF r, p, q
<1> QED
  BY <1>7, <1>8

\* The clock is right when the host begins its first call.
LEMMA ClockInit == MachineInit => ClockInv
<1> SUFFICES ASSUME MachineInit PROVE ClockInv
  OBVIOUS
<1>1. /\ cpu = PowerUp /\ round = [cycles |-> 0, steps |-> 0]
      /\ book = [counted |-> 0, served |-> 0, lost |-> 0]
      /\ timer = [tl |-> Reload, th |-> Reload, tf |-> FALSE, tr |-> TRUE, mode |-> 2,
                  gate |-> FALSE, ct |-> FALSE]
  BY DEF MachineInit, Init
<1>2. cpu \in Cpu /\ round.cycles \in Nat
  BY <1>1, PowerUpType
<1>3. book \in Book
  BY <1>1, Sizes DEF Book
<1>4. 0 % Period = 0 /\ 0 % Ticks = 0 /\ 0 \div Period = 0
  <2>1. 0 \in 0..(Period - 1) /\ 0 \in 0..(Ticks - 1)
    BY Sizes
  <2>2. 0 \div Period \in Nat /\ 0 \div Period <= 0
    BY Sizes, Quotient
  <2>3. 0 % Period = 0
    BY Sizes, <2>1, Wrap
  <2>4. 0 % Ticks = 0
    BY Sizes, <2>1, Wrap
  <2> QED
    BY <2>2, <2>3, <2>4
<1>5. Reloading(timer, book.counted)
  <2>1. Reload + 0 = Reload
    BY Sizes
  <2> QED
    BY <1>1, <1>4, <2>1 DEF Reloading
<1>6. Balances(book, cpu)
  <2>1. Waits(cpu) = 0
    BY <1>1 DEF Waits, PowerUp
  <2> QED
    BY <1>1, <1>4, <2>1 DEF Balances
<1> QED
  BY <1>2, <1>3, <1>5, <1>6 DEF ClockInv

\* Entering T0 takes the flag off the waiting side and puts it on the served one;
\* clearing it by hand puts it on the lost one.
LEMMA BookServes ==
    ASSUME NEW b \in Book, NEW c \in Cpu, NEW d \in Cpu, NEW e \in Nat, NEW l \in Nat,
           Balances(b, c), Waits(c) = Waits(d) + e + l,
           NEW r, r = [counted |-> b.counted, served |-> Plus(b.served, e), lost |-> Plus(b.lost, l)]
    PROVE  r \in Book /\ Balances(r, d) /\ r.counted = b.counted
<1> DEFINE x == Plus(b.served, e)
           y == Plus(b.lost, l)
<1>1. b.served \in 0..(Ticks - 1) /\ b.lost \in 0..(Ticks - 1) /\ b.counted \in 0..((Period * Ticks) - 1)
  BY DEF Book
<1>2. b.served \in Nat /\ b.lost \in Nat /\ b.served + e \in Nat /\ b.lost + l \in Nat
      /\ b.served + e \in Int /\ b.lost + l \in Int /\ Waits(d) \in Nat /\ Waits(c) \in Nat
  BY <1>1, Sizes DEF Waits
<1>3. x \in 0..(Ticks - 1)
  BY <1>2, Sizes, Wrap DEF Plus
<1>4. y \in 0..(Ticks - 1)
  BY <1>2, Sizes, Wrap DEF Plus
<1>5. (x + y + Waits(d)) % Ticks = ((b.served + e) + (b.lost + l) + Waits(d)) % Ticks
  <2> DEFINE u == b.served + e
             v == b.lost + l
             w == Waits(d)
             n == Ticks
  <2>1. u \in Nat /\ v \in Nat /\ w \in Nat
    BY <1>2
  <2>4. n \in Nat \ {0}
    BY Sizes
  <2>5. \A a1, b1, c1 \in Nat : ((a1 % n) + (b1 % n) + c1) % n = (a1 + b1 + c1) % n
    <3> HIDE DEF n
    <3> QED
      BY <2>4, SumOfCounters
  <2> HIDE DEF u, v, w, n
  <2>2. ((u % n) + (v % n) + w) % n = (u + v + w) % n
    BY <2>1, <2>5
  <2>3. x = u % n /\ y = v % n
    BY DEF Plus, u, v, n
  <2> HIDE DEF x, y
  <2>6. (x + y + w) % n = (u + v + w) % n
    BY <2>2, <2>3
  <2> QED
    BY <2>6 DEF u, v, w, n
<1>6. (b.served + e) + (b.lost + l) + Waits(d) = b.served + b.lost + Waits(c)
  BY <1>2
<1>9. r = [counted |-> b.counted, served |-> x, lost |-> y]
  OBVIOUS
<1> HIDE DEF x, y
<1>7. r \in Book /\ r.served = x /\ r.lost = y /\ r.counted = b.counted
  BY <1>1, <1>3, <1>4, <1>9 DEF Book
<1>8. Balances(r, d)
  BY <1>5, <1>6, <1>7 DEF Balances
<1> QED
  BY <1>7, <1>8 DEF x, y

\* An instruction that leaves the controller as c, and its poll.
LEMMA StepKeepsClock ==
    ASSUME ClockInv, NEW c \in Cpu, NEW lost \in BOOLEAN, Step(c, lost),
           Reloading(timer', book.counted),
           Waits(cpu) = Waits(c) + (IF lost THEN 1 ELSE 0)
    PROVE  ClockInv'
<1> DEFINE entered == Len(cpu'.stack) > Len(c.stack) /\ cpu'.at = "T0"
           e == IF entered THEN 1 ELSE 0
           l == IF lost THEN 1 ELSE 0
<1>1. cpu' = CheckInterrupts(c) /\ cpu' \in Cpu
  BY CheckType DEF Step, Instruction
<1>2. book' = [counted |-> book.counted, served |-> Plus(book.served, e),
               lost |-> Plus(book.lost, l)]
  <2> DEFINE x == Plus(book.served, e)
             y == Plus(book.lost, l)
  <2>1. book' = [book EXCEPT !.served = x, !.lost = y]
    BY DEF Step
  <2> HIDE DEF x, y
  <2>2. PICK k, s, m : book = [counted |-> k, served |-> s, lost |-> m]
    BY DEF ClockInv, Book
  <2>3. book' = [counted |-> book.counted, served |-> x, lost |-> y]
    BY <2>1, <2>2
  <2> QED
    BY <2>3 DEF x, y
<1>3. round'.cycles \in Nat
  <2>1. PICK n \in CycleCounts : round' = [round EXCEPT !.cycles = n]
    BY DEF Step
  <2> QED
    BY <2>1, MachineAssumption DEF ClockInv
<1>4. IF entered THEN "TF0" \in c.flags /\ "TF0" \notin cpu'.flags
      ELSE "TF0" \in cpu'.flags <=> "TF0" \in c.flags
  BY <1>1, PollTf0 DEF EntersT0
<1>5. Waits(c) = Waits(cpu') + e
  BY <1>4 DEF Waits
<1>6. e \in Nat /\ l \in Nat
  OBVIOUS
<1> HIDE DEF e, l
<1>7. Waits(cpu) = Waits(cpu') + e + l
  BY <1>5 DEF l
<1>8. book \in Book /\ cpu \in Cpu /\ Balances(book, cpu)
  BY DEF ClockInv
<1>9. book' \in Book /\ Balances(book', cpu') /\ book'.counted = book.counted
  <2> DEFINE d == cpu'
  <2>1. d \in Cpu /\ Waits(cpu) = Waits(d) + e + l
    BY <1>1, <1>7
  <2> HIDE DEF d
  <2>2. book' \in Book /\ Balances(book', d) /\ book'.counted = book.counted
    BY <1>2, <1>6, <1>8, <2>1, BookServes
  <2> QED
    BY <2>2 DEF d
<1> QED
  BY <1>1, <1>3, <1>9 DEF ClockInv

\* A history that balances: s served, l lost, w waiting, k cycles due.
Books(s, l, w, k) == (s + l + w) % Ticks = k \div Period
\* The cycles due, n later, and the overflows in between.
Grown(k, n) == (k + n) % (Period * Ticks)
Due(k, n) == ((k + n) \div Period) - (k \div Period)

\* The history counters stay below Ticks.
LEMMA CountersWrap ==
    ASSUME NEW l \in Nat, NEW m \in Nat
    PROVE  Plus(l, m) \in 0..(Ticks - 1)
<1>1. l + m \in Int
  OBVIOUS
<1> QED
  BY <1>1, Sizes, Wrap DEF Plus

\* The counter of cycles due wraps at a whole number of overflows.
LEMMA GrownWraps ==
    ASSUME NEW k \in Nat, NEW n \in Nat
    PROVE  /\ Grown(k, n) \in 0..((Period * Ticks) - 1)
           /\ Grown(k, n) % Period = (k + n) % Period
           /\ Grown(k, n) \div Period = ((k + n) \div Period) % Ticks
<1> DEFINE t == Ticks
           p == Period
           z == k + n
           w == p * t
           u == z \div p
           y == Grown(k, n)
<1>1. t \in Nat \ {0}
  BY Sizes
<1>2. p \in Nat \ {0}
  BY Sizes
<1>3. w \in Nat \ {0}
  BY Sizes
<1>4. z \in Nat
  OBVIOUS
<1>7. y = z % w
  BY DEF Grown
<1> HIDE DEF z, t, p, y, u
<1>9. w % p = 0 /\ y \div p = u % t
  <2>1. (z % (p * t)) \div p = (z \div p) % t
    BY <1>1, <1>2, <1>4, QuotientOfRemainder
  <2>2. (t * p) % p = 0
    BY <1>1, <1>2, Factor
  <2>3. t * p = w
    BY <1>1, <1>2
  <2>4. w = p * t
    OBVIOUS
  <2> HIDE DEF w
  <2> QED
    BY <1>7, <2>1, <2>2, <2>3, <2>4 DEF u
<1>21. w % p = 0
  BY <1>9
<1> HIDE DEF w
<1>10. y \in 0..(w - 1)
  <2>1. z \in Int
    BY <1>4
  <2> QED
    BY <1>3, <1>7, <2>1, Wrap
<1>11. y % p = z % p
  <2>1. (z % w) % p = z % p
    BY <1>2, <1>3, <1>4, <1>21, RemainderOfMultiple
  <2> QED
    BY <1>7, <2>1
<1> QED
  BY <1>9, <1>10, <1>11 DEF z, t, p, w, y, u

\* o overflows go to the history or wait as TF0; the rest of them is lost.
LEMMA OverflowsBalance ==
    ASSUME NEW s \in Nat, NEW l \in Nat, NEW k \in Nat, NEW f \in Nat, NEW n \in Nat,
           NEW m \in Nat, NEW g \in Nat, NEW o \in Nat, o = Due(k, n), Books(s, l, f, k), m + g = f + o
    PROVE  Books(s, Plus(l, m), g, Grown(k, n))
<1> DEFINE t == Ticks
           p == Period
           z == k + n
           q == k \div p
           u == z \div p
           y == Grown(k, n)
<1>1. t \in Nat \ {0}
  BY Sizes
<1>2. p \in Nat \ {0}
  BY Sizes
<1>4. z \in Nat
  OBVIOUS
<1>5. m \in Nat /\ g \in Nat /\ m + g = f + o
  OBVIOUS
<1>6. o = u - q /\ (s + l + f) % t = q
  BY DEF Due, Books
<1>9. y \div p = u % t
  BY GrownWraps
<1>20. Plus(l, m) = (l + m) % t
  BY DEF Plus
<1> HIDE DEF z, t, p, y
<1>8. q \in Nat /\ u \in Nat
  BY <1>2, <1>4, Quotient
<1> HIDE DEF q, u
<1>12. (l + m) % t \in 0..(t - 1)
  <2>1. l + m \in Int
    BY <1>5
  <2> QED
    BY <1>1, <2>1, Wrap
<1>13. (s + ((l + m) % t) + g) % t = u % t
  <2> DEFINE a == l + m
             r == a % t
             b == s + g
             c == s + l + f
             d == c % t
  <2>1. a \in Nat /\ b \in Nat /\ c \in Nat /\ a + b = c + o
    BY <1>5
  <2>2. r \in Nat
    BY <1>12
  <2>3. s + r + g = r + b
    BY <1>5, <2>2
  <2>9. d = q
    BY <1>6
  <2> HIDE DEF a, b, c
  <2>4. (r + b) % t = (a + b) % t
    BY <1>1, <2>1, RemainderFirst
  <2>5. (d + o) % t = (c + o) % t
    BY <1>1, <2>1, RemainderFirst
  <2> HIDE DEF r, d
  <2>6. u = d + o
    BY <1>6, <1>8, <2>9
  <2> QED
    BY <2>1, <2>3, <2>4, <2>5, <2>6 DEF r, a
<1> QED
  BY <1>9, <1>13, <1>20 DEF z, t, p, y, Books

\* The tick hooks keep the clock: timers_tick and its merge into TF0.
LEMMA HooksKeepsClock ==
    ASSUME ClockInv, Hooks PROVE ClockInv'
<1> DEFINE n == IF timer.tr THEN round.cycles ELSE 0
           k == book.counted
           t == Counted(timer, round.cycles)
           o == Overflows(n)
           f == Waits(cpu)
           m == IF o = 0 THEN 0 ELSE o - (1 - f)
           g == IF o = 0 THEN f ELSE 1
           y == (k + n) % (Period * Ticks)
           tf0 == IF t.tf THEN {"TF0"} ELSE {}
<1>1. /\ timer' = [t EXCEPT !.tf = FALSE]
      /\ \E others \in SUBSET (PeripheralFlags \ {"TF0"}) :
            cpu' = [cpu EXCEPT !.flags = @ \cup tf0 \cup others]
      /\ book' = [book EXCEPT !.counted = y, !.lost = Plus(book.lost, m)]
      /\ round' = round
  <2> DEFINE merged == IF Overflows(n) = 0 THEN 0
                     ELSE Overflows(n) - (IF "TF0" \in cpu.flags THEN 0 ELSE 1)
  <2>1. /\ timer' = [t EXCEPT !.tf = FALSE]
        /\ \E others \in SUBSET (PeripheralFlags \ {"TF0"}) :
              cpu' = [cpu EXCEPT !.flags = @ \cup tf0 \cup others]
        /\ book' = [book EXCEPT !.counted = y, !.lost = Plus(book.lost, merged)]
        /\ round' = round
    BY DEF Hooks, Elapsed
  <2>2. merged = m
    BY DEF Waits
  <2> HIDE DEF merged, m, t, tf0, y
  <2> QED
    BY <2>1, <2>2
<1>2. cpu \in Cpu /\ round.cycles \in Nat /\ book \in Book /\ Reloading(timer, k)
      /\ Balances(book, cpu)
  BY DEF ClockInv
<1>3. n \in Nat /\ k \in Nat /\ book.served \in Nat /\ book.lost \in Nat /\ f \in 0..1
  BY <1>2, Sizes DEF Book, Waits
<1>4. o = ((k + n) \div Period) - (k \div Period)
  BY DEF Overflows
<1>5. o \in Nat /\ (t.tf <=> o # 0) /\ Reloading([t EXCEPT !.tf = FALSE], k + n)
  <2>1. CASE timer.tr
    <3>1. t = IncTimer(timer, n)
      BY <2>1 DEF Counted
    <3> HIDE DEF n, k, t
    <3>2. (IncTimer(timer, n).tf <=> ((k + n) \div Period) - (k \div Period) # 0)
          /\ ((k + n) \div Period) - (k \div Period) \in Nat
          /\ Reloading([IncTimer(timer, n) EXCEPT !.tf = FALSE], k + n)
      BY <1>2, <1>3, TimerTicks
    <3> HIDE DEF o
    <3> QED
      BY <1>4, <3>1, <3>2
  <2>2. CASE ~timer.tr
    <3>1. t = timer /\ n = 0
      BY <2>2 DEF Counted
    <3>2. k + n = k
      BY <1>3, <3>1
    <3>3. k \div Period \in Nat
      BY <1>3, Sizes, Quotient
    <3> HIDE DEF n, k, t, o
    <3>4. o = 0
      BY <1>4, <3>2, <3>3
    <3>5. timer.tf = FALSE /\ [timer EXCEPT !.tf = FALSE] = timer
      BY <1>2 DEF Reloading
    <3> QED
      BY <1>2, <3>1, <3>2, <3>4, <3>5
  <2> QED
    BY <2>1, <2>2
<1>6. Waits(cpu') = g /\ cpu' \in Cpu
  <2>1. PICK others \in SUBSET (PeripheralFlags \ {"TF0"}) :
            cpu' = [cpu EXCEPT !.flags = cpu.flags \cup tf0 \cup others]
    BY <1>1
  <2>2. cpu.flags \cup tf0 \cup others \in SUBSET AllFlags /\ cpu.flags \in SUBSET AllFlags
    <3>1. PeripheralFlags \subseteq AllFlags /\ "TF0" \in AllFlags
      BY FlagsAreFlags DEF PeripheralFlags, AllFlags, FlagsOf, Sources
    <3> QED
      BY <1>2, <3>1 DEF Cpu
  <2> DEFINE F == cpu.flags \cup tf0 \cup others
  <2>3. "TF0" \in F <=> ("TF0" \in cpu.flags \/ t.tf)
    OBVIOUS
  <2>4. F \in SUBSET AllFlags /\ cpu' = [cpu EXCEPT !.flags = F]
    BY <2>1, <2>2
  <2> HIDE DEF F, t, o
  <2>5. cpu' \in Cpu /\ cpu'.flags = F
    BY <1>2, <2>4 DEF Cpu
  <2> QED
    BY <1>5, <2>3, <2>5 DEF Waits
<1>7. (book.served + book.lost + f) % Ticks = k \div Period
  BY <1>2 DEF Balances
<1> DEFINE x == Plus(book.lost, m)
<1>8. x \in 0..(Ticks - 1) /\ y \in 0..((Period * Ticks) - 1)
      /\ (book.served + x + g) % Ticks = y \div Period
      /\ y % Period = (k + n) % Period
  <2> DEFINE s == book.served
             l == book.lost
  <2>1. s \in Nat /\ l \in Nat /\ k \in Nat /\ n \in Nat /\ f \in 0..1 /\ f \in Nat /\ o \in Nat
    BY <1>3, <1>5
  <2>2. (s + l + f) % Ticks = k \div Period
    BY <1>7
  <2>3. m \in Nat /\ g \in Nat /\ m + g = f + o
    <3> HIDE DEF f, o
    <3> QED
      BY <2>1
  <2>6. y = (k + n) % (Period * Ticks)
    OBVIOUS
  <2> HIDE DEF s, l, k, n, f, o, m, g, y
  <2>7. o = Due(k, n) /\ Books(s, l, f, k)
    BY <1>4, <2>2 DEF Due, Books
  <2>8. Books(s, Plus(l, m), g, Grown(k, n))
    BY <2>1, <2>3, <2>7, OverflowsBalance
  <2>9. Plus(l, m) \in 0..(Ticks - 1)
    BY <2>1, <2>3, CountersWrap
  <2>10. Grown(k, n) \in 0..((Period * Ticks) - 1) /\ Grown(k, n) % Period = (k + n) % Period
    BY <2>1, GrownWraps
  <2>4. Plus(l, m) \in 0..(Ticks - 1) /\ y \in 0..((Period * Ticks) - 1)
        /\ (s + Plus(l, m) + g) % Ticks = y \div Period
        /\ y % Period = (k + n) % Period
    BY <2>6, <2>8, <2>9, <2>10 DEF Books, Grown
  <2>5. x = Plus(l, m)
    BY DEF l
  <2> HIDE DEF x
  <2> QED
    BY <2>4, <2>5 DEF s
<1> HIDE DEF x, y
<1>9. book' = [book EXCEPT !.counted = y, !.lost = x]
  BY <1>1 DEF x
<1>10. book' \in Book /\ book'.counted = y /\ book'.served = book.served /\ book'.lost = x
  BY <1>2, <1>8, <1>9 DEF Book
<1> HIDE DEF g, t
<1>11. Balances(book', cpu')
  BY <1>6, <1>8, <1>10 DEF Balances
<1>12. Reloading(timer', book'.counted)
  <2> DEFINE v == [t EXCEPT !.tf = FALSE]
  <2>1. timer' = v /\ Reloading(v, k + n)
    BY <1>1, <1>5
  <2> HIDE DEF v
  <2> QED
    BY <2>1, <1>8, <1>10 DEF Reloading
<1> QED
  BY <1>1, <1>2, <1>6, <1>10, <1>11, <1>12 DEF ClockInv

\* An instruction that neither touches TF0 nor counts.
LEMMA PlainKeepsClock ==
    ASSUME ClockInv, NEW c \in Cpu, Step(c, FALSE), c.flags = cpu.flags,
           Reloading(timer', book.counted)
    PROVE  ClockInv'
<1> DEFINE f == FALSE
<1>1. Waits(cpu) = Waits(c) + 0 /\ Waits(c) \in Nat
  BY DEF Waits
<1>2. f \in BOOLEAN /\ Step(c, f) /\ Waits(cpu) = Waits(c) + (IF f THEN 1 ELSE 0)
  BY <1>1
<1> HIDE DEF f
<1> QED
  BY <1>2, StepKeepsClock

\* So does firmware that clears a flag, TF0 included.
LEMMA ClearKeepsClock ==
    ASSUME ClockInv, StepClearFlag PROVE ClockInv'
<1>1. PICK f \in Flags : /\ Step([cpu EXCEPT !.flags = cpu.flags \ {f}], f = "TF0" /\ f \in cpu.flags)
                         /\ timer' = timer
  BY DEF StepClearFlag
<1> DEFINE c == [cpu EXCEPT !.flags = cpu.flags \ {f}]
           b == f = "TF0" /\ f \in cpu.flags
<1>2. cpu \in Cpu /\ Reloading(timer, book.counted)
  BY DEF ClockInv
<1>3. c \in Cpu /\ c.flags = cpu.flags \ {f}
  BY <1>2 DEF Cpu
<1>4. b \in BOOLEAN
  OBVIOUS
<1>5. Waits(cpu) = Waits(c) + (IF b THEN 1 ELSE 0)
  <2> HIDE DEF c
  <2>1. CASE f = "TF0" /\ f \in cpu.flags
    <3>1. Waits(cpu) = 1 /\ Waits(c) = 0
      BY <1>3, <2>1 DEF Waits
    <3> QED
      BY <2>1, <3>1
  <2>2. CASE ~(f = "TF0" /\ f \in cpu.flags)
    <3>1. Waits(cpu) = Waits(c) /\ Waits(c) \in Nat
      BY <1>3, <2>2 DEF Waits
    <3> QED
      BY <2>2, <3>1
  <2> QED
    BY <2>1, <2>2
<1> DEFINE d == c
<1>6. Step(d, b) /\ Reloading(timer', book.counted)
  BY <1>1, <1>2
<1> HIDE DEF c, b
<1> QED
  BY <1>3, <1>4, <1>5, <1>6, StepKeepsClock

\* So does the end of a round, with the poll of an idle CPU.
LEMMA PaceKeepsClock ==
    ASSUME ClockInv, Pace PROVE ClockInv'
<1> DEFINE entered == EntersT0(cpu, cpu')
           e == IF entered THEN 1 ELSE 0
           l == 0
<1>1. cpu \in Cpu /\ book \in Book /\ Balances(book, cpu) /\ Reloading(timer, book.counted)
  BY DEF ClockInv
<1>2. cpu' = PollWhenIdle(cpu) /\ round'.cycles = 0 /\ timer' = timer
  BY DEF Pace
<1>3. cpu' \in Cpu
  BY <1>1, <1>2, CheckType DEF PollWhenIdle
<1>4. IF entered THEN "TF0" \in cpu.flags /\ "TF0" \notin cpu'.flags
      ELSE "TF0" \in cpu'.flags <=> "TF0" \in cpu.flags
  <2>1. CASE cpu' = CheckInterrupts(cpu)
    BY <1>1, <2>1, PollTf0
  <2>2. CASE cpu' = cpu
    <3>1. Len(cpu.stack) \in Nat
      BY <1>1, LenProperties DEF Cpu
    <3>2. ~(Len(cpu'.stack) > Len(cpu.stack))
      BY <2>2, <3>1
    <3> QED
      BY <2>2, <3>2 DEF EntersT0
  <2> QED
    BY <1>2, <2>1, <2>2 DEF PollWhenIdle
<1>5. Waits(cpu) = Waits(cpu') + e + l
  <2> HIDE DEF entered
  <2> QED
    BY <1>4 DEF Waits
<1>6. e \in Nat /\ l \in Nat
  OBVIOUS
<1>7. book' = [counted |-> book.counted, served |-> Plus(book.served, e), lost |-> Plus(book.lost, l)]
  <2> DEFINE x == Plus(book.served, e)
             y == Plus(book.lost, l)
  <2>1. book' = [book EXCEPT !.served = x]
    BY DEF Pace, EntersT0
  <2>2. y = book.lost
    <3>1. book.lost \in 0..(Ticks - 1) /\ book.lost + 0 = book.lost /\ book.lost \in Int
      BY <1>1, Sizes DEF Book
    <3>2. book.lost % Ticks = book.lost
      BY <3>1, Sizes, Wrap
    <3>3. y = (book.lost + 0) % Ticks
      BY DEF Plus
    <3> QED
      BY <3>1, <3>2, <3>3
  <2> HIDE DEF x, y
  <2>3. PICK k, s, m : book = [counted |-> k, served |-> s, lost |-> m]
    BY <1>1 DEF Book
  <2>4. book' = [counted |-> book.counted, served |-> x, lost |-> y]
    BY <2>1, <2>2, <2>3
  <2> QED
    BY <2>4 DEF x, y
<1> HIDE DEF e, l
<1>8. book' \in Book /\ Balances(book', cpu') /\ book'.counted = book.counted
  <2> DEFINE d == cpu'
  <2>1. d \in Cpu /\ Waits(cpu) = Waits(d) + e + l
    BY <1>3, <1>5
  <2> HIDE DEF d
  <2>2. book' \in Book /\ Balances(book', d) /\ book'.counted = book.counted
    BY <1>1, <1>6, <1>7, <2>1, BookServes
  <2> QED
    BY <2>2 DEF d
<1> QED
  BY <1>1, <1>2, <1>3, <1>8 DEF ClockInv

\* Every step keeps the clock.
LEMMA ClockStep == ClockInv /\ [MachineNext]_allVars => ClockInv'
<1> SUFFICES ASSUME ClockInv, [MachineNext]_allVars PROVE ClockInv'
  OBVIOUS
<1>1. cpu \in Cpu /\ round.cycles \in Nat /\ book \in Book /\ Reloading(timer, book.counted)
      /\ Balances(book, cpu)
  BY DEF ClockInv
\* What leaves the book, the timer and the flags alone.
<1>2. ASSUME cpu' \in Cpu, cpu'.flags = cpu.flags, round'.cycles \in Nat, timer' = timer, book' = book
      PROVE  ClockInv'
  BY <1>1, <1>2 DEF ClockInv, Balances, Waits, Reloading
<1>3. CASE StepPlain
  BY <1>1, <1>3, PlainKeepsClock DEF StepPlain
<1>4. CASE StepWriteIE
  <2>1. PICK v \in IEWrites : Step([cpu EXCEPT !.ie = v], FALSE) /\ timer' = timer
    BY <1>4 DEF StepWriteIE
  <2> DEFINE c == [cpu EXCEPT !.ie = v]
  <2>2. c \in Cpu /\ c.flags = cpu.flags
    BY <1>1, InterruptsAssumption DEF Cpu, Sources
  <2>3. Step(c, FALSE)
    BY <2>1
  <2> HIDE DEF c
  <2> QED
    BY <1>1, <2>1, <2>2, <2>3, PlainKeepsClock
<1>5. CASE StepWriteIP
  <2>1. PICK v \in IPWrites : Step([cpu EXCEPT !.ip = v], FALSE) /\ timer' = timer
    BY <1>5 DEF StepWriteIP
  <2> DEFINE c == [cpu EXCEPT !.ip = v]
  <2>2. c \in Cpu /\ c.flags = cpu.flags
    BY <1>1, InterruptsAssumption DEF Cpu, Sources
  <2>3. Step(c, FALSE)
    BY <2>1
  <2> HIDE DEF c
  <2> QED
    BY <1>1, <2>1, <2>2, <2>3, PlainKeepsClock
<1>6. CASE StepWritePCON
  <2>1. PICK v \in SUBSET {"IDL", "PD"} : Step(WritePcon(cpu, v), FALSE) /\ timer' = timer
    BY <1>6 DEF StepWritePCON
  <2> DEFINE c == WritePcon(cpu, v)
  <2>2. c \in Cpu
    BY <1>1, WritePconType
  <2>4. c.flags = cpu.flags
    BY <1>1 DEF WritePcon, Cpu
  <2>3. Step(c, FALSE)
    BY <2>1
  <2> HIDE DEF c
  <2> QED
    BY <1>1, <2>1, <2>2, <2>3, <2>4, PlainKeepsClock
<1>7. CASE StepReti
  <2> DEFINE p == PopPc(cpu)
             c == OnReti(p)
  <2>1. Step(c, FALSE) /\ timer' = timer
    BY <1>7 DEF StepReti
  <2>2. p \in Cpu /\ p.flags = cpu.flags
    BY <1>1, PopType DEF PopPc, Cpu
  <2> HIDE DEF p
  <2>3. c \in Cpu /\ c.flags = p.flags
    BY <2>2, RetiType DEF OnReti, Cpu
  <2> HIDE DEF c
  <2> QED
    BY <1>1, <2>1, <2>2, <2>3, PlainKeepsClock
<1>8. CASE StepClearFlag
  BY <1>8, ClearKeepsClock
<1>9. CASE StepWriteTR
  <2>1. PICK run \in BOOLEAN : Step(cpu, FALSE) /\ timer' = [timer EXCEPT !.tr = run]
    BY <1>9 DEF StepWriteTR
  <2>2. Reloading(timer', book.counted)
    <3> DEFINE v == Reload + (book.counted % Period)
    <3>1. PICK old \in BOOLEAN : timer = [tl |-> v, th |-> Reload, tf |-> FALSE, tr |-> old,
                                          mode |-> 2, gate |-> FALSE, ct |-> FALSE]
      BY <1>1 DEF Reloading
    <3> HIDE DEF v
    <3>2. timer' = [tl |-> v, th |-> Reload, tf |-> FALSE, tr |-> run,
                    mode |-> 2, gate |-> FALSE, ct |-> FALSE]
      BY <2>1, <3>1
    <3> QED
      BY <3>2 DEF Reloading, v
  <2> QED
    BY <1>1, <2>1, <2>2, PlainKeepsClock
<1>10. CASE StepInvalid
  BY <1>1, <1>2, <1>10 DEF StepInvalid, ExecInvalid, machine, Cpu
<1>11. CASE StepIdle
  BY <1>1, <1>2, <1>11 DEF StepIdle, IdleCycle
<1>12. CASE Hooks
  BY <1>12, HooksKeepsClock
<1>13. CASE Pace
  BY <1>13, PaceKeepsClock
<1>14. CASE Return
  BY <1>1, <1>2, <1>14 DEF Return, machine
<1>15. CASE HostWake
  BY <1>1, <1>2, <1>15 DEF HostWake, Wake, machine, Cpu
<1>16. CASE CallAgain
  BY <1>1, <1>2, <1>16 DEF CallAgain
<1>17. CASE UNCHANGED allVars
  BY <1>1, <1>2, <1>17 DEF allVars, vars, machine
<1> QED
  BY <1>3, <1>4, <1>5, <1>6, <1>7, <1>8, <1>9, <1>10, <1>11, <1>12, <1>13, <1>14, <1>15, <1>16,
     <1>17 DEF MachineNext, RunInstruction

\* Firmware that counts the services of Timer 0 has a clock that does not drift from
\* emulated time, for any registers, instruction lengths, interrupts and host calls
\* (cpu.c:1273).
THEOREM SoftwareClockCorrect == MachineSpec => []SoftwareClock
<1>1. ClockInv => SoftwareClock
  BY DEF ClockInv, Balances, Waits, SoftwareClock
<1> QED
  BY <1>1, ClockInit, ClockStep, PTL DEF MachineSpec

------------------------------------------------------------------------------
\* The waveform

\* What rx_wave may be.
Wave == [active : BOOLEAN, bit_index : Nat, bit_cycles : Nat, countdown : Nat, level : 0..1]

\* The wave that has run for at cycles, at B cycles a bit.
OnTime(w, B, at) ==
    /\ w \in Wave /\ w.bit_cycles = B
    /\ w.active =>
          /\ w.bit_index < Total /\ w.countdown \in 1..B
          /\ at + w.countdown = (w.bit_index + 1) * B
          /\ w.level = (IF w.bit_index = 0 THEN 0 ELSE LevelOf(w.bit_index))
    /\ ~w.active => w.level = 1 /\ at >= Total * B

\* A frame has at least its start and its stop bit.
LEMMA TotalType == Total \in Nat /\ Total >= 2 /\ Len(Data) \in Nat /\ Total = Len(Data) + 2
<1>1. Len(Data) \in Nat
  BY WaveAssumption, LenProperties
<1> QED
  BY <1>1 DEF Total

\* Every bit of the frame has a level.
LEMMA LevelType == \A b \in 1..(Total - 1) : LevelOf(b) \in 0..1
<1> SUFFICES ASSUME NEW b \in 1..(Total - 1) PROVE LevelOf(b) \in 0..1
  OBVIOUS
<1>1. CASE b = Total - 1
  BY <1>1 DEF LevelOf
<1>2. CASE b # Total - 1
  <2>1. b \in 1..Len(Data)
    BY <1>2, TotalType
  <2>2. Data[b] \in {0, 1}
    BY <2>1, WaveAssumption, ElementOfSeq
  <2> QED
    BY <1>2, <2>2 DEF LevelOf
<1> QED
  BY <1>1, <1>2

\* A bit that ends leaves the wave on time.
LEMMA BitEnds ==
    ASSUME NEW B \in Nat \ {0}, NEW at \in Nat, NEW w, OnTime(w, B, at), w.active
    PROVE  OnTime(NextBit(w), B, at + w.countdown)
<1> DEFINE i == w.bit_index
           v == NextBit(w)
<1>1. w \in Wave /\ i \in Nat /\ w.bit_cycles = B /\ i < Total /\ at + w.countdown = (i + 1) * B
      /\ w.countdown \in Nat
  BY DEF OnTime, Wave
<1>2. CASE i + 1 >= Total
  <2>1. v = [w EXCEPT !.bit_index = i + 1, !.active = FALSE, !.level = 1]
    BY <1>2 DEF NextBit
  <2> DEFINE j == i + 1
             no == FALSE
             one == 1
  <2>2. j \in Nat /\ no \in BOOLEAN /\ one \in 0..1
        /\ v = [w EXCEPT !.bit_index = j, !.active = no, !.level = one]
    BY <1>1, <2>1
  <2>6. i + 1 = Total
    BY <1>1, <1>2, TotalType
  <2> HIDE DEF j, v, no, one
  <2>3. v \in Wave /\ v.bit_cycles = B /\ v.active = no /\ v.level = one
    BY <1>1, <2>2 DEF Wave
  <2>4. at + w.countdown = Total * B /\ Total * B \in Nat
    <3>1. (i + 1) * B = Total * B
      BY <2>6
    <3>2. Total * B \in Nat
      BY TotalType
    <3>3. at + w.countdown = (i + 1) * B
      BY <1>1
    <3> QED
      BY <3>1, <3>2, <3>3, Zenon
  <2> DEFINE z == Total * B
  <2>5. at + w.countdown >= Total * B
    <3>1. at + w.countdown = z /\ z \in Nat
      BY <2>4
    <3> HIDE DEF z
    <3>2. at + w.countdown >= z
      BY <3>1
    <3> QED
      BY <3>2 DEF z
  <2> QED
    BY <2>3, <2>5 DEF OnTime, v, no, one
<1>3. CASE ~(i + 1 >= Total)
  <2> DEFINE j == i + 1
             y == LevelOf(j)
  <2>1. v = [w EXCEPT !.bit_index = j, !.level = y, !.countdown = B]
    BY <1>1, <1>3 DEF NextBit
  <2>2. j \in Nat /\ j # 0 /\ j < Total /\ j \in 1..(Total - 1)
    BY <1>1, <1>3, TotalType
  <2>3. y \in 0..1
    BY <2>2, LevelType
  <2>4. at + w.countdown + B = (j + 1) * B
    <3>1. (j + 1) * B = (i + 1) * B + B
      BY <1>1
    <3> QED
      BY <1>1, <3>1
  <2> HIDE DEF v, j, y
  <2>5. v \in Wave /\ v.bit_cycles = B /\ v.bit_index = j /\ v.level = y /\ v.countdown = B
        /\ v.active
    BY <1>1, <2>1, <2>2, <2>3 DEF Wave
  <2>6. B \in 1..B
    OBVIOUS
  <2> QED
    BY <2>2, <2>4, <2>5, <2>6 DEF OnTime, v, y
<1> QED
  BY <1>2, <1>3

\* So does a part of a bit.
LEMMA BitGoesOn ==
    ASSUME NEW B \in Nat \ {0}, NEW at \in Nat, NEW w, OnTime(w, B, at), w.active, NEW l \in Nat, l < w.countdown
    PROVE  OnTime([w EXCEPT !.countdown = w.countdown - l], B, at + l)
<1> DEFINE c == w.countdown - l
           v == [w EXCEPT !.countdown = c]
<1>1. w \in Wave /\ w.bit_cycles = B /\ w.bit_index < Total /\ w.countdown \in 1..B
      /\ at + w.countdown = (w.bit_index + 1) * B
      /\ w.level = (IF w.bit_index = 0 THEN 0 ELSE LevelOf(w.bit_index))
  BY DEF OnTime
<1>2. c \in Nat /\ c \in 1..B /\ (at + l) + c = at + w.countdown
  BY <1>1
<1> HIDE DEF c
<1>3. v \in Wave /\ v.bit_cycles = B /\ v.bit_index = w.bit_index /\ v.level = w.level
      /\ v.countdown = c /\ v.active
  BY <1>1, <1>2 DEF Wave
<1> HIDE DEF v
<1>4. OnTime(v, B, at + l)
  BY <1>1, <1>2, <1>3 DEF OnTime
<1> QED
  BY <1>4 DEF v, c

\* So does the silence after the frame.
LEMMA SilenceGoesOn ==
    ASSUME NEW B \in Nat \ {0}, NEW at \in Nat, NEW w, OnTime(w, B, at), ~w.active, NEW l \in Nat
    PROVE  OnTime(w, B, at + l)
<1> DEFINE z == Total * B
<1>1. z \in Nat
  BY TotalType
<1>2. at >= z
  BY DEF OnTime
<1> HIDE DEF z
<1>3. at + l >= z
  BY <1>1, <1>2
<1> QED
  BY <1>3 DEF OnTime, z

\* A tick of n cycles, however many bits end within it, leaves the wave on time: the
\* loop of rx_wave_tick runs out of cycles or of bits before its n steps are over.
LEMMA TickOnTime ==
    ASSUME NEW B \in Nat \ {0}, NEW at \in Nat, NEW w, OnTime(w, B, at), NEW n \in Nat
    PROVE  OnTime(WaveTick(w, n), B, at + n)
<1> DEFINE base == [wave |-> w, left |-> n]
           X == {s \in [wave : Wave, left : 0..n] : OnTime(s.wave, B, at + (n - s.left))}
           Ends(s) == s.wave.active /\ s.left >= s.wave.countdown
           After(s) == IF Ends(s) THEN [wave |-> NextBit(s.wave), left |-> s.left - s.wave.countdown]
                       ELSE s
           step == [p \in Nat \X X |-> After(p[2])]
<1>1. base \in X
  <2>1. w \in Wave /\ n \in 0..n /\ at + (n - n) = at
    BY DEF OnTime
  <2> QED
    BY <2>1
<1>2. \A s \in X : After(s) \in X /\ (Ends(s) => After(s).left < s.left)
  <2> SUFFICES ASSUME NEW s \in X PROVE After(s) \in X /\ (Ends(s) => After(s).left < s.left)
    OBVIOUS
  <2>1. CASE Ends(s)
    <3> DEFINE v == s.wave
               l == s.left
               c == v.countdown
               u == NextBit(v)
               x == at + (n - l)
    <3>1. v \in Wave /\ l \in 0..n /\ OnTime(v, B, x) /\ v.active /\ l >= c /\ x \in Nat
      BY <2>1
    <3> HIDE DEF v, l, x
    <3>2. c \in 1..B
      BY <3>1 DEF OnTime
    <3>3. OnTime(u, B, x + c)
      BY <3>1, BitEnds
    <3> HIDE DEF c
    <3>4. u \in Wave
      BY <3>3 DEF OnTime
    <3>5. l - c \in 0..n /\ l - c < l /\ x + c = at + (n - (l - c))
      BY <3>1, <3>2 DEF x
    <3>6. After(s) = [wave |-> u, left |-> l - c]
      BY <2>1 DEF v, l, c
    <3> HIDE DEF u, After
    <3> QED
      BY <3>3, <3>4, <3>5, <3>6 DEF l
  <2>2. CASE ~Ends(s)
    BY <2>2
  <2> QED
    BY <2>1, <2>2
<1> HIDE DEF Ends
<1>3. step \in [Nat \X X -> X]
  <2> HIDE DEF After, X
  <2> QED
    BY <1>2
<1>4. \A k \in Nat, x \in X : step[<<k, x>>] = After(x)
  <2> HIDE DEF After, X
  <2> QED
    OBVIOUS
<1> HIDE DEF step, X, base, After
<1>20. PICK G : Computes(G, n, X, base, step)
  BY <1>1, <1>3, Iterates
<1>5. G \in [0..n -> X] /\ G[0] = base
      /\ \A k \in 0..n : k # 0 => G[k] = step[<<k, G[k - 1]>>]
  BY <1>20 DEF Computes
<1>6. \A k \in 0..n : G[k] = IF k = 0 THEN base ELSE After(G[k - 1])
  <2> SUFFICES ASSUME NEW k \in 0..n, k # 0 PROVE G[k] = After(G[k - 1])
    BY <1>5
  <2>1. k \in Nat /\ k - 1 \in 0..n
    OBVIOUS
  <2>2. G[k - 1] \in X
    BY <1>5, <2>1
  <2> QED
    BY <1>4, <1>5, <2>1, <2>2
<1> DEFINE after[k \in 0..n] == IF k = 0 THEN base ELSE After(after[k - 1])
           H(f) == [k \in 0..n |-> IF k = 0 THEN base ELSE After(f[k - 1])]
           end == after[n]
<1>7. G = H(G)
  BY <1>5, <1>6
<1>8. after = CHOOSE f : f = H(f)
  OBVIOUS
<1> HIDE DEF after
<1>9. after = H(after)
  BY <1>7, <1>8
<1>10. \A k \in 0..n : after[k] = IF k = 0 THEN base ELSE After(after[k - 1])
  BY <1>9
<1> DEFINE S == {k \in Nat : k <= n => /\ after[k] \in X
                                       /\ Ends(after[k]) => after[k].left + k <= n}
<1>11. 0 \in S
  <2>1. after[0] = base
    BY <1>10
  <2>2. base.left = n
    BY DEF base
  <2> QED
    BY <1>1, <2>1, <2>2
<1>12. \A k \in Nat : k \in S => k + 1 \in S
  <2> SUFFICES ASSUME NEW k \in Nat, k \in S, k + 1 <= n
               PROVE  /\ after[k + 1] \in X
                      /\ Ends(after[k + 1]) => after[k + 1].left + (k + 1) <= n
    OBVIOUS
  <2> DEFINE s == after[k]
             r == after[k + 1]
  <2>1. k + 1 \in 0..n /\ (k + 1) - 1 = k /\ k + 1 # 0 /\ k <= n
    OBVIOUS
  <2>2. r = After(s) /\ s \in X /\ (Ends(s) => s.left + k <= n)
    BY <1>10, <2>1
  <2> HIDE DEF s, r
  <2>3. r \in X /\ (Ends(s) => r.left < s.left)
    BY <1>2, <2>2
  <2>4. r.left \in Nat /\ s.left \in Nat
    BY <2>2, <2>3 DEF X
  <2>5. ~Ends(s) => r = s
    BY <2>2 DEF After
  <2> QED
    BY <2>2, <2>3, <2>4, <2>5 DEF r
<1> HIDE DEF S
<1>13. n \in S
  BY <1>11, <1>12, Induction
<1>14. end \in X /\ ~Ends(end)
  <2>1. end \in X /\ (Ends(end) => end.left + n <= n)
    BY <1>13 DEF S
  <2> HIDE DEF end
  <2>2. Ends(end) => end.left = 0
    BY <2>1 DEF X
  <2>3. Ends(end) => end.wave.countdown > 0
    <3> DEFINE v == end.wave
               x == at + (n - end.left)
    <3>1. OnTime(v, B, x)
      BY <2>1 DEF X
    <3> HIDE DEF v, x
    <3>2. v.active => v.countdown \in 1..B
      BY <3>1 DEF OnTime
    <3>3. v.active => v.countdown > 0
      BY <3>2
    <3> QED
      BY <3>3 DEF Ends, v
  <2>4. end.wave.countdown \in Nat
    BY <2>1 DEF X, Wave
  <2> QED
    BY <2>1, <2>2, <2>3, <2>4 DEF Ends
<1>15. WaveTick(w, n) = IF end.wave.active
                        THEN [end.wave EXCEPT !.countdown = end.wave.countdown - end.left]
                        ELSE end.wave
  BY DEF WaveTick, after, base, After, Ends
<1> DEFINE v == end.wave
           l == end.left
           x == at + (n - l)
<1>16. OnTime(v, B, x) /\ l \in 0..n /\ x \in Nat /\ x + l = at + n /\ l \in Nat
  <2>1. l \in 0..n /\ OnTime(v, B, x)
    <3> HIDE DEF end
    <3> QED
      BY <1>14 DEF X
  <2> HIDE DEF l, v
  <2>2. x \in Nat /\ x + l = at + n /\ l \in Nat
    BY <2>1
  <2> QED
    BY <2>1, <2>2
<1>17. v.active => l < v.countdown
  <2>1. v.countdown \in Nat
    BY <1>14 DEF X, Wave
  <2> QED
    BY <1>14, <1>16, <2>1 DEF Ends
<1> HIDE DEF v, l, x
<1>18. CASE v.active
  <2>1. OnTime([v EXCEPT !.countdown = v.countdown - l], B, x + l)
    BY <1>16, <1>17, <1>18, BitGoesOn
  <2> QED
    BY <1>15, <1>16, <1>18, <2>1 DEF v, l
<1>19. CASE ~v.active
  <2>1. OnTime(v, B, x + l)
    BY <1>16, <1>19, SilenceGoesOn
  <2> QED
    BY <1>15, <1>16, <1>19, <2>1 DEF v, l
<1> QED
  BY <1>18, <1>19

\* Every clock has at least a cycle in a second.
Running == \A c \in Crystals : c.fosc_hz >= c.clocks_per_cycle

\* Then a bit takes at least a cycle.
LEMMA BitCyclesType ==
    ASSUME Running, NEW c \in Crystals
    PROVE  RxBitCycles(c) \in Nat \ {0}
<1> DEFINE f == c.fosc_hz
           k == c.clocks_per_cycle
           q == f \div k
           x == q + Baud - 1
           y == x \div Baud
<1>1. f \in Nat /\ k \in Nat \ {0} /\ f >= k /\ Baud \in Nat \ {0}
  BY MachineAssumption DEF Running
<1> HIDE DEF f, k
<1>2. q \in Nat /\ f = k * q + (f % k)
  BY <1>1, Quotient
<1>3. f % k \in 0..(k - 1)
  BY <1>1, Wrap
<1> HIDE DEF q
<1>4. q # 0
  BY <1>1, <1>2, <1>3
<1>5. x \in Nat /\ x >= Baud
  BY <1>1, <1>2, <1>4
<1> HIDE DEF x
<1>6. y \in Nat /\ x = Baud * y + (x % Baud)
  BY <1>1, <1>5, Quotient
<1>7. x % Baud \in 0..(Baud - 1)
  BY <1>1, <1>5, Wrap
<1> HIDE DEF y
<1>8. y # 0
  BY <1>1, <1>5, <1>6, <1>7
<1> QED
  BY <1>6, <1>8 DEF y, x, q, f, k, RxBitCycles, CyclesPerSecond

\* The waveform starts on time.
LEMMA StartOnTime ==
    ASSUME NEW B \in Nat \ {0}
    PROVE  OnTime(WaveStart(B), B, 0)
<1> DEFINE w == WaveStart(B)
           yes == TRUE
           zero == 0
<1>1. w = [active |-> yes, bit_index |-> zero, bit_cycles |-> B, countdown |-> B, level |-> zero]
  BY DEF WaveStart
<1>2. yes \in BOOLEAN /\ zero \in Nat /\ zero \in 0..1
  OBVIOUS
<1> HIDE DEF w, yes, zero
<1>3. w \in Wave /\ w.bit_cycles = B /\ w.bit_index = zero /\ w.countdown = B /\ w.level = zero
      /\ w.active = yes
  BY <1>1, <1>2 DEF Wave
<1>4. (0 + 1) * B = B /\ 0 + B = B /\ B \in 1..B /\ 0 < Total
  BY TotalType
<1> QED
  BY <1>3, <1>4 DEF OnTime, w, yes, zero

\* A wave that is on time has the level of the bit that its time falls in.
LEMMA LevelOnTime ==
    ASSUME NEW B \in Nat \ {0}, NEW at \in Nat, NEW w, OnTime(w, B, at)
    PROVE  IF at \div B >= Total THEN ~w.active /\ w.level = 1
           ELSE w.active /\ w.level = (IF at \div B = 0 THEN 0 ELSE LevelOf(at \div B))
<1> DEFINE q == at \div B
           r == at % B
<1>1. q \in Nat /\ at = B * q + r
  BY Quotient
<1>2. r \in 0..(B - 1)
  BY Wrap
<1> HIDE DEF q, r
<1>3. CASE w.active
  <2> DEFINE i == w.bit_index
             c == w.countdown
             d == B - c
  <2>1. i \in Nat /\ i < Total /\ c \in 1..B /\ at + c = (i + 1) * B
        /\ w.level = (IF i = 0 THEN 0 ELSE LevelOf(i))
    BY <1>3 DEF OnTime, Wave
  <2> HIDE DEF i, c
  <2>2. (i + 1) * B = B * i + B
    BY <2>1
  <2>3. at = B * i + d /\ d \in 0..(B - 1)
    BY <2>1, <2>2
  <2> HIDE DEF d
  <2>4. q = i
    BY <1>1, <1>2, <2>1, <2>3, SameQuotient
  <2> QED
    BY <1>3, <2>1, <2>4, TotalType DEF q
<1>4. CASE ~w.active
  <2>1. w.level = 1 /\ at >= Total * B
    BY <1>4 DEF OnTime
  <2>2. q >= Total
    <3> SUFFICES ASSUME q + 1 <= Total PROVE FALSE
      BY <1>1, TotalType
    <3>1. (q + 1) * B <= Total * B
      BY <1>1, TotalType
    <3>2. (q + 1) * B = B * q + B /\ B * q \in Nat
      BY <1>1
    <3> DEFINE z == Total * B
               y == B * q
               x == (q + 1) * B
    <3>3. z \in Nat /\ x = y + B /\ x <= z /\ y \in Nat /\ at >= z /\ at = y + r
      BY <1>1, <2>1, <3>1, <3>2, TotalType
    <3> HIDE DEF z, y, x
    <3> QED
      BY <1>2, <3>3
  <2> QED
    BY <1>4, <2>1, <2>2 DEF q
<1> QED
  BY <1>3, <1>4

\* How long the wave has run: timing_step comes after the tick hook.
Sounded == IF phase = "pacing" THEN total + round.cycles ELSE total

\* The invariant: the wave is on time.
WaveInv ==
    /\ cfg \in Crystals /\ total \in Nat /\ round.cycles \in Nat
    /\ fresh => OnTime(wave, RxBitCycles(cfg), Sounded)

\* The wave is on time when the host begins its first call.
LEMMA WaveInit == Running /\ MachineInit => WaveInv
<1> SUFFICES ASSUME Running, MachineInit PROVE WaveInv
  OBVIOUS
<1>1. cfg \in Crystals /\ total = 0 /\ round.cycles = 0 /\ phase = "step"
      /\ wave = WaveStart(RxBitCycles(cfg))
  BY DEF MachineInit, Init
<1> DEFINE B == RxBitCycles(cfg)
<1>2. B \in Nat \ {0}
  BY <1>1, BitCyclesType
<1> HIDE DEF B
<1>3. OnTime(WaveStart(B), B, 0)
  BY <1>2, StartOnTime
<1> QED
  BY <1>1, <1>3 DEF WaveInv, Sounded, B

\* Every step keeps the wave on time.
LEMMA WaveNext == Running /\ WaveInv /\ [MachineNext]_allVars => WaveInv'
<1> SUFFICES ASSUME Running, WaveInv, [MachineNext]_allVars PROVE WaveInv'
  OBVIOUS
<1> DEFINE B == RxBitCycles(cfg)
<1>1. cfg \in Crystals /\ total \in Nat /\ round.cycles \in Nat
      /\ (fresh => OnTime(wave, B, Sounded))
  BY DEF WaveInv
<1>2. B \in Nat \ {0}
  BY <1>1, BitCyclesType
\* What leaves the wave and the time it has run for.
<1>3. ASSUME cfg' = cfg, wave' = wave, total' = total, fresh' = fresh, round'.cycles \in Nat,
             phase # "pacing", phase' # "pacing"
      PROVE  WaveInv'
  <2>1. Sounded' = Sounded /\ B' = B
    BY <1>3 DEF Sounded, RxBitCycles, CyclesPerSecond
  <2> HIDE DEF B
  <2>2. fresh' => OnTime(wave', B', Sounded')
    BY <1>1, <1>3, <2>1
  <2> QED
    BY <1>1, <1>3, <2>2 DEF WaveInv, B
<1>4. ASSUME NEW c, NEW f, Step(c, f) PROVE WaveInv'
  <2>1. PICK n \in CycleCounts : round' = [round EXCEPT !.cycles = n]
    BY <1>4 DEF Step
  <2>2. round'.cycles \in Nat
    <3>1. n \in Nat
      BY MachineAssumption
    <3>2. round'.cycles = n \/ round'.cycles = round.cycles
      BY <2>1
    <3> QED
      BY <1>1, <3>1, <3>2
  <2> QED
    BY <1>3, <1>4, <2>2 DEF Step, Instruction, CanStep
<1>5. CASE RunInstruction
  BY <1>4, <1>5 DEF RunInstruction, StepPlain, StepWriteIE, StepWriteIP, StepWritePCON, StepReti,
     StepClearFlag, StepWriteTR
<1>6. CASE StepInvalid
  BY <1>1, <1>3, <1>6 DEF StepInvalid, ExecInvalid, CanStep, machine
<1>7. CASE StepIdle
  <2>1. round'.cycles = 1 \/ round'.cycles = round.cycles
    BY <1>7 DEF StepIdle
  <2> QED
    BY <1>1, <1>3, <1>7, <2>1 DEF StepIdle, IdleCycle
<1>8. CASE Hooks
  <2>1. wave' = WaveTick(wave, round.cycles) /\ cfg' = cfg /\ round' = round /\ total' = total
        /\ fresh' = fresh /\ phase = "hooks" /\ phase' = "pacing"
    BY <1>8 DEF Hooks
  <2>2. Sounded = total /\ Sounded' = total + round.cycles
    BY <2>1 DEF Sounded
  <2> DEFINE n == round.cycles
  <2>3. n \in Nat /\ Sounded' = total + n /\ wave' = WaveTick(wave, n)
    BY <1>1, <2>1, <2>2
  <2> HIDE DEF n, B
  <2>4. fresh => OnTime(WaveTick(wave, n), B, total + n)
    BY <1>1, <1>2, <2>2, <2>3, TickOnTime
  <2>5. B' = B
    BY <2>1 DEF B, RxBitCycles, CyclesPerSecond
  <2>6. fresh' => OnTime(wave', B', Sounded')
    BY <2>1, <2>3, <2>4, <2>5
  <2> QED
    BY <1>1, <2>1, <2>6 DEF WaveInv, B
<1>9. CASE Pace
  <2>1. phase = "pacing" /\ phase' = "step" /\ total' = total + round.cycles
        /\ round'.cycles = 0 /\ cfg' = cfg /\ wave' = wave /\ fresh' = fresh
    BY <1>9 DEF Pace
  <2>2. Sounded' = Sounded /\ B' = B
    BY <2>1 DEF Sounded, RxBitCycles, CyclesPerSecond
  <2>3. total' \in Nat
    BY <1>1, <2>1
  <2> HIDE DEF B
  <2>4. fresh' => OnTime(wave', B', Sounded')
    BY <1>1, <2>1, <2>2
  <2> QED
    BY <1>1, <2>1, <2>3, <2>4 DEF WaveInv, B
<1>10. CASE Return
  BY <1>1, <1>3, <1>10 DEF Return, machine
<1>11. CASE HostWake
  BY <1>1, <1>3, <1>11 DEF HostWake, Wake, machine
<1>12. CASE CallAgain
  <2>1. phase' = "step" /\ round'.cycles = 0 /\ cfg' = cfg
    BY <1>12 DEF CallAgain
  <2>2. CASE total' = 0 /\ fresh' = TRUE /\ wave' = WaveStart(RxBitCycles(cfg))
    <3>1. Sounded' = 0 /\ B' = B /\ wave' = WaveStart(B)
      BY <2>1, <2>2 DEF Sounded, RxBitCycles, CyclesPerSecond
    <3> HIDE DEF B
    <3>2. OnTime(WaveStart(B), B, 0)
      BY <1>2, StartOnTime
    <3>3. OnTime(wave', B', Sounded')
      BY <3>1, <3>2
    <3> QED
      BY <1>1, <2>1, <2>2, <3>3 DEF WaveInv, B
  <2>3. CASE fresh' = FALSE /\ total' = total
    BY <1>1, <2>1, <2>3 DEF WaveInv
  <2> QED
    BY <1>12, <2>2, <2>3 DEF CallAgain
<1>13. CASE UNCHANGED allVars
  <2>1. UNCHANGED <<cfg, wave, total, fresh, round, phase>>
    BY <1>13 DEF allVars, vars, machine
  <2>2. Sounded' = Sounded /\ B' = B
    BY <2>1 DEF Sounded, RxBitCycles, CyclesPerSecond
  <2> HIDE DEF B
  <2>3. fresh' => OnTime(wave', B', Sounded')
    BY <1>1, <2>1, <2>2
  <2> QED
    BY <1>1, <2>1, <2>3 DEF WaveInv, B
<1> QED
  BY <1>5, <1>6, <1>7, <1>8, <1>9, <1>10, <1>11, <1>12, <1>13 DEF MachineNext

\* A wave on time is what WaveOnTime asks for.
LEMMA WaveInvOnTime == Running /\ WaveInv => WaveOnTime
<1> SUFFICES ASSUME Running, WaveInv, fresh, phase = "step"
             PROVE  LET bit == total \div RxBitCycles(cfg)
                    IN  IF bit >= Total THEN ~wave.active /\ wave.level = 1
                        ELSE wave.active /\ wave.level = (IF bit = 0 THEN 0 ELSE LevelOf(bit))
  BY DEF WaveOnTime
<1> DEFINE B == RxBitCycles(cfg)
<1>1. cfg \in Crystals /\ total \in Nat /\ OnTime(wave, B, total)
  BY DEF WaveInv, Sounded
<1>2. B \in Nat \ {0}
  BY <1>1, BitCyclesType
<1> HIDE DEF B
<1>3. IF total \div B >= Total THEN ~wave.active /\ wave.level = 1
      ELSE wave.active /\ wave.level = (IF total \div B = 0 THEN 0 ELSE LevelOf(total \div B))
  BY <1>1, <1>2, LevelOnTime
<1> QED
  BY <1>3 DEF B

\* The waveform has the level that the cycles since its start call for, for any frame,
\* rate, crystal and instruction lengths (main.c:176).
THEOREM WaveOnTimeCorrect == Running /\ MachineSpec => []WaveOnTime
<1> SUFFICES ASSUME Running PROVE MachineSpec => []WaveOnTime
  OBVIOUS
<1>1. MachineInit => WaveInv
  BY WaveInit
<1>2. WaveInv /\ [MachineNext]_allVars => WaveInv'
  BY WaveNext
<1>3. WaveInv => WaveOnTime
  BY WaveInvOnTime
<1> QED
  BY <1>1, <1>2, <1>3, PTL DEF MachineSpec

------------------------------------------------------------------------------
\* The pacing

\* A target cut to whole nanoseconds: a nanosecond more is past the time on the chip, and
\* the target is not, but for the part of a cycle that each second loses.
LEMMA Paces ==
    ASSUME NEW f \in Nat, NEW k \in Nat \ {0}, NEW cps \in Nat \ {0}, cps = f \div k,
           NEW sec \in Nat, NEW at \in Nat, NEW target, target = (at * sec) \div cps
    PROVE  /\ \A w \in Nat : w >= target => (w + 1) * f > at * k * sec
           /\ target * f * cps <= at * k * sec * (cps + 1)
           /\ target \in Nat
<1> DEFINE z == at * sec
           r == z % cps
           s == f % k
<1>1. z \in Nat
  OBVIOUS
<1> HIDE DEF z
<1>2. target \in Nat /\ z = cps * target + r
  BY <1>1, Quotient DEF z
<1>3. r \in 0..(cps - 1)
  BY <1>1, Wrap
<1>4. f = k * cps + s
  BY Quotient
<1>5. s \in 0..(k - 1)
  BY Wrap
<1>6. at * k * sec = z * k /\ at * k * sec * (cps + 1) = z * k * (cps + 1)
  BY DEF z
<1> HIDE DEF r, s
<1>7. ASSUME NEW w \in Nat, w >= target PROVE (w + 1) * f > at * k * sec
  <2> DEFINE a == w + 1
             b == k * cps
  <2>1. a * cps > z
    <3>1. a \in Nat /\ a >= target + 1
      BY <1>2, <1>7
    <3> HIDE DEF a
    <3>2. a * cps >= (target + 1) * cps
      BY <1>2, <3>1
    <3>3. (target + 1) * cps = cps * target + cps
      BY <1>2
    <3> DEFINE x == cps * target
               y == a * cps
               v == (target + 1) * cps
    <3>4. x \in Nat /\ y \in Nat /\ v \in Nat /\ y >= v /\ v = x + cps /\ z = x + r
      BY <1>2, <3>1, <3>2, <3>3
    <3> HIDE DEF x, y, v
    <3>5. y > z
      BY <1>1, <1>3, <3>4
    <3> QED
      BY <3>5 DEF y
  <2>2. a \in Nat
    BY <1>7
  <2> HIDE DEF a
  <2>3. (a * cps) * k > z * k
    <3> DEFINE y == a * cps
    <3>1. y \in Nat /\ y > z
      BY <2>1, <2>2
    <3> HIDE DEF y
    <3>2. y * k > z * k
      BY <1>1, <3>1
    <3> QED
      BY <3>2 DEF y
  <2>4. a * f = (a * cps) * k + a * s
    <3>1. a * f = a * (k * cps + s)
      BY <1>4
    <3>2. a * (k * cps + s) = a * (k * cps) + a * s
      BY <1>5, <2>2
    <3>3. a * (k * cps) = (a * cps) * k
      BY <2>2
    <3> QED
      BY <3>1, <3>2, <3>3
  <2>5. a * s \in Nat /\ (a * cps) * k \in Nat /\ z * k \in Nat
    BY <1>1, <1>5, <2>2
  <2> DEFINE m == a * s
             n == (a * cps) * k
             o == z * k
             p == a * f
  <2>6. m \in Nat /\ n \in Nat /\ o \in Nat /\ p = n + m /\ n > o
    BY <2>3, <2>4, <2>5
  <2> HIDE DEF m, n, o, p
  <2>7. p > o
    BY <2>6
  <2> QED
    BY <1>6, <2>7 DEF p, o, a
<1>8. target * f * cps <= at * k * sec * (cps + 1)
  <2> DEFINE x == cps * target
             y == k * (cps + 1)
  <2>1. x \in Nat /\ x <= z /\ y \in Nat
    BY <1>1, <1>2, <1>3
  <2>2. f <= y
    <3> DEFINE u == k * cps
    <3>1. u \in Nat /\ y = u + k /\ f = u + s
      BY <1>4
    <3> HIDE DEF u, y
    <3> QED
      BY <1>5, <3>1
  <2>3. target * f * cps = x * f /\ z * k * (cps + 1) = z * y
    BY <1>1, <1>2
  <2> HIDE DEF x, y
  <2>4. x * f <= z * f
    BY <1>1, <2>1
  <2>5. z * f <= z * y
    BY <1>1, <2>1, <2>2
  <2> DEFINE l == x * f
             m == z * f
             n == z * y
  <2>6. l \in Nat /\ m \in Nat /\ n \in Nat /\ l <= m /\ m <= n
    BY <1>1, <2>1, <2>4, <2>5
  <2> HIDE DEF l, m, n
  <2>7. l <= n
    BY <2>6
  <2> QED
    BY <1>6, <2>3, <2>7 DEF l, n
<1> QED
  BY <1>2, <1>7, <1>8

\* The weights of bits are the powers of two.
LEMMA Weights ==
    /\ Weight[0] = 1
    /\ \A i \in 0..Width : Weight[i] \in Nat \ {0}
    /\ \A i \in 1..Width : Weight[i] = 2 * Weight[i - 1]
<1> DEFINE X == Nat \ {0}
           step == [p \in Nat \X X |-> 2 * p[2]]
           one == 1
<1>1. Width \in Nat
  BY TimingAssumption
<1>2. step \in [Nat \X X -> X] /\ \A k \in Nat, x \in X : step[<<k, x>>] = 2 * x
  OBVIOUS
<1>3. one \in X /\ X = Nat \ {0}
  OBVIOUS
<1> HIDE DEF step, X, one
<1>4. PICK G : Computes(G, Width, X, one, step)
  BY <1>1, <1>2, <1>3, Iterates
<1>5. G \in [0..Width -> X] /\ G[0] = one
      /\ \A k \in 0..Width : k # 0 => G[k] = step[<<k, G[k - 1]>>]
  BY <1>4 DEF Computes
<1>6. \A k \in 0..Width : G[k] = IF k = 0 THEN one ELSE 2 * G[k - 1]
  <2> SUFFICES ASSUME NEW k \in 0..Width, k # 0 PROVE G[k] = 2 * G[k - 1]
    BY <1>5
  <2>1. k \in Nat /\ k - 1 \in 0..Width
    BY <1>1
  <2>2. G[k - 1] \in X
    BY <1>5, <2>1
  <2> QED
    BY <1>2, <1>5, <2>1, <2>2
<1> DEFINE H(f) == [i \in 0..Width |-> IF i = 0 THEN 1 ELSE 2 * f[i - 1]]
<1>7. G = H(G)
  BY <1>5, <1>6 DEF one
<1>8. Weight = CHOOSE f : f = H(f)
  BY DEF Weight
<1>9. Weight = H(Weight)
  BY <1>7, <1>8
<1>10. \A i \in 0..Width : Weight[i] = IF i = 0 THEN 1 ELSE 2 * Weight[i - 1]
  BY <1>9
<1> DEFINE S == {i \in Nat : i <= Width => Weight[i] \in Nat \ {0}}
<1>11. 0 \in S
  BY <1>1, <1>10
<1>12. \A i \in Nat : i \in S => i + 1 \in S
  <2> SUFFICES ASSUME NEW i \in Nat, i \in S, i + 1 <= Width PROVE Weight[i + 1] \in Nat \ {0}
    OBVIOUS
  <2>1. i + 1 \in 0..Width /\ (i + 1) - 1 = i /\ i + 1 # 0 /\ i <= Width
    BY <1>1
  <2>2. Weight[i + 1] = 2 * Weight[i] /\ Weight[i] \in Nat \ {0}
    BY <1>10, <2>1
  <2> QED
    BY <2>2
<1> HIDE DEF S
<1>13. \A i \in Nat : i \in S
  BY <1>11, <1>12, Induction
<1>14. \A i \in 0..Width : Weight[i] \in Nat \ {0}
  <2> SUFFICES ASSUME NEW i \in 0..Width PROVE Weight[i] \in Nat \ {0}
    OBVIOUS
  <2>1. i \in Nat /\ i <= Width
    BY <1>1
  <2> QED
    BY <1>13, <2>1 DEF S
<1>15. Weight[0] = 1
  BY <1>1, <1>10
<1>16. \A i \in 1..Width : Weight[i] = 2 * Weight[i - 1]
  BY <1>1, <1>10
<1> QED
  BY <1>14, <1>15, <1>16

\* They multiply as their exponents add.
LEMMA WeightOfSum ==
    ASSUME NEW i \in 0..Width, NEW j \in 0..Width, i + j <= Width
    PROVE  Weight[i + j] = Weight[i] * Weight[j]
<1> DEFINE P(k) == i + k <= Width => Weight[i + k] = Weight[i] * Weight[k]
           S == {k \in Nat : P(k)}
<1>1. Width \in Nat /\ i \in Nat /\ j \in Nat
  BY TimingAssumption
<1>2. 0 \in S
  <2>1. i + 0 = i /\ Weight[i] \in Nat /\ Weight[0] = 1
    BY <1>1, Weights
  <2> QED
    BY <2>1
<1>3. \A k \in Nat : k \in S => k + 1 \in S
  <2> HIDE DEF P
  <2> SUFFICES ASSUME NEW k \in Nat, P(k) PROVE P(k + 1)
    OBVIOUS
  <2> USE DEF P
  <2> SUFFICES ASSUME i + (k + 1) <= Width
               PROVE  Weight[i + (k + 1)] = Weight[i] * Weight[k + 1]
    OBVIOUS
  <2>1. /\ i + (k + 1) \in 1..Width /\ (i + (k + 1)) - 1 = i + k
        /\ k + 1 \in 1..Width /\ (k + 1) - 1 = k /\ i + k <= Width /\ k \in 0..Width
    BY <1>1
  <2>2. Weight[i + (k + 1)] = 2 * Weight[i + k] /\ Weight[k + 1] = 2 * Weight[k]
    BY <2>1, Weights
  <2>3. Weight[i + k] = Weight[i] * Weight[k]
    BY <2>1
  <2> DEFINE a == Weight[i]
             b == Weight[k]
  <2>4. a \in Nat /\ b \in Nat
    BY <2>1, Weights
  <2>5. Weight[i + (k + 1)] = 2 * (a * b) /\ Weight[k + 1] = 2 * b
    BY <2>2, <2>3
  <2> HIDE DEF a, b
  <2>6. 2 * (a * b) = a * (2 * b)
    BY <2>4
  <2> QED
    BY <2>5, <2>6 DEF a
<1> HIDE DEF S
<1>4. j \in S
  BY <1>1, <1>2, <1>3, Induction
<1> QED
  BY <1>1, <1>4 DEF S

\* Two halves make a long integer.
LEMMA Halves == Half \in Nat \ {0} /\ Long \in Nat \ {0} /\ Long = Half * Half
<1> DEFINE h == Width \div 2
<1>1. Width \in Nat /\ Width % 2 = 0
  BY TimingAssumption
<1>2. h \in Nat /\ Width = 2 * h + (Width % 2)
  BY <1>1, Quotient
<1> HIDE DEF h
<1>3. h \in 0..Width /\ h + h = Width /\ Width \in 0..Width
  BY <1>1, <1>2
<1>4. Weight[h + h] = Weight[h] * Weight[h]
  BY <1>1, <1>3, WeightOfSum
<1>5. Half = Weight[h] /\ Long = Weight[Width]
  BY DEF Half, Long, h
<1> QED
  BY <1>3, <1>4, <1>5, Weights

\* slowest is at least the cycles of every instruction, and the nanoseconds of the
\* longest a call goes on are a uint64_t.
NoWrap(slowest) ==
    /\ slowest \in Nat \ {0} /\ \A n \in CycleCounts : n <= slowest
    /\ \A c \in Crystals :
          (MaxTotal + MaxSteps * slowest) * Second < Long * CyclesPerSecond(c)

\* The invariant: the cycles of a call are at most those of its steps.
PaceInv(slowest) ==
    /\ cfg \in Crystals /\ total \in Nat /\ wall \in Nat
    /\ round = [cycles |-> round.cycles, steps |-> round.steps]
    /\ round.cycles \in 0..slowest /\ round.steps \in 0..MaxSteps
    /\ phase \in {"hooks", "pacing"} => round.steps < MaxSteps
    /\ total <= MaxTotal + round.steps * slowest

\* The time a round has to be over.
LEMMA TargetType ==
    ASSUME Running, NEW slowest, NoWrap(slowest), NEW at \in Nat,
           at <= MaxTotal + MaxSteps * slowest, cfg \in Crystals
    PROVE  /\ CyclesPerSecond(cfg) \in Nat \ {0}
           /\ TargetNs(at) = (at * Second) \div CyclesPerSecond(cfg)
<1> DEFINE f == cfg.fosc_hz
           k == cfg.clocks_per_cycle
           cps == f \div k
           z == at * Second
           t == z \div cps
           r == z % cps
<1>1. f \in Nat /\ k \in Nat \ {0} /\ f >= k /\ cps = CyclesPerSecond(cfg)
  BY MachineAssumption DEF Running, CyclesPerSecond
<1>2. cps \in Nat \ {0}
  <2> HIDE DEF f, k
  <2>1. cps \in Nat /\ f = k * cps + (f % k)
    BY <1>1, Quotient
  <2>2. f % k \in 0..(k - 1)
    BY <1>1, Wrap
  <2> HIDE DEF cps
  <2>3. cps # 0
    BY <1>1, <2>1, <2>2
  <2> QED
    BY <2>1, <2>3
<1>3. z \in Nat /\ Long \in Nat /\ z < Long * cps
  <2> DEFINE y == MaxTotal + MaxSteps * slowest
             x == y * Second
             l == Long * CyclesPerSecond(cfg)
  <2>1. Second \in Nat /\ Long \in Nat /\ x < l /\ y \in Nat /\ at <= y
    BY MachineAssumption, TimingAssumption, Halves DEF NoWrap
  <2>2. l = Long * cps
    BY <1>1
  <2> HIDE DEF y, cps
  <2>3. z <= x /\ z \in Nat /\ x \in Nat
    BY <2>1
  <2>4. l \in Nat
    BY <1>2, <2>1, <2>2
  <2> HIDE DEF x, z, l
  <2>5. z < l
    BY <2>1, <2>3, <2>4
  <2> QED
    BY <2>1, <2>2, <2>3, <2>5
<1> HIDE DEF z
<1>4. t \in Nat /\ z = cps * t + r
  <2> HIDE DEF cps
  <2> QED
    BY <1>2, <1>3, Quotient
<1>5. r \in 0..(cps - 1)
  <2> HIDE DEF cps
  <2> QED
    BY <1>2, <1>3, Wrap
<1>6. t < Long
  <2> HIDE DEF cps, t, r
  <2> SUFFICES ASSUME Long <= t PROVE FALSE
    BY <1>3, <1>4
  <2>1. cps * Long <= cps * t
    BY <1>2, <1>3, <1>4
  <2> DEFINE u == cps * Long
             v == cps * t
  <2>2. u \in Nat /\ v \in Nat /\ u <= v /\ z < u /\ z = v + r
    BY <1>2, <1>3, <1>4, <2>1
  <2> HIDE DEF u, v
  <2> QED
    BY <1>2, <1>5, <2>2
<1>7. t % Long = t
  <2> DEFINE L == Long
  <2>1. L \in Nat \ {0} /\ t \in 0..(L - 1) /\ t \in Int
    BY <1>3, <1>4, <1>6
  <2> HIDE DEF t, L
  <2>2. t % L = t
    BY <2>1, Wrap
  <2> QED
    BY <2>2 DEF L
<1> HIDE DEF t
<1>8. CyclesPerSecond(cfg) # 0
  BY <1>1, <1>2
<1>9. TargetNs(at) = MulDiv(at, Second, CyclesPerSecond(cfg))
  BY <1>8 DEF TargetNs, CyclesToNs, FromCycles
<1>10. MulDiv(at, Second, CyclesPerSecond(cfg)) = t % Long
  BY <1>1 DEF MulDiv, t, z
<1>11. t = (at * Second) \div CyclesPerSecond(cfg)
  BY <1>1 DEF t, z
<1> QED
  BY <1>1, <1>2, <1>7, <1>9, <1>10, <1>11

\* It holds when the host begins its first call.
LEMMA PaceInit == \A slowest : NoWrap(slowest) /\ MachineInit => PaceInv(slowest)
<1> SUFFICES ASSUME NEW slowest, NoWrap(slowest), MachineInit PROVE PaceInv(slowest)
  OBVIOUS
<1>1. cfg \in Crystals /\ total = 0 /\ wall = 0 /\ round = [cycles |-> 0, steps |-> 0] /\ phase = "step"
  BY DEF MachineInit, Init
<1>2. slowest \in Nat \ {0} /\ 0 * slowest = 0 /\ MaxSteps \in Nat \ {0} /\ MaxTotal \in Nat
  BY MachineAssumption DEF NoWrap
<1> QED
  BY <1>1, <1>2 DEF PaceInv

\* What a round takes until it is paced: its cycles, and what it has counted.
LEMMA PaceAction ==
    ASSUME Running, NEW slowest, NoWrap(slowest), PaceInv(slowest), Pace
    PROVE  /\ PaceInv(slowest)'
           /\ (wall' + 1) * cfg.fosc_hz > OnChip'
           /\ wall' > wall + MaxDelay =>
                 (wall' - MaxDelay) * cfg.fosc_hz * CyclesPerSecond(cfg)
                     <= OnChip' * (CyclesPerSecond(cfg) + 1)
<1> DEFINE at == total + round.cycles
           target == TargetNs(at)
           f == cfg.fosc_hz
           k == cfg.clocks_per_cycle
           cps == CyclesPerSecond(cfg)
<1>1. /\ cfg \in Crystals /\ total \in Nat /\ wall \in Nat /\ round.cycles \in 0..slowest
      /\ round.steps \in 0..MaxSteps /\ total <= MaxTotal + round.steps * slowest
      /\ phase = "pacing" => round.steps < MaxSteps
  BY DEF PaceInv
<1>2. slowest \in Nat \ {0} /\ MaxSteps \in Nat \ {0} /\ MaxTotal \in Nat /\ MaxDelay \in Nat
      /\ Second \in Nat
  BY MachineAssumption, TimingAssumption DEF NoWrap
<1>3. phase = "pacing" /\ phase' = "step" /\ total' = at /\ cfg' = cfg
      /\ round' = [cycles |-> 0, steps |-> round.steps + 1]
  BY DEF Pace
<1>4. PICK now \in wall..(wall + MaxDelay), over \in 0..MaxDelay :
         wall' = IF target > now THEN target + over ELSE now
  BY DEF Pace
<1>5. at \in Nat /\ at <= MaxTotal + (round.steps + 1) * slowest
  <2> DEFINE x == round.steps * slowest
  <2>1. (round.steps + 1) * slowest = x + slowest /\ x \in Nat
    BY <1>1, <1>2
  <2>2. total <= MaxTotal + x
    BY <1>1
  <2> HIDE DEF x
  <2> QED
    BY <1>1, <1>2, <2>1, <2>2
<1>6. round.steps + 1 \in 0..MaxSteps
  BY <1>1, <1>2, <1>3
<1>7. at <= MaxTotal + MaxSteps * slowest
  <2> DEFINE i == round.steps + 1
             x == i * slowest
             y == MaxSteps * slowest
  <2>1. i \in Nat /\ i <= MaxSteps
    BY <1>6
  <2>2. at <= MaxTotal + x
    BY <1>5
  <2> HIDE DEF i, at
  <2>3. x <= y /\ x \in Nat /\ y \in Nat
    BY <1>2, <2>1
  <2> HIDE DEF x, y
  <2>4. at <= MaxTotal + y
    BY <1>2, <1>5, <2>2, <2>3
  <2> QED
    BY <2>4 DEF y
<1>8. f \in Nat /\ k \in Nat \ {0} /\ cps = f \div k
  BY <1>1, MachineAssumption DEF CyclesPerSecond
<1> HIDE DEF at
<1>9. cps \in Nat \ {0} /\ target = (at * Second) \div cps
  BY <1>1, <1>5, <1>7, TargetType
<1> HIDE DEF f, k, cps, target
<1>10. /\ \A w \in Nat : w >= target => (w + 1) * f > at * k * Second
       /\ target * f * cps <= at * k * Second * (cps + 1)
       /\ target \in Nat
  BY <1>2, <1>5, <1>8, <1>9, Paces
<1>11. OnChip' = at * k * Second /\ cfg' = cfg
  BY <1>3 DEF OnChip, k
<1>12. wall' \in Nat /\ wall' >= target
  BY <1>1, <1>2, <1>4, <1>10
<1>13. PaceInv(slowest)'
  <2>1. round'.cycles \in 0..slowest /\ round'.steps \in 0..MaxSteps
        /\ round' = [cycles |-> round'.cycles, steps |-> round'.steps]
        /\ round'.steps = round.steps + 1
    BY <1>2, <1>3, <1>6
  <2>2. total' \in Nat /\ total' <= MaxTotal + round'.steps * slowest
    BY <1>3, <1>5, <2>1
  <2> QED
    BY <1>1, <1>3, <1>12, <2>1, <2>2 DEF PaceInv
<1>14. (wall' + 1) * f > OnChip'
  <2>1. (wall' + 1) * f > at * k * Second
    BY <1>10, <1>12
  <2> QED
    BY <1>11, <2>1
<1>15. ASSUME wall' > wall + MaxDelay
       PROVE  (wall' - MaxDelay) * f * cps <= OnChip' * (cps + 1)
  <2>1. wall' = target + over
    BY <1>1, <1>2, <1>4, <1>10, <1>15
  <2> DEFINE d == wall' - MaxDelay
  <2>2. d \in Nat /\ d <= target
    BY <1>1, <1>2, <1>10, <1>12, <1>15, <2>1
  <2> HIDE DEF d
  <2>3. d * f * cps <= target * f * cps
    <3>1. f * cps \in Nat
      BY <1>8, <1>9
    <3> DEFINE g == f * cps
    <3>2. g \in Nat
      BY <3>1
    <3>5. \A x, y, z \in Nat : x * y * z = x * (y * z)
      OBVIOUS
    <3>6. d \in Nat /\ target \in Nat /\ f \in Nat /\ cps \in Nat
      BY <1>8, <1>9, <1>10, <2>2
    <3>3. d * f * cps = d * g /\ target * f * cps = target * g
      BY <3>5, <3>6
    <3> HIDE DEF g
    <3>4. d * g <= target * g
      BY <1>10, <2>2, <3>2
    <3> QED
      BY <3>3, <3>4
  <2> DEFINE a == d * f * cps
             b == target * f * cps
             c == at * k * Second * (cps + 1)
  <2>4. a \in Nat /\ b \in Nat /\ c \in Nat /\ a <= b /\ b <= c
    BY <1>2, <1>5, <1>8, <1>9, <1>10, <2>2, <2>3
  <2> HIDE DEF a, b, c
  <2>5. a <= c
    BY <2>4
  <2> QED
    BY <1>11, <2>5 DEF a, c, d
<1> QED
  BY <1>13, <1>14, <1>15 DEF f, cps

\* Every step keeps the bound on the cycles.
LEMMA PaceNext ==
    ASSUME Running, NEW slowest, NoWrap(slowest), PaceInv(slowest), [MachineNext]_allVars
    PROVE  PaceInv(slowest)'
<1>1. /\ cfg \in Crystals /\ total \in Nat /\ wall \in Nat
      /\ round = [cycles |-> round.cycles, steps |-> round.steps]
      /\ round.cycles \in 0..slowest /\ round.steps \in 0..MaxSteps
      /\ total <= MaxTotal + round.steps * slowest
      /\ (phase \in {"hooks", "pacing"} => round.steps < MaxSteps)
  BY DEF PaceInv
<1>2. slowest \in Nat \ {0} /\ MaxSteps \in Nat \ {0} /\ MaxTotal \in Nat
      /\ \A n \in CycleCounts : n \in Nat /\ n <= slowest
  BY MachineAssumption DEF NoWrap
\* What only takes an instruction, or less.
<1>3. ASSUME cfg' = cfg, total' = total, wall' = wall, NEW n \in 0..slowest,
             round' = [round EXCEPT !.cycles = n], phase' \in {"hooks", "pacing"} => round.steps < MaxSteps
      PROVE  PaceInv(slowest)'
  <2>1. round' = [cycles |-> n, steps |-> round.steps]
    BY <1>1, <1>3
  <2> HIDE <1>3
  <2>2. round'.cycles = n /\ round'.steps = round.steps
        /\ round' = [cycles |-> round'.cycles, steps |-> round'.steps]
    BY <2>1
  <2>3. total' <= MaxTotal + round'.steps * slowest
    BY <1>1, <1>3, <2>2
  <2> QED
    BY <1>1, <1>3, <2>2, <2>3 DEF PaceInv
<1>4. ASSUME NEW c, NEW lost, Step(c, lost) PROVE PaceInv(slowest)'
  <2>1. PICK n \in CycleCounts : round' = [round EXCEPT !.cycles = n]
    BY <1>4 DEF Step
  <2>2. n \in 0..slowest
    BY <1>2
  <2>3. cfg' = cfg /\ total' = total /\ wall' = wall /\ round.steps < MaxSteps
    BY <1>4 DEF Step, Goes
  <2> QED
    BY <1>3, <2>1, <2>2, <2>3
<1>5. CASE RunInstruction
  BY <1>4, <1>5 DEF RunInstruction, StepPlain, StepWriteIE, StepWriteIP, StepWritePCON, StepReti,
     StepClearFlag, StepWriteTR
<1>20. ASSUME cfg' = cfg, total' = total, wall' = wall, round' = round,
              phase' \in {"hooks", "pacing"} => phase \in {"hooks", "pacing"}
       PROVE  PaceInv(slowest)'
  BY <1>1, <1>20 DEF PaceInv
<1>6. CASE StepInvalid
  BY <1>20, <1>6 DEF StepInvalid, ExecInvalid, machine
<1>7. CASE StepIdle
  <2>1. round' = [round EXCEPT !.cycles = 1] /\ cfg' = cfg /\ total' = total /\ wall' = wall
        /\ round.steps < MaxSteps
    BY <1>7 DEF StepIdle, Goes
  <2>2. 1 \in 0..slowest
    BY <1>2
  <2> QED
    BY <1>3, <2>1, <2>2
<1>8. CASE Hooks
  BY <1>20, <1>8 DEF Hooks
<1>9. CASE Pace
  BY <1>9, PaceAction
<1>10. CASE Return
  BY <1>20, <1>10 DEF Return, machine
<1>11. CASE HostWake
  BY <1>20, <1>11 DEF HostWake, Wake, machine
<1>12. CASE CallAgain
  <2>1. phase' = "step" /\ round' = [cycles |-> 0, steps |-> 0] /\ cfg' = cfg /\ wall' = 0
        /\ (total' = 0 \/ (total' = total /\ total <= MaxTotal))
    BY <1>12 DEF CallAgain
  <2>2. 0 * slowest = 0 /\ total' \in Nat /\ total' <= MaxTotal + 0
    BY <1>1, <1>2, <2>1
  <2> QED
    BY <1>1, <1>2, <2>1, <2>2 DEF PaceInv
<1>13. CASE UNCHANGED allVars
  BY <1>20, <1>13 DEF allVars, vars, machine
<1> QED
  BY <1>5, <1>6, <1>7, <1>8, <1>9, <1>10, <1>11, <1>12, <1>13 DEF MachineNext

\* Only Pace ends a round.
LEMMA OnlyPace ==
    ASSUME [MachineNext]_allVars, phase = "pacing", phase' = "step"
    PROVE  Pace
<1>1. ~ \E c, f : Step(c, f)
  BY DEF Step, Instruction, CanStep
<1> QED
  BY <1>1 DEF MachineNext, RunInstruction, StepPlain, StepWriteIE, StepWriteIP, StepWritePCON,
     StepReti, StepClearFlag, StepWriteTR, StepInvalid, ExecInvalid, CanStep, StepIdle, IdleCycle,
     Hooks, Return, HostWake, CallAgain, allVars, vars

\* No round is over sooner than on the chip, and a call sleeps no longer than that, for
\* any crystal and instruction lengths whose nanoseconds fit uint64_t (cpu.c:1292).
THEOREM PacedByCrystalCorrect ==
    \A slowest : Running /\ NoWrap(slowest) => (MachineSpec => PacedByCrystal)
<1> SUFFICES ASSUME NEW slowest, Running, NoWrap(slowest) PROVE MachineSpec => PacedByCrystal
  OBVIOUS
<1> DEFINE I == PaceInv(slowest)
           A == phase = "pacing" /\ phase' = "step" =>
            /\ (wall' + 1) * cfg.fosc_hz > OnChip'
            /\ fresh /\ wall' > wall + MaxDelay =>
                   (wall' - MaxDelay) * cfg.fosc_hz * CyclesPerSecond(cfg)
                       <= OnChip' * (CyclesPerSecond(cfg) + 1)
<1>1. MachineInit => I
  BY PaceInit
<1>2. I /\ [MachineNext]_allVars => I'
  BY PaceNext
<1>3. I /\ [MachineNext]_allVars => [A]_allVars
  BY OnlyPace, PaceAction
<1> QED
  BY <1>1, <1>2, <1>3, PTL DEF MachineSpec, PacedByCrystal

------------------------------------------------------------------------------
\* The conversions of timing.c

\* The two longs of a product, as the partial products and their carries make them.
LEMMA ProductExact ==
    ASSUME NEW a \in 0..(Long - 1), NEW b \in 0..(Long - 1)
    PROVE  LET p == Product(a, b)
           IN  /\ p = [hi |-> p.hi, lo |-> p.lo]
               /\ p.hi \in 0..(Long - 1) /\ p.lo \in 0..(Long - 1)
               /\ a * b = Long * p.hi + p.lo
<1> DEFINE H == Half
           L == Long
           a0 == Lower(a)
           a1 == Upper(a)
           b0 == Lower(b)
           b1 == Upper(b)
           p0 == a0 * b0
           p1 == a0 * b1
           p2 == a1 * b0
           p3 == a1 * b1
           u0 == Upper(p0)
           v0 == Lower(p0)
           u1 == Upper(p1)
           v1 == Lower(p1)
           u2 == Upper(p2)
           v2 == Lower(p2)
           mid == u0 + v1 + v2
           m1 == Upper(mid)
           m0 == Lower(mid)
           hi == p3 + u1 + u2 + m1
           lo == H * m0 + v0
           D == 0..(H - 1)
<1>1. H \in Nat \ {0} /\ L \in Nat \ {0} /\ L = H * H
  BY Halves
<1>2. \A x \in 0..(L - 1) : Upper(x) \in D /\ Lower(x) \in D /\ x = H * Upper(x) + Lower(x)
  BY <1>1, Digits DEF Upper, Lower
<1>3. \A x \in D : x \in Nat
  BY <1>1
<1>4. \A x, y \in D : x * y \in 0..(L - 1)
  <2> SUFFICES ASSUME NEW x \in D, NEW y \in D PROVE x * y \in 0..(L - 1)
    OBVIOUS
  <2> HIDE DEF H, L
  <2>1. x * y \in Nat /\ x * y < H * H
    BY <1>1, BelowSquare
  <2> QED
    BY <1>1, <2>1
<1>5. /\ a0 \in D /\ a1 \in D /\ b0 \in D /\ b1 \in D
      /\ a = H * a1 + a0 /\ b = H * b1 + b0
  BY <1>2
<1> HIDE DEF a0, a1, b0, b1
<1>6. p0 \in 0..(L - 1) /\ p1 \in 0..(L - 1) /\ p2 \in 0..(L - 1) /\ p3 \in 0..(L - 1)
  BY <1>4, <1>5
<1> HIDE DEF p0, p1, p2, p3
<1>7. /\ u0 \in D /\ v0 \in D /\ p0 = H * u0 + v0
      /\ u1 \in D /\ v1 \in D /\ p1 = H * u1 + v1
      /\ u2 \in D /\ v2 \in D /\ p2 = H * u2 + v2
  BY <1>2, <1>6
<1> HIDE DEF u0, v0, u1, v1, u2, v2
<1>8. mid \in Nat
  BY <1>3, <1>7
<1>9. m1 \in Nat /\ mid = H * m1 + m0
  BY <1>1, <1>8, Quotient DEF Upper, Lower
<1>10. m0 \in D
  <2>1. mid \in Int
    BY <1>8
  <2> HIDE DEF mid, H
  <2> QED
    BY <1>1, <2>1, Wrap DEF Lower, H
<1> HIDE DEF m1, m0
<1>11. a * b = (H * H) * hi + lo
  <2>1. /\ H \in Nat /\ a0 \in Nat /\ a1 \in Nat /\ b0 \in Nat /\ b1 \in Nat
        /\ u0 \in Nat /\ v0 \in Nat /\ u1 \in Nat /\ v1 \in Nat /\ u2 \in Nat /\ v2 \in Nat
        /\ m1 \in Nat /\ m0 \in Nat
    BY <1>1, <1>3, <1>5, <1>7, <1>9, <1>10
  <2>2. /\ a0 * b0 = H * u0 + v0 /\ a0 * b1 = H * u1 + v1 /\ a1 * b0 = H * u2 + v2
        /\ u0 + v1 + v2 = H * m1 + m0
    BY <1>7, <1>9 DEF p0, p1, p2
  <2> HIDE DEF H, D, mid
  <2>3. (H * a1 + a0) * (H * b1 + b0) = (H * H) * (a1 * b1 + u1 + u2 + m1) + (H * m0 + v0)
    BY <2>1, <2>2, PartialProducts
  <2> QED
    BY <1>5, <2>3 DEF p3
<1>12. lo \in 0..(L - 1)
  <2> HIDE DEF H, L
  <2>1. H * m0 + v0 \in 0..(H * H - 1)
    BY <1>1, <1>7, <1>10, OfDigits
  <2> QED
    BY <1>1, <2>1
<1>13. hi \in Nat
  BY <1>1, <1>3, <1>6, <1>7, <1>9
<1>14. hi \in 0..(L - 1)
  <2>1. a * b \in Nat /\ a * b < L * L
    <3> HIDE DEF L
    <3>1. a \in 0..(L - 1) /\ b \in 0..(L - 1)
      BY DEF L
    <3> QED
      BY <1>1, <3>1, BelowSquare
  <2> HIDE DEF hi, lo, L, H
  <2> SUFFICES ASSUME L <= hi PROVE FALSE
    BY <1>1, <1>13
  <2> DEFINE x == L * hi
             y == L * L
             z == a * b
  <2>2. y <= x /\ x \in Nat /\ y \in Nat
    BY <1>1, <1>13
  <2>3. z = x + lo /\ z \in Nat /\ z < y
    BY <1>1, <1>11, <2>1
  <2> HIDE DEF x, y, z
  <2> QED
    BY <1>1, <1>12, <2>2, <2>3
<1>15. (mid * H) % L = H * m0
  <2> HIDE DEF H, L, D, mid
  <2>1. mid * H = L * m1 + H * m0
    <3>1. m0 \in Nat
      BY <1>1, <1>10 DEF D
    <3>2. (H * m1 + m0) * H = (H * H) * m1 + H * m0
      BY <1>1, <1>9, <3>1
    <3> QED
      BY <1>1, <1>9, <3>2
  <2>2. H * m0 \in 0..(L - 1)
    <3>1. 0 \in 0..(H - 1) /\ m0 \in 0..(H - 1)
      BY <1>1, <1>10 DEF D
    <3>2. H * m0 + 0 \in 0..(H * H - 1)
      BY <1>1, <3>1, OfDigits
    <3>3. H * m0 \in Nat
      BY <1>1, <3>1
    <3> QED
      BY <1>1, <3>2, <3>3
  <2>3. mid * H \in Nat
    BY <1>1, <1>8
  <2> DEFINE x == mid * H
             y == H * m0
  <2> HIDE DEF x, y
  <2>4. x = L * m1 + y /\ x \in Nat /\ y \in 0..(L - 1)
    BY <2>1, <2>2, <2>3 DEF x, y
  <2>5. x % L = y
    BY <1>1, <1>9, <2>4, QuotientIs
  <2> QED
    BY <2>5 DEF x, y
<1>16. hi % L = hi
  <2>1. hi \in Int
    BY <1>13
  <2> HIDE DEF hi, L
  <2> QED
    BY <1>1, <1>14, <2>1, Wrap
<1>17. Product(a, b) = [hi |-> hi % L, lo |-> ((mid * H) % L) + v0]
  BY DEF Product, m1, u0, u1, u2, v0, v1, v2, p0, p1, p2, p3, a0, a1, b0, b1
<1> HIDE DEF hi, lo, mid, H, L
<1>18. Product(a, b) = [hi |-> hi, lo |-> lo]
  BY <1>15, <1>16, <1>17 DEF lo
<1>19. a * b = L * hi + lo
  BY <1>1, <1>11
<1> QED
  BY <1>12, <1>14, <1>18, <1>19 DEF L

\* One round of the long division.
Divided(p, c, k, s) ==
    LET i == 2 * Width - k
        r == ((2 * s.rem) % Long) + ProductBit(p, i)
        bit == IF i < Width THEN Weight[i] ELSE 0
    IN  IF r >= c THEN [rem |-> r - c, q |-> s.q + bit]
        ELSE [s EXCEPT !.rem = r]

\* The bits of the two longs, and their weights.
LEMMA ProductBits ==
    ASSUME NEW p, p.hi \in Nat, p.lo \in Nat, NEW k \in 1..(2 * Width)
    PROVE  ProductBit(p, 2 * Width - k) \in 0..1
<1> DEFINE i == 2 * Width - k
<1>1. Width \in Nat
  BY TimingAssumption
<1>2. i \in Nat /\ i < 2 * Width
  BY <1>1
<1> HIDE DEF i
<1>3. CASE i >= Width
  <2>1. i - Width \in 0..Width
    BY <1>1, <1>2, <1>3
  <2> DEFINE w == Weight[i - Width]
             x == p.hi \div w
  <2>2. w \in Nat \ {0}
    BY <2>1, Weights
  <2> HIDE DEF w
  <2>3. x \in Nat
    BY <2>2, Quotient
  <2> HIDE DEF x
  <2>4. x % 2 \in 0..1
    BY <2>3
  <2> QED
    BY <1>3, <2>4 DEF ProductBit, i, x, w
<1>4. CASE ~(i >= Width)
  <2>1. i \in 0..Width
    BY <1>1, <1>2, <1>4
  <2> DEFINE w == Weight[i]
             x == p.lo \div w
  <2>2. w \in Nat \ {0}
    BY <2>1, Weights
  <2> HIDE DEF w
  <2>3. x \in Nat
    BY <2>2, Quotient
  <2> HIDE DEF x
  <2>4. x % 2 \in 0..1
    BY <2>3
  <2> QED
    BY <1>4, <2>4 DEF ProductBit, i, x, w
<1> QED
  BY <1>3, <1>4

\* Round k takes the bit b of the dividend into the rest, and one of weight bit into
\* the quotient if the divisor fits.
TakesBit(p, c, k, s, t, b, q, bit) ==
    \E e \in 0..1 :
       /\ Divided(p, c, k, s) = [rem |-> (2 * t + b) % c, q |-> q + bit * e]
       /\ (2 * t + b) \div c = 2 * (t \div c) + e

\* A round takes the remainder of what the dividend was to what it is with one bit more.
LEMMA OneBit ==
    ASSUME NEW p, NEW c \in Nat \ {0}, 2 * c <= Long, NEW k, NEW t \in Nat, NEW b \in 0..1,
           NEW i, i = 2 * Width - k, ProductBit(p, i) = b, NEW q \in Nat, NEW bit \in Nat,
           bit = IF i < Width THEN Weight[i] ELSE 0,
           NEW s, s = [rem |-> t % c, q |-> q]
    PROVE  TakesBit(p, c, k, s, t, b, q, bit)
<1> DEFINE m == t % c
           r == 2 * m + b
           x == (2 * t + b) % c
           y == (2 * t + b) \div c
           z == t \div c
<1>1. m \in 0..(c - 1) /\ m \in Nat
  BY RestOf
<1>2. /\ r >= c => x = r - c /\ y = 2 * z + 1
      /\ ~(r >= c) => x = r /\ y = 2 * z
  BY ShiftIn
<1>3. z \in Nat
  BY Quotient
<1>4. s.rem = m /\ s.q = q /\ s = [rem |-> m, q |-> q]
  OBVIOUS
<1> HIDE DEF m, x, y, z
<1>5. (2 * m) % Long = 2 * m
  <2> DEFINE L == Long
             u == 2 * m
  <2>1. L \in Nat \ {0} /\ u \in 0..(L - 1) /\ u \in Int
    BY <1>1, Halves
  <2> HIDE DEF L, u
  <2>2. u % L = u
    BY <2>1, Wrap
  <2> QED
    BY <2>2 DEF L, u
<1>6. Divided(p, c, k, s) = IF r >= c THEN [rem |-> r - c, q |-> s.q + bit] ELSE [s EXCEPT !.rem = r]
  BY <1>4, <1>5 DEF Divided
<1>7. [s EXCEPT !.rem = r] = [rem |-> r, q |-> q]
  BY <1>4
<1> HIDE DEF r
<1>8. CASE r >= c
  <2>1. Divided(p, c, k, s) = [rem |-> x, q |-> q + bit * 1] /\ y = 2 * z + 1
    BY <1>2, <1>4, <1>6, <1>8
  <2> QED
    BY <2>1 DEF x, y, z, TakesBit
<1>9. CASE ~(r >= c)
  <2>1. q + bit * 0 = q /\ 2 * z + 0 = 2 * z
    BY <1>3
  <2>2. Divided(p, c, k, s) = [rem |-> x, q |-> q + bit * 0] /\ y = 2 * z + 0
    BY <1>2, <1>6, <1>7, <1>9, <2>1
  <2> QED
    BY <2>2 DEF x, y, z, TakesBit
<1> QED
  BY <1>8, <1>9

\* In the first half of the rounds the dividend is what has been shifted out of hi.
LEMMA UpperRounds ==
    ASSUME NEW p, p.hi \in Nat, NEW c \in Nat \ {0}, 2 * c <= Long, NEW k \in 0..(Width - 1),
           NEW s, s = [rem |-> (p.hi \div Weight[Width - k]) % c, q |-> 0]
    PROVE  Divided(p, c, k + 1, s) = [rem |-> (p.hi \div Weight[Width - (k + 1)]) % c, q |-> 0]
<1> DEFINE hi == p.hi
           d == Weight[Width - (k + 1)]
           t == hi \div Weight[Width - k]
           b == (hi \div d) % 2
           zero == 0
           i == 2 * Width - (k + 1)
<1>1. /\ Width \in Nat /\ Width - k \in 1..Width /\ (Width - k) - 1 = Width - (k + 1)
      /\ Width - (k + 1) \in 0..Width /\ Width - k \in 0..Width
      /\ i >= Width /\ i - Width = Width - (k + 1) /\ ~(i < Width)
  BY TimingAssumption
<1>2. Weight[Width - k] = 2 * d /\ d \in Nat \ {0} /\ Weight[Width - k] \in Nat \ {0}
  BY <1>1, Weights
<1>3. ProductBit(p, i) = b
  BY <1>1 DEF ProductBit
<1>4. hi \div d = 2 * t + b
  <2>1. hi \div d = 2 * (hi \div (2 * d)) + ((hi \div d) % 2)
    BY <1>2, NextDigit
  <2> QED
    BY <1>2, <2>1
<1>5. t \in Nat
  BY <1>2, Quotient
<1>6. b \in 0..1
  <2> DEFINE x == hi \div d
  <2>1. x \in Nat
    BY <1>2, Quotient
  <2>2. x % 2 \in 0..1
    <3> HIDE DEF x
    <3> QED
      BY <2>1
  <2> QED
    BY <2>2 DEF b
<1> HIDE DEF t, b, d, hi, zero
<1>7. i = 2 * Width - (k + 1)
  OBVIOUS
<1> HIDE DEF i
<1>8. s = [rem |-> t % c, q |-> zero] /\ zero \in Nat
  BY DEF t, hi, zero
<1>9. zero = IF i < Width THEN Weight[i] ELSE 0
  BY <1>1 DEF zero
<1>10. TakesBit(p, c, k + 1, s, t, b, zero, zero)
  BY <1>7, <1>3, <1>5, <1>6, <1>8, <1>9, OneBit
<1>11. PICK e \in 0..1 : Divided(p, c, k + 1, s) = [rem |-> (2 * t + b) % c, q |-> zero + zero * e]
  BY <1>10 DEF TakesBit
<1>12. zero + zero * e = 0
  BY <1>11 DEF zero
<1>13. Divided(p, c, k + 1, s) = [rem |-> (hi \div d) % c, q |-> 0]
  BY <1>4, <1>11, <1>12
<1> QED
  BY <1>13 DEF hi, d

\* In the second half it is hi and what has been shifted out of lo.
Shifted(p, j) == p.hi * Weight[j] + (p.lo \div Weight[Width - j])

\* In the second half a round takes in a bit of lo and yields one of the quotient.
LEMMA LowerRounds ==
    ASSUME NEW p, p.hi \in Nat, p.lo \in Nat, NEW c \in Nat \ {0}, 2 * c <= Long,
           NEW j \in 0..(Width - 1), NEW s,
           s = [rem |-> Shifted(p, j) % c,
                q |-> Weight[Width - j] * ((Shifted(p, j) \div c) % Weight[j])]
    PROVE  /\ Shifted(p, j + 1) \in Nat
           /\ Divided(p, c, Width + (j + 1), s) =
                [rem |-> Shifted(p, j + 1) % c,
                 q |-> Weight[Width - (j + 1)] * ((Shifted(p, j + 1) \div c) % Weight[j + 1])]
<1> DEFINE hi == p.hi
           lo == p.lo
           d == Weight[Width - (j + 1)]
           w == Weight[j]
           t == Shifted(p, j)
           u == Shifted(p, j + 1)
           b == (lo \div d) % 2
           k == Width + (j + 1)
           i == 2 * Width - k
           Q == t \div c
           q == (2 * d) * (Q % w)
<1>1. /\ Width \in Nat /\ Width - j \in 1..Width /\ (Width - j) - 1 = Width - (j + 1)
      /\ Width - (j + 1) \in 0..Width /\ Width - j \in 0..Width
      /\ i = Width - (j + 1) /\ i < Width /\ ~(i >= Width)
      /\ j \in 0..Width /\ j + 1 \in 1..Width /\ (j + 1) - 1 = j
  BY TimingAssumption
<1>2. /\ Weight[Width - j] = 2 * d /\ d \in Nat \ {0} /\ Weight[Width - j] \in Nat \ {0}
      /\ Weight[j + 1] = 2 * w /\ w \in Nat \ {0}
  BY <1>1, Weights
<1>3. ProductBit(p, i) = b
  BY <1>1 DEF ProductBit
<1>4. lo \div d = 2 * (lo \div (2 * d)) + b
  BY <1>2, NextDigit
<1>5. (lo \div d) \in Nat /\ (lo \div (2 * d)) \in Nat /\ hi \in Nat
  BY <1>2, Quotient
<1>6. b \in 0..1
  <2> DEFINE x == lo \div d
  <2>1. x \in Nat
    BY <1>5
  <2>2. x % 2 \in 0..1
    <3> HIDE DEF x
    <3> QED
      BY <2>1
  <2> QED
    BY <2>2 DEF b
<1>7. t = hi * w + (lo \div (2 * d)) /\ u = hi * (2 * w) + (lo \div d)
  BY <1>2 DEF Shifted
<1>8. i = 2 * Width - k
  OBVIOUS
<1> HIDE DEF b, d, w, hi, lo, i, k, t, u
<1>9. t \in Nat /\ u \in Nat /\ u = 2 * t + b
  <2> DEFINE x == lo \div (2 * d)
             y == lo \div d
             z == hi * w
  <2>1. x \in Nat /\ y \in Nat /\ z \in Nat /\ y = 2 * x + b
    BY <1>2, <1>4, <1>5
  <2>2. hi * (2 * w) = 2 * z
    BY <1>2, <1>5
  <2>3. t = z + x /\ u = 2 * z + y
    BY <1>7, <2>2
  <2> HIDE DEF x, y, z
  <2> QED
    BY <1>6, <2>1, <2>3
<1>10. Q \in Nat
  BY <1>9, Quotient
<1>11. Q % w \in Nat
  <2> HIDE DEF Q
  <2> QED
    BY <1>2, <1>10, RestOf
<1>12. q \in Nat
  BY <1>2, <1>11
<1>13. s = [rem |-> t % c, q |-> q]
  BY <1>2 DEF t, w
<1> HIDE DEF q
<1>14. d = (IF i < Width THEN Weight[i] ELSE 0) /\ d \in Nat
  BY <1>1, <1>2 DEF d
<1>15. TakesBit(p, c, k, s, t, b, q, d)
  BY <1>8, <1>3, <1>6, <1>9, <1>12, <1>13, <1>14, OneBit
<1>16. PICK e \in 0..1 :
          /\ Divided(p, c, k, s) = [rem |-> (2 * t + b) % c, q |-> q + d * e]
          /\ (2 * t + b) \div c = 2 * Q + e
  BY <1>15 DEF TakesBit
<1>17. e \in 0..1
  BY <1>16
<1>18. q + d * e = d * ((2 * Q + e) % (2 * w))
  <2> HIDE DEF Q
  <2> DEFINE m == Q % w
  <2>1. (2 * Q + e) % (2 * w) = 2 * m + e
    BY <1>2, <1>10, <1>17, ShiftModulo
  <2>2. m \in Nat /\ e \in Nat /\ d \in Nat
    BY <1>2, <1>11, <1>17
  <2>3. q = (2 * d) * m
    BY DEF q
  <2> HIDE DEF m
  <2>4. d * (2 * m + e) = (2 * d) * m + d * e
    BY <2>2
  <2> QED
    BY <2>1, <2>3, <2>4
<1>19. u \div c = 2 * Q + e /\ Weight[j + 1] = 2 * w
  BY <1>2, <1>9, <1>16
<1> HIDE DEF Q
<1>20. Divided(p, c, k, s) = [rem |-> u % c, q |-> d * ((u \div c) % Weight[j + 1])]
  <2> DEFINE r == q + d * e
  <2>1. r = d * ((u \div c) % Weight[j + 1])
    BY <1>18, <1>19
  <2>2. Divided(p, c, k, s) = [rem |-> u % c, q |-> r]
    BY <1>9, <1>16
  <2> HIDE DEF r
  <2> QED
    BY <2>1, <2>2
<1> QED
  BY <1>9, <1>20 DEF k, u, d

\* What the long division goes through: the rest, and the bits of the quotient.
Divisions == [rem : Nat, q : Nat]

\* A round keeps to naturals.
LEMMA DividedType ==
    ASSUME NEW p, p.hi \in Nat, p.lo \in Nat, NEW c \in Nat \ {0}, NEW k \in 1..(2 * Width),
           NEW s \in Divisions
    PROVE  Divided(p, c, k, s) \in Divisions
<1> DEFINE i == 2 * Width - k
           u == (2 * s.rem) % Long
           v == ProductBit(p, i)
           r == u + v
           bit == IF i < Width THEN Weight[i] ELSE 0
<1>1. v \in Nat
  BY ProductBits
<1>2. s.rem \in Nat /\ s.q \in Nat /\ 2 * s.rem \in Nat /\ s = [rem |-> s.rem, q |-> s.q]
  BY DEF Divisions
<1>3. u \in Nat
  BY <1>2, Halves, RestOf
<1>4. bit \in Nat
  <2>1. CASE i < Width
    <3>1. i \in 0..Width
      BY <2>1, TimingAssumption
    <3> QED
      BY <3>1, Weights
  <2>2. CASE ~(i < Width)
    BY <2>2
  <2> QED
    BY <2>1, <2>2
<1>5. Divided(p, c, k, s) = IF r >= c THEN [rem |-> r - c, q |-> s.q + bit] ELSE [s EXCEPT !.rem = r]
  BY DEF Divided
<1> HIDE DEF u, v, bit
<1>6. r \in Nat /\ (r >= c => r - c \in Nat) /\ s.q + bit \in Nat
  BY <1>1, <1>2, <1>3, <1>4
<1> HIDE DEF r
<1>7. [s EXCEPT !.rem = r] = [rem |-> r, q |-> s.q]
  BY <1>2
<1> QED
  BY <1>2, <1>5, <1>6, <1>7 DEF Divisions

\* After k rounds of the upper half, and after j of the lower.
UpperState(p, c, k) == [rem |-> (p.hi \div Weight[Width - k]) % c, q |-> 0]
LowerState(p, c, j) ==
    [rem |-> Shifted(p, j) % c, q |-> Weight[Width - j] * ((Shifted(p, j) \div c) % Weight[j])]

\* The long division divides.
LEMMA LongDivisionExact ==
    ASSUME NEW p, p.hi \in 0..(Long - 1), p.lo \in 0..(Long - 1), NEW c \in Nat \ {0}, 2 * c <= Long
    PROVE  LongDivision(p, c) = ((Long * p.hi + p.lo) \div c) % Long
<1> DEFINE n == 2 * Width
           step == [x \in Nat \X Divisions |->
                      IF x[1] \in 1..n THEN Divided(p, c, x[1], x[2]) ELSE x[2]]
           base == [rem |-> 0, q |-> 0]
           After(k, s) == Divided(p, c, k, s)
<1>1. Width \in Nat /\ n \in Nat /\ Width <= n /\ Width + Width = n /\ Width - 0 = Width /\ Width - Width = 0
  BY TimingAssumption
<1>2. p.hi \in Nat /\ p.lo \in Nat /\ Long \in Nat \ {0}
  BY Halves
<1>3. base \in Divisions
  BY DEF Divisions
<1>4. \A k \in 1..n : \A s \in Divisions : After(k, s) \in Divisions
  BY <1>2, DividedType
<1>5. step \in [Nat \X Divisions -> Divisions]
      /\ \A k \in Nat : \A s \in Divisions :
            step[<<k, s>>] = IF k \in 1..n THEN After(k, s) ELSE s
  BY <1>4
<1> DEFINE after[k \in 0..n] == IF k = 0 THEN base ELSE After(k, after[k - 1])
           H(f) == [k \in 0..n |-> IF k = 0 THEN base ELSE After(k, f[k - 1])]
<1>6. LongDivision(p, c) = after[n].q
  BY DEF LongDivision, Divided
<1> HIDE DEF step, After, base, n
<1>7. PICK G : Computes(G, n, Divisions, base, step)
  BY <1>1, <1>3, <1>5, Iterates
<1>8. G \in [0..n -> Divisions] /\ G[0] = base
      /\ \A k \in 0..n : k # 0 => G[k] = step[<<k, G[k - 1]>>]
  BY <1>7 DEF Computes
<1>9. \A k \in 0..n : G[k] = IF k = 0 THEN base ELSE After(k, G[k - 1])
  <2> SUFFICES ASSUME NEW k \in 0..n, k # 0 PROVE G[k] = After(k, G[k - 1])
    BY <1>8
  <2>1. k \in Nat /\ k \in 1..n /\ k - 1 \in 0..n
    BY <1>1
  <2>2. G[k - 1] \in Divisions
    BY <1>8, <2>1
  <2> QED
    BY <1>5, <1>8, <2>1, <2>2
<1>10. G = H(G)
  BY <1>8, <1>9
<1>11. after = CHOOSE f : f = H(f)
  OBVIOUS
<1> HIDE DEF after
<1>12. after = H(after)
  BY <1>10, <1>11
<1>13. \A k \in 0..n : after[k] = IF k = 0 THEN base ELSE After(k, after[k - 1])
  BY <1>12
\* The rounds of the upper half.
<1> DEFINE U(k) == k <= Width => after[k] = UpperState(p, c, k)
           S == {k \in Nat : U(k)}
<1>14. 0 \in S
  <2>1. after[0] = base
    BY <1>1, <1>13
  <2>2. UpperState(p, c, 0) = [rem |-> (p.hi \div Long) % c, q |-> 0]
    BY <1>1 DEF UpperState, Long
  <2>3. p.hi \div Long = 0
    <3> DEFINE x == p.hi
               L == Long
    <3>1. x \in 0..(L - 1) /\ x \in Nat /\ L \in Nat \ {0} /\ 0 \in Nat /\ x = L * 0 + x
      BY <1>2
    <3> HIDE DEF x, L
    <3>2. x \div L = 0
      BY <3>1, QuotientIs
    <3> QED
      BY <3>2 DEF x, L
  <2>4. 0 % c = 0
    <3>1. 0 \in 0..(c - 1) /\ 0 \in Int
      OBVIOUS
    <3> QED
      BY <3>1, Wrap
  <2>5. U(0)
    BY <2>1, <2>2, <2>3, <2>4 DEF base
  <2> QED
    BY <2>5
<1>15. \A k \in Nat : k \in S => k + 1 \in S
  <2> HIDE DEF U
  <2> SUFFICES ASSUME NEW k \in Nat, U(k) PROVE U(k + 1)
    OBVIOUS
  <2> USE DEF U
  <2> SUFFICES ASSUME k + 1 <= Width PROVE after[k + 1] = UpperState(p, c, k + 1)
    OBVIOUS
  <2>1. k + 1 \in 0..n /\ (k + 1) - 1 = k /\ k + 1 # 0 /\ k <= Width /\ k \in 0..(Width - 1)
    BY <1>1
  <2>2. after[k + 1] = After(k + 1, after[k]) /\ after[k] = UpperState(p, c, k)
    BY <1>13, <2>1
  <2> DEFINE s == after[k]
  <2>3. s = [rem |-> (p.hi \div Weight[Width - k]) % c, q |-> 0]
    BY <2>2 DEF UpperState
  <2> HIDE DEF s
  <2>4. Divided(p, c, k + 1, s) = [rem |-> (p.hi \div Weight[Width - (k + 1)]) % c, q |-> 0]
    BY <1>2, <2>1, <2>3, UpperRounds
  <2> QED
    BY <2>2, <2>4 DEF s, After, UpperState
<1> HIDE DEF S
<1>16. U(Width)
  BY <1>1, <1>14, <1>15, Induction DEF S
\* Those of the lower half.
<1> DEFINE V(j) == j <= Width => Shifted(p, j) \in Nat /\ after[Width + j] = LowerState(p, c, j)
           T == {j \in Nat : V(j)}
<1>17. 0 \in T
  <2>1. after[Width] = [rem |-> (p.hi \div 1) % c, q |-> 0]
    BY <1>1, <1>16, Weights DEF UpperState
  <2>2. p.hi \div 1 = p.hi /\ p.hi * 1 = p.hi
    <3> DEFINE x == p.hi
    <3>1. x \in Nat /\ x = 1 * x + 0 /\ 0 \in 0..(1 - 1) /\ 1 \in Nat \ {0}
      BY <1>2
    <3> HIDE DEF x
    <3>2. x \div 1 = x /\ x * 1 = x
      BY <3>1
    <3> QED
      BY <3>2 DEF x
  <2>3. p.lo \div Long = 0
    <3> DEFINE x == p.lo
               L == Long
    <3>1. x \in 0..(L - 1) /\ x \in Nat /\ L \in Nat \ {0} /\ 0 \in Nat /\ x = L * 0 + x
      BY <1>2
    <3> HIDE DEF x, L
    <3>2. x \div L = 0
      BY <3>1, QuotientIs
    <3> QED
      BY <3>2 DEF x, L
  <2>4. Shifted(p, 0) = p.hi
    <3>1. Shifted(p, 0) = p.hi * 1 + (p.lo \div Long)
      BY <1>1, Weights DEF Shifted, Long
    <3>2. p.hi + 0 = p.hi
      BY <1>2
    <3> QED
      BY <2>2, <2>3, <3>1, <3>2
  <2>5. LowerState(p, c, 0) = [rem |-> p.hi % c, q |-> 0]
    <3> DEFINE x == p.hi \div c
               L == Long
    <3>1. x \in Nat
      BY <1>2, Quotient
    <3>2. LowerState(p, c, 0) = [rem |-> p.hi % c, q |-> L * (x % 1)]
      BY <1>1, <2>4, Weights DEF LowerState, Long
    <3>3. L \in Nat
      BY <1>2
    <3> HIDE DEF x, L
    <3>4. x % 1 = 0
      BY <3>1
    <3>5. L * 0 = 0
      BY <3>3
    <3> QED
      BY <3>2, <3>4, <3>5
  <2>6. Width + 0 = Width
    BY <1>1
  <2>7. V(0)
    BY <1>2, <2>1, <2>2, <2>4, <2>5, <2>6
  <2> QED
    BY <2>7
<1>18. \A j \in Nat : j \in T => j + 1 \in T
  <2> HIDE DEF V
  <2> SUFFICES ASSUME NEW j \in Nat, V(j) PROVE V(j + 1)
    OBVIOUS
  <2> USE DEF V
  <2> SUFFICES ASSUME j + 1 <= Width
               PROVE  Shifted(p, j + 1) \in Nat /\ after[Width + (j + 1)] = LowerState(p, c, j + 1)
    OBVIOUS
  <2> DEFINE k == Width + (j + 1)
  <2>1. /\ k \in 0..n /\ k - 1 = Width + j /\ k # 0 /\ j <= Width /\ j \in 0..(Width - 1)
    BY <1>1
  <2> HIDE DEF k
  <2>2. after[k] = After(k, after[Width + j]) /\ after[Width + j] = LowerState(p, c, j)
    BY <1>13, <2>1
  <2> DEFINE s == after[Width + j]
  <2>3. s = [rem |-> Shifted(p, j) % c,
             q |-> Weight[Width - j] * ((Shifted(p, j) \div c) % Weight[j])]
    BY <2>2 DEF LowerState
  <2> HIDE DEF s
  <2>4. /\ Shifted(p, j + 1) \in Nat
        /\ Divided(p, c, Width + (j + 1), s) =
             [rem |-> Shifted(p, j + 1) % c,
              q |-> Weight[Width - (j + 1)] * ((Shifted(p, j + 1) \div c) % Weight[j + 1])]
    BY <1>2, <2>1, <2>3, LowerRounds
  <2> QED
    BY <2>2, <2>4 DEF s, After, LowerState, k
<1> HIDE DEF T
<1>19. V(Width)
  BY <1>1, <1>17, <1>18, Induction DEF T
<1> DEFINE N == Long * p.hi + p.lo
           z == (N \div c) % Long
<1>20. Shifted(p, Width) = N /\ N \in Nat
  <2> DEFINE x == p.hi
             y == p.lo
             L == Long
  <2>1. Shifted(p, Width) = x * L + (y \div 1)
    BY <1>1, Weights DEF Shifted, Long
  <2>2. x \in Nat /\ y \in Nat /\ L \in Nat
    BY <1>2
  <2> HIDE DEF x, y, L
  <2>3. y \div 1 = y
    BY <2>2
  <2>4. x * L + y = L * x + y /\ L * x + y \in Nat
    BY <2>2
  <2> QED
    BY <2>1, <2>3, <2>4 DEF x, y, L
<1>21. after[n] = [rem |-> N % c, q |-> 1 * z]
  <2> DEFINE a == Shifted(p, Width)
  <2>1. after[n] = LowerState(p, c, Width)
    BY <1>1, <1>19
  <2>2. LowerState(p, c, Width) = [rem |-> a % c, q |-> 1 * ((a \div c) % Long)]
    BY <1>1, Weights DEF LowerState, Long
  <2>3. a = N
    BY <1>20
  <2> HIDE DEF a, N
  <2> QED
    BY <2>1, <2>2, <2>3
<1>22. 1 * z = z
  <2> DEFINE x == N \div c
  <2>1. x \in Nat
    BY <1>20, Quotient
  <2> HIDE DEF x
  <2>2. x % Long \in Nat
    BY <1>2, <2>1, RestOf
  <2> DEFINE y == x % Long
  <2> HIDE DEF y
  <2>3. 1 * y = y
    BY <2>2 DEF y
  <2> QED
    BY <2>3 DEF y, x
<1> HIDE DEF N, z
<1>23. after[n].q = z
  BY <1>21, <1>22
<1> QED
  BY <1>6, <1>23 DEF z, N

\* Both builds of mul_div_u64 compute the same.
LEMMA MulDivExact ==
    ASSUME NEW a \in 0..(Long - 1), NEW b \in 0..(Long - 1), NEW c \in Nat \ {0}, 2 * c <= Long
    PROVE  MulDivHalves(a, b, c) = MulDiv(a, b, c)
<1> DEFINE p == Product(a, b)
<1>1. /\ p.hi \in 0..(Long - 1) /\ p.lo \in 0..(Long - 1)
      /\ a * b = Long * p.hi + p.lo
  BY ProductExact
<1>2. MulDivHalves(a, b, c) = LongDivision(p, c)
  BY DEF MulDivHalves
<1>3. MulDiv(a, b, c) = ((a * b) \div c) % Long
  BY DEF MulDiv
<1> HIDE DEF p
<1>4. LongDivision(p, c) = ((Long * p.hi + p.lo) \div c) % Long
  BY <1>1, LongDivisionExact
<1> QED
  BY <1>1, <1>2, <1>3, <1>4

\* The nanoseconds of the longest a call goes on.
Longest(slowest, c) == ((MaxTotal + MaxSteps * slowest) * Second) \div CyclesPerSecond(c)

\* A machine cycle takes at least a nanosecond, and the long division does not lose the
\* rest's top bit; the host's clock does not overflow in a call.
Convertible(slowest) ==
    /\ 2 * Second <= Long
    /\ \A c \in Crystals :
          /\ CyclesPerSecond(c) <= Second
          /\ Longest(slowest, c) + MaxSteps * MaxDelay < Long

\* A number below a long is itself modulo a long.
LEMMA Fits ==
    ASSUME NEW x \in Nat, x < Long
    PROVE  x % Long = x
<1> DEFINE L == Long
<1>1. L \in Nat \ {0} /\ x \in 0..(L - 1) /\ x \in Int
  BY Halves
<1> HIDE DEF L
<1>2. x % L = x
  BY <1>1, Wrap
<1> QED
  BY <1>2 DEF L

\* The conversions of a count of cycles and of a time that a call may come to.
LEMMA Conversions ==
    ASSUME Running, NEW slowest, NoWrap(slowest), Convertible(slowest), cfg \in Crystals,
           NEW n \in Nat, n <= MaxTotal + MaxSteps * slowest, NEW w \in Nat, w < Long
    PROVE  /\ MulDivHalves(n, Second, CyclesPerSecond(cfg)) = CyclesToNs(cfg, n)
           /\ MulDivHalves(w, CyclesPerSecond(cfg), Second) = NsToCycles(cfg, w)
           /\ n - NsToCycles(cfg, CyclesToNs(cfg, n)) \in {0, 1}
           /\ CyclesToUs(cfg, n) = CyclesToNs(cfg, n) \div (Second \div Coarse)
           /\ UsToCycles(cfg, n) = NsToCycles(cfg, n * (Second \div Coarse))
<1> DEFINE c == CyclesPerSecond(cfg)
           s == Second
           u == Coarse
           k == s \div u
           t == (n * s) \div c
<1>1. c \in Nat \ {0} /\ CyclesToNs(cfg, n) = t
  BY TargetType DEF TargetNs
<1>2. c <= s /\ 2 * s <= Long
  BY DEF Convertible
<1>3. s \in Nat \ {0} /\ u \in Nat \ {0} /\ Long \in Nat \ {0}
  BY TimingAssumption, Halves
<1>4. k \in Nat \ {0} /\ s = k * u
  <2>1. s % u = 0
    BY TimingAssumption
  <2> HIDE DEF s, u
  <2>2. k \in Nat /\ s = u * k + (s % u)
    BY <1>3, Quotient
  <2> HIDE DEF k
  <2>3. s = u * k
    BY <1>3, <2>1, <2>2
  <2>4. k # 0
    BY <1>3, <2>3
  <2> QED
    BY <1>3, <2>2, <2>3, <2>4
<1>5. /\ FromCycles(cfg, n, s) = MulDiv(n, s, c) /\ FromCycles(cfg, n, u) = MulDiv(n, u, c)
      /\ \A x, r : ToCycles(cfg, x, r) = MulDiv(x, c, r)
  BY <1>1 DEF FromCycles, ToCycles
<1>6. t < Long /\ t \in Nat
  <2> DEFINE x == (n * s) \div c
  <2>1. t = x % Long
    BY <1>1, <1>5 DEF CyclesToNs, MulDiv
  <2>2. n * s \in Nat
    BY <1>3
  <2> HIDE DEF c, s, t
  <2>3. x \in Nat
    BY <1>1, <2>2, Quotient
  <2> HIDE DEF x
  <2>4. x % Long \in 0..(Long - 1)
    BY <1>3, <2>3, RestOf
  <2> QED
    BY <1>3, <2>1, <2>4
<1>7. n < Long
  <2> DEFINE y == MaxTotal + MaxSteps * slowest
             x == y * s
             L == Long
             l == L * c
             m == n * s
  <2>1. x < l /\ y \in Nat /\ n <= y
    BY MachineAssumption DEF NoWrap
  <2> HIDE DEF y, c, s, L
  <2>2. m <= x /\ m \in Nat /\ x \in Nat /\ l \in Nat /\ l <= L * s /\ L \in Nat
    BY <1>1, <1>2, <1>3, <2>1 DEF L
  <2> SUFFICES ASSUME L <= n PROVE FALSE
    BY <2>2 DEF L
  <2>3. L * s <= m
    BY <1>3, <2>2
  <2> DEFINE o == L * s
  <2>4. o \in Nat
    BY <1>3, <2>2
  <2> HIDE DEF x, l, m, o
  <2> QED
    BY <2>1, <2>2, <2>3, <2>4 DEF o
<1>8. n \in 0..(Long - 1) /\ w \in 0..(Long - 1) /\ s \in 0..(Long - 1) /\ c \in 0..(Long - 1)
      /\ 2 * c <= Long
  <2> HIDE DEF c, s
  <2> QED
    BY <1>1, <1>2, <1>3, <1>7
<1> HIDE DEF c, s, u, k, t
<1>9. MulDivHalves(n, s, c) = MulDiv(n, s, c) /\ MulDivHalves(w, c, s) = MulDiv(w, c, s)
  BY <1>1, <1>2, <1>3, <1>8, MulDivExact
<1>10. n - NsToCycles(cfg, t) \in {0, 1}
  <2> DEFINE back == (t * c) \div s
  <2>1. back \in Nat /\ n - back \in {0, 1}
    BY <1>1, <1>2, <1>3, ThereAndBack DEF t
  <2>2. NsToCycles(cfg, t) = back % Long
    BY <1>5 DEF NsToCycles, MulDiv, s
  <2> HIDE DEF back
  <2>3. back % Long = back
    BY <1>3, <1>7, <2>1, Fits
  <2> QED
    BY <2>1, <2>2, <2>3
<1>11. CyclesToUs(cfg, n) = t \div k
  <2> DEFINE x == t \div k
  <2>1. x = (n * u) \div c
    BY <1>1, <1>3, <1>4, Coarser DEF t
  <2>2. CyclesToUs(cfg, n) = x % Long
    BY <1>5, <2>1 DEF CyclesToUs, MulDiv, u
  <2>3. x \in Nat /\ x < Long
    <3>1. x \in Nat /\ x <= t
      BY <1>4, <1>6, Quotient
    <3> HIDE DEF x
    <3> QED
      BY <1>3, <1>6, <3>1
  <2> HIDE DEF x
  <2>4. x % Long = x
    BY <2>3, Fits
  <2>5. CyclesToUs(cfg, n) = x
    BY <2>2, <2>4
  <2> QED
    BY <2>5 DEF x
<1>12. UsToCycles(cfg, n) = NsToCycles(cfg, n * k)
  <2>1. ((n * k) * c) \div s = (n * c) \div u
    <3> DEFINE m == k * u
    <3>1. ((n * k) * c) \div m = (n * c) \div u
      BY <1>1, <1>3, <1>4, Coarser
    <3>2. m = s
      BY <1>4
    <3> HIDE DEF m
    <3> QED
      BY <3>1, <3>2
  <2>2. UsToCycles(cfg, n) = ((n * c) \div u) % Long
    BY <1>5 DEF UsToCycles, MulDiv, u
  <2>3. NsToCycles(cfg, n * k) = (((n * k) * c) \div s) % Long
    BY <1>5 DEF NsToCycles, MulDiv, s
  <2> QED
    BY <2>1, <2>2, <2>3
<1>13. CyclesToNs(cfg, n) = MulDiv(n, s, c) /\ NsToCycles(cfg, w) = MulDiv(w, c, s)
  BY <1>5 DEF CyclesToNs, NsToCycles, s
<1> QED
  BY <1>1, <1>9, <1>10, <1>11, <1>12, <1>13 DEF c, s, u, k

\* The invariant: PaceInv, and the time of a call is at most that of its cycles and of
\* its rounds' oversleeping.
WallInv(slowest) ==
    PaceInv(slowest) /\ wall <= Longest(slowest, cfg) + round.steps * MaxDelay

\* No round has to be over later than the longest that a call goes on.
LEMMA LongestType ==
    ASSUME Running, NEW slowest, NoWrap(slowest), cfg \in Crystals
    PROVE  /\ Longest(slowest, cfg) \in Nat
           /\ \A at \in Nat : at <= MaxTotal + MaxSteps * slowest =>
                 TargetNs(at) \in Nat /\ TargetNs(at) <= Longest(slowest, cfg)
<1> DEFINE c == CyclesPerSecond(cfg)
           s == Second
           y == MaxTotal + MaxSteps * slowest
<1>1. s \in Nat /\ y \in Nat
  BY MachineAssumption, TimingAssumption DEF NoWrap
<1>2. c \in Nat \ {0} /\ \A at \in Nat : at <= y => TargetNs(at) = (at * s) \div c
  <2>1. 0 \in Nat /\ 0 <= y
    BY <1>1
  <2>2. c \in Nat \ {0}
    BY <2>1, TargetType
  <2> QED
    BY <2>2, TargetType
<1>3. Longest(slowest, cfg) = (y * s) \div c
  BY DEF Longest
<1> HIDE DEF c, s, y
<1>4. (y * s) \div c \in Nat
  <2>1. y * s \in Nat
    BY <1>1
  <2> QED
    BY <1>2, <2>1, Quotient
<1>5. ASSUME NEW at \in Nat, at <= y
      PROVE  TargetNs(at) \in Nat /\ TargetNs(at) <= (y * s) \div c
  <2> DEFINE a == at * s
             b == y * s
  <2>1. a \in Nat /\ b \in Nat /\ a <= b
    BY <1>1, <1>5
  <2>2. TargetNs(at) = a \div c
    BY <1>2, <1>5
  <2> HIDE DEF a, b
  <2>3. a \div c \in Nat /\ a \div c <= b \div c
    BY <1>2, <2>1, Quotient, QuotientGrows
  <2> QED
    BY <2>2, <2>3 DEF b
<1> QED
  BY <1>3, <1>4, <1>5 DEF y

\* It holds when the host begins its first call.
LEMMA WallInit ==
    \A slowest : Running /\ NoWrap(slowest) /\ MachineInit => WallInv(slowest)
<1> SUFFICES ASSUME NEW slowest, Running, NoWrap(slowest), MachineInit PROVE WallInv(slowest)
  OBVIOUS
<1>1. PaceInv(slowest)
  BY PaceInit
<1>2. cfg \in Crystals /\ wall = 0 /\ round.steps = 0
  BY DEF MachineInit
<1>3. Longest(slowest, cfg) \in Nat /\ MaxDelay \in Nat
  BY <1>2, LongestType, MachineAssumption
<1>4. 0 <= Longest(slowest, cfg) + 0 * MaxDelay
  <2> DEFINE l == Longest(slowest, cfg)
  <2> HIDE DEF l
  <2>1. l \in Nat
    BY <1>3 DEF l
  <2>2. 0 <= l + 0 * MaxDelay
    BY <1>3, <2>1
  <2> QED
    BY <2>2 DEF l
<1> QED
  BY <1>1, <1>2, <1>4 DEF WallInv

\* Only a round that is paced takes time, and at most MaxDelay more than its cycles.
LEMMA WallNext ==
    ASSUME Running, NEW slowest, NoWrap(slowest), WallInv(slowest), [MachineNext]_allVars
    PROVE  WallInv(slowest)'
<1>1. PaceInv(slowest) /\ PaceInv(slowest)'
  BY PaceNext DEF WallInv
<1>2. cfg \in Crystals /\ wall \in Nat /\ total \in Nat /\ round.steps \in Nat /\ round.cycles \in Nat
  BY <1>1, MachineAssumption DEF PaceInv, NoWrap
<1>3. Longest(slowest, cfg) \in Nat /\ MaxDelay \in Nat
      /\ wall <= Longest(slowest, cfg) + round.steps * MaxDelay
  BY <1>2, LongestType, MachineAssumption DEF WallInv
<1>4. ASSUME cfg' = cfg, wall' = wall, round'.steps = round.steps PROVE WallInv(slowest)'
  <2>1. Longest(slowest, cfg)' = Longest(slowest, cfg)
    BY <1>4 DEF Longest
  <2>2. (wall <= Longest(slowest, cfg) + round.steps * MaxDelay)'
    BY <1>3, <1>4, <2>1
  <2> QED
    BY <1>1, <2>2 DEF WallInv
<1>5. \A n : [round EXCEPT !.cycles = n].steps = round.steps
  BY <1>1 DEF PaceInv
<1>6. ASSUME NEW c, NEW lost, Step(c, lost) PROVE WallInv(slowest)'
  <2>1. PICK n \in CycleCounts : round' = [round EXCEPT !.cycles = n]
    BY <1>6 DEF Step
  <2>2. cfg' = cfg /\ wall' = wall
    BY <1>6 DEF Step
  <2> QED
    BY <1>4, <1>5, <2>1, <2>2
<1>7. CASE RunInstruction
  BY <1>6, <1>7 DEF RunInstruction, StepPlain, StepWriteIE, StepWriteIP, StepWritePCON, StepReti,
     StepClearFlag, StepWriteTR
<1>8. CASE StepInvalid
  BY <1>4, <1>8 DEF StepInvalid, ExecInvalid, machine
<1>9. CASE StepIdle
  BY <1>4, <1>5, <1>9 DEF StepIdle
<1>10. CASE Hooks
  BY <1>4, <1>10 DEF Hooks
<1>11. CASE Pace
  <2> DEFINE at == total + round.cycles
             target == TargetNs(at)
             l == Longest(slowest, cfg)
             x == round.steps * MaxDelay
  <2>1. /\ cfg' = cfg /\ round' = [cycles |-> 0, steps |-> round.steps + 1] /\ total' = at
    BY <1>11 DEF Pace
  <2>2. PICK now \in wall..(wall + MaxDelay), over \in 0..MaxDelay :
           wall' = IF target > now THEN target + over ELSE now
    BY <1>11 DEF Pace
  <2>3. at \in Nat /\ at <= MaxTotal + MaxSteps * slowest
    <3>1. /\ total' <= MaxTotal + round'.steps * slowest /\ round'.steps \in 0..MaxSteps
          /\ total' \in Nat
      BY <1>1 DEF PaceInv
    <3> DEFINE i == round'.steps
               y == i * slowest
               z == MaxSteps * slowest
    <3>2. i \in Nat /\ i <= MaxSteps /\ slowest \in Nat /\ MaxSteps \in Nat /\ MaxTotal \in Nat
      BY <3>1, MachineAssumption DEF NoWrap
    <3>6. total' <= MaxTotal + y
      BY <3>1
    <3> HIDE DEF i, at
    <3>3. y <= z /\ y \in Nat /\ z \in Nat
      BY <3>2
    <3> HIDE DEF y, z
    <3>4. total' <= MaxTotal + z
      BY <3>1, <3>2, <3>3, <3>6
    <3> QED
      BY <2>1, <3>1, <3>4 DEF z
  <2>4. target \in Nat /\ target <= l
    BY <1>2, <2>3, LongestType
  <2>5. x \in Nat /\ wall <= l + x /\ l \in Nat
    BY <1>2, <1>3
  <2> HIDE DEF at, target, l, x
  <2>6. wall' <= l + (x + MaxDelay)
    <3>1. now \in Nat /\ now <= wall + MaxDelay /\ over \in Nat /\ over <= MaxDelay
      BY <1>2, <1>3, <2>2
    <3> QED
      BY <1>2, <1>3, <2>2, <2>4, <2>5, <3>1
  <2>7. (round.steps + 1) * MaxDelay = x + MaxDelay
    BY <1>2, <1>3 DEF x
  <2>8. Longest(slowest, cfg)' = l /\ round'.steps = round.steps + 1
    BY <2>1 DEF Longest, l
  <2>9. (wall <= Longest(slowest, cfg) + round.steps * MaxDelay)'
    BY <2>6, <2>7, <2>8
  <2> QED
    BY <1>1, <2>9 DEF WallInv
<1>12. CASE Return
  BY <1>4, <1>12 DEF Return, machine
<1>13. CASE HostWake
  BY <1>4, <1>13 DEF HostWake, Wake, machine
<1>14. CASE CallAgain
  <2>1. round'.steps = 0 /\ wall' = 0 /\ cfg' = cfg
    BY <1>14 DEF CallAgain
  <2>2. Longest(slowest, cfg)' = Longest(slowest, cfg)
    BY <2>1 DEF Longest
  <2> DEFINE l == Longest(slowest, cfg)
  <2>3. l \in Nat
    BY <1>3
  <2> HIDE DEF l
  <2>4. 0 <= l + 0 * MaxDelay
    BY <1>3, <2>3
  <2>5. (wall <= Longest(slowest, cfg) + round.steps * MaxDelay)'
    BY <2>1, <2>2, <2>4 DEF l
  <2> QED
    BY <1>1, <2>5 DEF WallInv
<1>15. CASE UNCHANGED allVars
  BY <1>4, <1>15 DEF allVars, vars, machine
<1> QED
  BY <1>7, <1>8, <1>9, <1>10, <1>11, <1>12, <1>13, <1>14, <1>15 DEF MachineNext

\* Both builds of mul_div_u64 agree, and the conversions with one another, in every call
\* whose times fit uint64_t (timing.c:24).
THEOREM ConversionsAgreeCorrect ==
    \A slowest : Running /\ NoWrap(slowest) /\ Convertible(slowest) =>
        (MachineSpec => []ConversionsAgree)
<1> SUFFICES ASSUME NEW slowest, Running, NoWrap(slowest), Convertible(slowest)
             PROVE  MachineSpec => []ConversionsAgree
  OBVIOUS
<1> DEFINE I == WallInv(slowest)
<1>1. MachineInit => I
  BY WallInit
<1>2. I /\ [MachineNext]_allVars => I'
  BY WallNext
<1>3. I => ConversionsAgree
  <2> SUFFICES ASSUME I PROVE ConversionsAgree
    OBVIOUS
  <2>1. /\ cfg \in Crystals /\ total \in Nat /\ wall \in Nat /\ round.steps \in 0..MaxSteps
        /\ total <= MaxTotal + round.steps * slowest
        /\ wall <= Longest(slowest, cfg) + round.steps * MaxDelay
    BY DEF WallInv, PaceInv
  <2>2. slowest \in Nat /\ MaxSteps \in Nat /\ MaxTotal \in Nat /\ MaxDelay \in Nat /\ Long \in Nat
        /\ Longest(slowest, cfg) \in Nat /\ Longest(slowest, cfg) + MaxSteps * MaxDelay < Long
    BY <2>1, MachineAssumption, LongestType, Halves DEF NoWrap, Convertible
  <2> DEFINE i == round.steps
             l == Longest(slowest, cfg)
             L == Long
             x == i * slowest
             y == MaxSteps * slowest
             v == i * MaxDelay
             z == MaxSteps * MaxDelay
  <2>3. i \in Nat /\ i <= MaxSteps /\ total <= MaxTotal + x /\ wall <= l + v /\ l + z < L
        /\ l \in Nat /\ L \in Nat
    BY <2>1, <2>2
  <2> HIDE DEF i, l, L
  <2>4. x <= y /\ v <= z /\ x \in Nat /\ y \in Nat /\ v \in Nat /\ z \in Nat
    BY <2>2, <2>3
  <2> HIDE DEF x, y, v, z
  <2>5. total <= MaxTotal + y /\ wall < L
    BY <2>1, <2>2, <2>3, <2>4
  <2>6. total <= MaxTotal + MaxSteps * slowest /\ wall < Long
    BY <2>5 DEF y, L
  <2> QED
    BY <2>1, <2>6, Conversions DEF ConversionsAgree
<1> QED
  BY <1>1, <1>2, <1>3, PTL DEF MachineSpec
===============================================================================
