-------------------------------- MODULE Timing --------------------------------
(***************************************************************************)
(* lib/timing.c: machine cycles and real time.  The conversions multiply   *)
(* and divide 64-bit numbers; a compiler without 128-bit integers gets a   *)
(* version that multiplies halves and divides bit by bit.                  *)
(***************************************************************************)
EXTENDS Naturals

CONSTANTS
    Second,  \* time units in a second: 10^9
    Coarse,  \* coarser units in a second: 10^6
    Width    \* bits of a long integer: 64

ASSUME TimingAssumption ==
    /\ Second \in Nat \ {0} /\ Coarse \in Nat \ {0} /\ Second % Coarse = 0
    /\ Width \in Nat /\ Width % 2 = 0

\* 1 << i
Weight[i \in 0..Width] == IF i = 0 THEN 1 ELSE 2 * Weight[i - 1]

Long == Weight[Width]          \* values of a uint64_t
Half == Weight[Width \div 2]   \* values of a uint32_t

\* The crystal, and how many of its clocks make a machine cycle.
CyclesPerSecond(cfg) == cfg.fosc_hz \div cfg.clocks_per_cycle

\* mul_div_u64 with 128-bit integers.
MulDiv(a, b, c) == ((a * b) \div c) % Long

Upper(x) == x \div Half
Lower(x) == x % Half

\* The halves [hi, lo] of a product; without the carry, the sum that crosses from lo
\* to hi is lost.
ProductNoCarry(a, b) ==
    LET p0 == Lower(a) * Lower(b)
        p1 == Lower(a) * Upper(b)
        p2 == Upper(a) * Lower(b)
        mid == Upper(p0) + Lower(p1) + Lower(p2)
    IN  [hi |-> (Upper(a) * Upper(b) + Upper(p1) + Upper(p2)) % Long,
         lo |-> ((mid * Half) % Long) + Lower(p0)]
Product(a, b) ==
    LET p0 == Lower(a) * Lower(b)
        p1 == Lower(a) * Upper(b)
        p2 == Upper(a) * Lower(b)
        mid == Upper(p0) + Lower(p1) + Lower(p2)
    IN  [hi |-> (Upper(a) * Upper(b) + Upper(p1) + Upper(p2) + Upper(mid)) % Long,
         lo |-> ((mid * Half) % Long) + Lower(p0)]

ProductBit(p, i) ==
    IF i >= Width THEN (p.hi \div Weight[i - Width]) % 2 ELSE (p.lo \div Weight[i]) % 2

\* mul_div_u64 without: long division, whose quotient keeps its lower long.
LongDivision(p, c) ==
    LET after[k \in 0..(2 * Width)] ==
            IF k = 0 THEN [rem |-> 0, q |-> 0]
            ELSE LET before == after[k - 1]
                     i == 2 * Width - k
                     r == ((2 * before.rem) % Long) + ProductBit(p, i)
                     bit == IF i < Width THEN Weight[i] ELSE 0
                 IN  IF r >= c THEN [rem |-> r - c, q |-> before.q + bit]
                     ELSE [before EXCEPT !.rem = r]
    IN  after[2 * Width].q
MulDivHalves(a, b, c) == IF c = 0 THEN 0 ELSE LongDivision(Product(a, b), c)

\* Cycles in units of which a second has rate, and back.
FromCycles(cfg, cycles, rate) ==
    IF CyclesPerSecond(cfg) = 0 THEN 0 ELSE MulDiv(cycles, rate, CyclesPerSecond(cfg))
ToCycles(cfg, t, rate) ==
    IF CyclesPerSecond(cfg) = 0 THEN 0 ELSE MulDiv(t, CyclesPerSecond(cfg), rate)

CyclesToNs(cfg, cycles) == FromCycles(cfg, cycles, Second)
NsToCycles(cfg, ns) == ToCycles(cfg, ns, Second)
CyclesToUs(cfg, cycles) == FromCycles(cfg, cycles, Coarse)
UsToCycles(cfg, us) == ToCycles(cfg, us, Coarse)
=============================================================================
