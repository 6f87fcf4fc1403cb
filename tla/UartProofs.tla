------------------------------ MODULE UartProofs ------------------------------
(* Proofs about Uart, for any bit times, ticks and frame lengths. *)
EXTENDS Uart, TLAPS

\* What the whole bits in n cycles come to.
LEMMA WholeBits ==
    ASSUME NEW n \in Nat, NEW b \in Nat \ {0}
    PROVE  /\ n \div b \in Nat
           /\ (n \div b) * b <= n
           /\ n < (n \div b) * b + b
OBVIOUS

\* Fewer whole bits are fewer cycles.
LEMMA BitsMonotone ==
    ASSUME NEW i \in Nat, NEW j \in Nat, i <= j, NEW b \in Nat
    PROVE  i * b <= j * b
<1>1. PICK d \in Nat : j = i + d
  <2> WITNESS j - i \in Nat
  <2> QED
    OBVIOUS
<1>2. j * b = i * b + d * b /\ d * b \in Nat
  BY <1>1
<1> QED
  BY <1>2

LEMMA RateType ==
    ASSUME NEW s \in Registers
    PROVE  /\ Rate(s) \in [cycles : Nat, baud : Nat]
           /\ Timed(s) => (BitTime(s) # 0 <=> s.tr1)
           /\ BitTime(s) # 0 => s.mode = 2 \/ (Timed(s) /\ s.tr1)
<1>1. s.th1 \in Th1s /\ s.smod \in BOOLEAN /\ s.tr1 \in BOOLEAN
  BY DEF Registers
<1>2. NoRate \in [cycles : Nat, baud : Nat] /\ NoRate.cycles = 0
  BY DEF NoRate
<1>3. FixedRate[s.smod] \in [cycles : Nat, baud : Nat]
  <2>1. FixedRate \in [BOOLEAN -> [cycles : Nat, baud : Nat]]
    BY UartAssumption
  <2> QED
    BY <1>1, <2>1, Zenon
<1>4. TimerRate[<<s.th1, s.smod>>] \in [cycles : Nat \ {0}, baud : Nat]
  <2>1. TimerRate \in [Th1s \X BOOLEAN -> [cycles : Nat \ {0}, baud : Nat]]
    BY UartAssumption
  <2>2. <<s.th1, s.smod>> \in Th1s \X BOOLEAN
    BY <1>1, Zenon
  <2> QED
    BY <2>1, <2>2, Zenon
<1>5. /\ TimerRate[<<s.th1, s.smod>>] \in [cycles : Nat, baud : Nat]
      /\ TimerRate[<<s.th1, s.smod>>].cycles # 0
  <2>1. ASSUME NEW r \in [cycles : Nat \ {0}, baud : Nat]
        PROVE  r \in [cycles : Nat, baud : Nat] /\ r.cycles # 0
    OBVIOUS
  <2> QED
    BY <1>4, <2>1, Zenon
<1>6. Timed(s) => s.mode # 2
  BY DEF Timed
<1>7. CASE s.mode = 2
  <2>1. Rate(s) = FixedRate[s.smod]
    BY <1>7 DEF Rate
  <2> QED
    BY <1>3, <1>6, <1>7, <2>1
<1>8. CASE s.mode # 2 /\ Timed(s) /\ s.tr1
  <2>1. Rate(s) = TimerRate[<<s.th1, s.smod>>]
    BY <1>8, Zenon DEF Rate
  <2> QED
    BY <1>1, <1>5, <1>8, <2>1 DEF BitTime
<1>9. CASE s.mode # 2 /\ ~(Timed(s) /\ s.tr1)
  <2>1. Rate(s) = NoRate
    BY <1>9, Zenon DEF Rate
  <2> QED
    BY <1>1, <1>2, <1>9, <2>1 DEF BitTime
<1> QED
  BY <1>7, <1>8, <1>9

LEMMA BitTimeType ==
    ASSUME NEW s \in Registers
    PROVE  BitTime(s) \in Nat /\ Rate(s).baud \in Nat
BY RateType DEF BitTime

LEMMA FrameBitsType ==
    ASSUME NEW s \in Registers
    PROVE  FrameBits(s) \in 1..LongestFrame
BY UartAssumption DEF FrameBits, LongestFrame

\* The shifter takes no more bits than it has and no more cycles than there are.
LEMMA ShiftsBound ==
    ASSUME TypeOK, bit_cycles # 0, NEW c \in TickSizes
    PROVE  /\ c \in Nat \ {0} /\ bit_cycles \in Nat \ {0}
           /\ Shifts(c) \in 0..tx.bits
           /\ Shifts(c) * bit_cycles \in Nat
           /\ tx.busy => Shifts(c) * bit_cycles <= tx.acc + c
<1>1. c \in Nat \ {0} /\ bit_cycles \in Nat \ {0}
  BY UartAssumption DEF TypeOK
<1>2. tx.bits \in Nat /\ tx.acc \in Nat
  BY UartAssumption DEF TypeOK, LongestFrame
<1>3. CASE ~tx.busy
  <2>1. Shifts(c) = 0
    BY <1>3 DEF Shifts
  <2> QED
    BY <1>1, <1>2, <1>3, <2>1
<1>4. CASE tx.busy
  <2> DEFINE q == (tx.acc + c) \div bit_cycles
  <2>1. q \in Nat /\ q * bit_cycles <= tx.acc + c
    <3>1. tx.acc + c \in Nat
      BY <1>1, <1>2
    <3> QED
      BY <1>1, <3>1, WholeBits
  <2>2. Shifts(c) \in Nat /\ Shifts(c) <= q /\ Shifts(c) <= tx.bits
    BY <1>2, <1>4, <2>1 DEF Shifts, Lesser
  <2>3. Shifts(c) * bit_cycles <= q * bit_cycles /\ Shifts(c) * bit_cycles \in Nat
    <3> HIDE DEF q
    <3> QED
      BY <1>1, <2>1, <2>2, BitsMonotone
  <2>4. q * bit_cycles \in Nat
    <3> HIDE DEF q
    <3> QED
      BY <1>1, <2>1
  <2> HIDE DEF q
  <2> QED
    BY <1>1, <1>2, <2>1, <2>2, <2>3, <2>4
<1> QED
  BY <1>3, <1>4

LEMMA ShiftedType ==
    ASSUME TypeOK, bit_cycles # 0, NEW c \in TickSizes
    PROVE  /\ Shifted(c) \in [busy : BOOLEAN, bits : 0..LongestFrame, acc : Nat, frame : Frame]
           /\ Shifted(c).busy <=> Shifted(c).bits > 0
<1>1. CASE ~tx.busy
  BY <1>1 DEF Shifted, TypeOK
<1>2. CASE tx.busy
  <2> DEFINE n == Shifts(c)
             m == n * bit_cycles
             more == tx.bits > n
  <2>1. c \in Nat /\ n \in 0..tx.bits /\ m \in Nat /\ m <= tx.acc + c
    BY <1>2, ShiftsBound
  <2>2. Shifted(c) = [tx EXCEPT !.acc = @ + c - m, !.bits = @ - n, !.busy = more]
    BY <1>2 DEF Shifted
  <2>3. LongestFrame \in Nat
    BY UartAssumption DEF LongestFrame
  <2> HIDE DEF m, n
  <2>4. more \in BOOLEAN /\ (more <=> tx.bits - n > 0)
    BY <2>1, <2>3 DEF TypeOK
  <2>5. /\ tx.acc + c - m \in Nat /\ tx.bits - n \in 0..LongestFrame
        /\ tx.frame \in Frame
        /\ tx = [busy |-> tx.busy, bits |-> tx.bits, acc |-> tx.acc, frame |-> tx.frame]
    BY <2>1, <2>3 DEF TypeOK
  <2>6. Shifted(c) = [busy |-> more, bits |-> tx.bits - n, acc |-> tx.acc + c - m,
                      frame |-> tx.frame]
    <3> HIDE DEF more
    <3> QED
      BY <2>2, <2>5
  <2> HIDE DEF more
  <2> QED
    BY <2>4, <2>5, <2>6
<1> QED
  BY <1>1, <1>2

------------------------------------------------------------------------------
\* The type invariant

LEMMA TypeInit == Init => TypeOK
<1> SUFFICES ASSUME Init PROVE TypeOK
  OBVIOUS
<1>1. LongestFrame \in Nat
  BY UartAssumption DEF LongestFrame
<1>2. sfr \in Registers
  BY UartAssumption DEF Init, Registers, ResetRegisters
<1>3. tx \in [busy : BOOLEAN, bits : 0..LongestFrame, acc : Nat, frame : Frame]
      /\ rx \in [pending : BOOLEAN, left : Nat, frame : Frame]
  BY <1>1, UartAssumption DEF Init, NoFrame, Frame
<1>4. tx.busy <=> tx.bits > 0
  BY DEF Init
<1>5. bit_cycles = 0 /\ baud = 0 /\ reported = 0 /\ rx_overrun \in BOOLEAN /\ todo = 0 /\ due = 0
  BY DEF Init
<1> QED
  BY <1>1, <1>2, <1>3, <1>4, <1>5 DEF TypeOK

\* What a write of a hooked register leaves in range.
LEMMA WriteTypes ==
    ASSUME TypeOK, NEW s \in Registers, WriteRegister(s)
    PROVE  /\ sfr' \in Registers
           /\ bit_cycles' \in Nat /\ baud' \in Nat /\ reported' \in Nat
BY BitTimeType DEF TypeOK, WriteRegister, UpdateBaud

LEMMA Timer1WritesType ==
    ASSUME TypeOK, NEW s \in Timer1Writes
    PROVE  s \in Registers /\ s.mode = sfr.mode
BY DEF Timer1Writes, TypeOK, Registers

LEMMA TypeStep == TypeOK /\ [Next]_vars => TypeOK'
<1> SUFFICES ASSUME TypeOK, [Next]_vars PROVE TypeOK'
  OBVIOUS
<1>1. CASE WriteScon
  <2>1. PICK w \in SconWrites, ti \in BOOLEAN, ri \in BOOLEAN :
            WriteRegister([sfr EXCEPT !.mode = w.mode, !.sm2 = w.sm2, !.ren = w.ren,
                                      !.tb8 = w.tb8, !.ti = ti, !.ri = ri])
    BY <1>1 DEF WriteScon
  <2>2. [sfr EXCEPT !.mode = w.mode, !.sm2 = w.sm2, !.ren = w.ren,
                    !.tb8 = w.tb8, !.ti = ti, !.ri = ri] \in Registers
    BY UartAssumption DEF TypeOK, Registers
  <2> QED
    BY <1>1, <2>1, <2>2, WriteTypes DEF WriteScon, TypeOK
<1>2. CASE WriteTimer1
  <2>1. PICK s \in Timer1Writes : WriteRegister(s)
    BY <1>2 DEF WriteTimer1
  <2>2. s \in Registers
    BY Timer1WritesType
  <2> QED
    BY <1>2, <2>1, <2>2, WriteTypes DEF WriteTimer1, TypeOK
<1>3. CASE WriteSbuf
  <2>1. CASE sfr.mode = 2
    BY <1>3, <2>1 DEF WriteSbuf, Exchange, TypeOK, Registers
  <2>2. CASE sfr.mode # 2
    <3>1. PICK b \in Bytes : Transmit(b)
      BY <1>3, <2>2 DEF WriteSbuf
    <3> DEFINE s == [sfr EXCEPT !.sbuf = b, !.ti = FALSE]
    <3>2. s \in Registers
      BY DEF TypeOK, Registers
    <3>3. BitTime(s) \in Nat /\ FrameBits(s) \in 1..LongestFrame /\ s.tb8 \in 0..1
      BY <3>2, BitTimeType, FrameBitsType DEF Registers
    <3>4. LongestFrame \in Nat
      BY UartAssumption DEF LongestFrame
    <3>5. WriteRegister(s) /\ tx' = StartFrame(b, s) /\ todo' = FrameBits(s)
          /\ due' = FrameBits(s) * BitTime(s)
      BY <3>1 DEF Transmit
    <3> HIDE DEF s
    <3>6. /\ tx' \in [busy : BOOLEAN, bits : 0..LongestFrame, acc : Nat, frame : Frame]
          /\ tx'.busy <=> tx'.bits > 0
      BY <3>3, <3>4, <3>5 DEF StartFrame, TypeOK, Frame
    <3>7. due' \in Nat /\ todo' \in 0..LongestFrame
      BY <3>3, <3>4, <3>5
    <3> QED
      BY <1>3, <3>2, <3>5, <3>6, <3>7, WriteTypes DEF WriteSbuf, TypeOK
  <2> QED
    BY <2>1, <2>2
<1>4. CASE UartTick
  <2>1. PICK c \in TickSizes : Tick(c)
    BY <1>4 DEF UartTick
  <2>2. bit_cycles # 0
    BY <2>1 DEF Tick, Active
  <2>3. c \in Nat /\ Shifts(c) \in Nat /\ LongestFrame \in Nat
    BY <2>2, ShiftsBound, UartAssumption DEF TypeOK, LongestFrame
  <2>4. todo' \in 0..LongestFrame /\ due' \in Nat
    BY <2>1, <2>3 DEF Tick, Less, TypeOK
  <2>5. rx' \in [pending : BOOLEAN, left : Nat, frame : Frame] /\ rx_overrun' \in BOOLEAN
    <3> DEFINE listening == rx.pending /\ sfr.ren
               left == Less(rx.left, c)
               pending == listening /\ left > 0
    <3>1. /\ rx' = [rx EXCEPT !.pending = pending, !.left = IF listening THEN left ELSE @]
          /\ rx_overrun' \in BOOLEAN
      BY <2>1 DEF Tick
    <3>2. left \in Nat /\ pending \in BOOLEAN
      BY <2>3 DEF Less, TypeOK
    <3> HIDE DEF listening, left, pending
    <3> QED
      BY <3>1, <3>2 DEF TypeOK
  <2>6. sfr' \in Registers
    BY <2>1 DEF Tick, TypeOK, Delivered, Registers, Frame
  <2> QED
    BY <2>1, <2>2, <2>4, <2>5, <2>6, ShiftedType DEF Tick, TypeOK
<1>5. CASE QueueRx
  <2>1. bit_cycles \in Nat /\ LongestFrame \in Nat /\ FrameBits(sfr) \in 1..LongestFrame
    BY FrameBitsType, UartAssumption DEF TypeOK, LongestFrame
  <2>2. bit_cycles * FrameBits(sfr) \in Nat
    BY <2>1
  <2>3. RxFrames \subseteq Frame
    BY UartAssumption DEF Frame
  <2>4. rx' \in [pending : BOOLEAN, left : Nat, frame : Frame] /\ rx_overrun' \in BOOLEAN
    <3>1. CASE rx.pending
      BY <1>5, <3>1 DEF QueueRx, TypeOK
    <3>2. CASE ~rx.pending
      <4> DEFINE left == bit_cycles * FrameBits(sfr)
      <4>1. PICK f \in Frame : rx' = [pending |-> TRUE, left |-> left, frame |-> f]
        BY <1>5, <2>3, <3>2 DEF QueueRx
      <4>2. rx_overrun' = rx_overrun /\ rx_overrun \in BOOLEAN
        BY <1>5, <3>2 DEF QueueRx, TypeOK
      <4> HIDE DEF left
      <4> QED
        BY <2>2, <4>1, <4>2 DEF left
    <3> QED
      BY <3>1, <3>2
  <2> QED
    BY <1>5, <2>4 DEF QueueRx, TypeOK
<1>6. CASE CpuReset
  <2>1. ResetRegisters \in Registers
    BY UartAssumption DEF Registers, ResetRegisters
  <2> QED
    BY <1>6, <2>1 DEF CpuReset, TypeOK
<1>7. CASE Timer1Counts
  BY <1>7 DEF Timer1Counts, TypeOK, Registers
<1>8. CASE UNCHANGED vars
  BY <1>8 DEF vars, TypeOK
<1> QED
  BY <1>1, <1>2, <1>3, <1>4, <1>5, <1>6, <1>7, <1>8 DEF Next, Firmware, Host

\* Registers, shifter and countdowns stay in their ranges; the transmitter is busy
\* exactly while it has bits left (uart.c:229).
THEOREM TypeCorrect == Spec => []TypeOK
BY TypeInit, TypeStep, PTL DEF Spec

------------------------------------------------------------------------------
\* The transmitter, where firmware does not change the baud rate of a frame on the
\* line and the host does not reset the CPU past the UART.  TH1 may count.

\* One tick: the bits left and the cycles due go down together, and a frame is done
\* in the tick that its last cycle is in.
LEMMA TickOnTime ==
    ASSUME TypeOK, OnTime, NEW c \in TickSizes, Tick(c)
    PROVE  OnTime'
<1> DEFINE n == Shifts(c)
           m == n * bit_cycles
<1>1. /\ bit_cycles \in Nat \ {0} /\ c \in Nat \ {0} /\ n \in 0..tx.bits /\ m \in Nat
      /\ tx.bits \in Nat /\ tx.acc \in Nat /\ due \in Nat
  BY ShiftsBound, UartAssumption DEF Tick, Active, TypeOK, LongestFrame
<1>2. /\ tx' = Shifted(c) /\ bit_cycles' = bit_cycles
      /\ todo' = Less(todo, n) /\ due' = Less(due, c)
  BY DEF Tick
<1>3. CASE ~tx.busy
  BY <1>1, <1>2, <1>3 DEF OnTime, Shifted, Less
<1>4. CASE tx.busy
  <2> DEFINE total == tx.bits * bit_cycles
             rest == (tx.bits - n) * bit_cycles
  <2>1. tx.bits = todo /\ due > 0 /\ due = total - tx.acc
    BY <1>4 DEF OnTime
  <2>2. /\ tx'.busy <=> tx.bits > n
        /\ tx'.bits = tx.bits - n /\ tx'.acc = tx.acc + c - m
    BY <1>2, <1>4 DEF Shifted, TypeOK
  <2>3. total \in Nat /\ rest \in Nat /\ rest = total - m
    BY <1>1
  <2>4. CASE tx.bits > n
    <3> DEFINE q == (tx.acc + c) \div bit_cycles
               cycles == q * bit_cycles
    <3>1. q \in Nat /\ tx.acc + c < cycles + bit_cycles
      <4>1. tx.acc + c \in Nat
        BY <1>1
      <4> QED
        BY <1>1, <4>1, WholeBits
    <3>2. n = q
      <4> HIDE DEF q
      <4>1. n = Lesser(q, tx.bits)
        BY <1>4 DEF Shifts, q
      <4> QED
        BY <1>1, <2>4, <3>1, <4>1 DEF Lesser
    <3>3. (n + 1) * bit_cycles <= total /\ (n + 1) * bit_cycles = m + bit_cycles
      <4> HIDE DEF n
      <4> QED
        BY <1>1, <2>4, BitsMonotone
    <3>4. cycles = m
      BY <3>2
    <3> HIDE DEF q, n, m, total, rest, cycles
    <3>5. tx.acc + c < total
      BY <1>1, <2>3, <3>1, <3>3, <3>4
    <3>6. due' = total - tx.acc - c /\ due' > 0 /\ todo' = todo - n
      BY <1>1, <1>2, <2>1, <2>3, <2>4, <3>5 DEF Less
    <3>7. tx'.bits = todo' /\ due' = rest - tx'.acc
      BY <1>1, <2>1, <2>2, <2>3, <3>6
    <3>8. tx'.bits * bit_cycles' = rest
      BY <1>2, <2>2 DEF rest
    <3> QED
      BY <2>2, <2>4, <3>6, <3>7, <3>8 DEF OnTime
  <2>5. CASE tx.bits = n
    <3>1. m <= tx.acc + c /\ m = total
      BY <1>4, <2>5, ShiftsBound DEF Tick, Active
    <3> HIDE DEF n, m, total
    <3>2. due' = 0
      BY <1>1, <1>2, <2>1, <2>3, <3>1 DEF Less
    <3>3. ~tx'.busy
      BY <1>1, <2>2, <2>5
    <3> QED
      BY <3>2, <3>3 DEF OnTime
  <2> QED
    BY <1>1, <2>4, <2>5
<1> QED
  BY <1>3, <1>4

\* A frame on the line has a bit time.
LEMMA BusyRate ==
    ASSUME TypeOK, OnTime, tx.busy
    PROVE  bit_cycles # 0
<1>1. SUFFICES ASSUME bit_cycles = 0 PROVE FALSE
  OBVIOUS
<1>2. tx.bits \in Nat /\ tx.acc \in Nat
  BY UartAssumption DEF TypeOK, LongestFrame
<1>3. tx.bits * bit_cycles = 0
  BY <1>1, <1>2
<1> QED
  BY <1>2, <1>3 DEF OnTime

\* A write that keeps the transmitter and its bit time keeps its schedule.
LEMMA KeepsSchedule ==
    ASSUME OnTime, tx' = tx, todo' = todo, due' = due, bit_cycles' = bit_cycles \/ ~tx.busy
    PROVE  OnTime'
BY DEF OnTime

\* A frame on the line has its bit time from a running Timer 1.
StillTimed == tx.busy => Timed(sfr) /\ sfr.tr1

SendInv == TypeOK /\ StillTimed /\ OnTime

LEMMA SendInit == Init => SendInv
<1> SUFFICES ASSUME Init PROVE SendInv
  OBVIOUS
<1>1. StillTimed /\ OnTime
  BY DEF Init, StillTimed, OnTime
<1> QED
  BY <1>1, TypeInit DEF SendInv

\* A write of a register leaves a frame on the line its mode and bit time.
LEMMA WriteOnTime ==
    ASSUME "reconfigures" \notin Liberties, SendInv, NEW s \in Registers,
           s.mode = sfr.mode \/ s.tr1 = sfr.tr1,
           MayReconfigure(s), WriteRegister(s), UNCHANGED <<tx, todo, due>>
    PROVE  StillTimed' /\ OnTime'
<1>1. CASE ~tx.busy
  BY <1>1, KeepsSchedule DEF SendInv, StillTimed
<1>2. CASE tx.busy
  <2>1. BitTime(s) = bit_cycles /\ s.mode = sfr.mode
    BY <1>2 DEF MayReconfigure
  <2>2. bit_cycles # 0
    BY <1>2, BusyRate DEF SendInv
  <2>3. Timed(s)
    BY <1>2, <2>1 DEF SendInv, StillTimed, Timed
  <2>4. s.tr1
    BY <2>1, <2>2, <2>3, RateType
  <2>5. sfr' = s /\ bit_cycles' = bit_cycles
    BY <2>1 DEF WriteRegister, UpdateBaud
  <2> QED
    BY <2>3, <2>4, <2>5, KeepsSchedule DEF SendInv, StillTimed
<1> QED
  BY <1>1, <1>2

\* A write to SBUF starts a frame of the rate that the registers select now.
LEMMA TransmitOnTime ==
    ASSUME SendInv, sfr.mode # 2, NEW b \in Bytes, Transmit(b)
    PROVE  StillTimed' /\ OnTime'
<1> DEFINE s == [sfr EXCEPT !.sbuf = b, !.ti = FALSE]
           total == FrameBits(s) * BitTime(s)
<1>1. s \in Registers /\ s.mode = sfr.mode /\ s.tr1 = sfr.tr1
  BY DEF SendInv, TypeOK, Registers
<1>2. /\ sfr' = s /\ bit_cycles' = BitTime(s) /\ tx' = StartFrame(b, s)
      /\ todo' = FrameBits(s) /\ due' = total
  BY DEF Transmit, WriteRegister, UpdateBaud
<1>3. FrameBits(s) \in Nat \ {0} /\ BitTime(s) \in Nat
  <2>1. FrameBits(s) \in 1..LongestFrame /\ LongestFrame \in Nat
    BY <1>1, FrameBitsType, UartAssumption DEF LongestFrame
  <2> QED
    BY <1>1, <2>1, BitTimeType
<1> HIDE DEF s
<1>4. CASE BitTime(s) = 0
  <2>1. ~tx.busy
    BY <1>1, <1>4, RateType DEF SendInv, StillTimed, Timed
  <2>2. tx'.busy = tx.busy
    BY <1>2, <1>4 DEF StartFrame, SendInv, TypeOK
  <2>3. due' = 0
    BY <1>2, <1>3, <1>4
  <2> QED
    BY <2>1, <2>2, <2>3 DEF OnTime, StillTimed
<1>5. CASE BitTime(s) # 0
  <2>1. Timed(s) /\ s.tr1
    BY <1>1, <1>5, RateType
  <2>2. total \in Nat /\ total > 0
    BY <1>3, <1>5
  <2>3. tx'.busy /\ tx'.bits = FrameBits(s) /\ tx'.acc = 0
    BY <1>2, <1>5 DEF StartFrame
  <2>4. tx'.bits * bit_cycles' = total
    BY <1>2, <2>3
  <2> HIDE DEF total
  <2> QED
    BY <1>2, <2>1, <2>2, <2>3, <2>4 DEF OnTime, StillTimed
<1> QED
  BY <1>4, <1>5

LEMMA SendStep ==
    ASSUME Liberties \subseteq {"rewrites", "counts"}, SendInv, [Next]_vars
    PROVE  SendInv'
<1>0. ~CpuReset /\ "reconfigures" \notin Liberties
  BY DEF CpuReset
<1>1. TypeOK /\ TypeOK' /\ OnTime /\ StillTimed
  BY TypeStep DEF SendInv
<1> SUFFICES StillTimed' /\ OnTime'
  BY <1>1 DEF SendInv
<1>3. CASE WriteScon
  <2>1. PICK w \in SconWrites, ti \in BOOLEAN, ri \in BOOLEAN :
            LET s == [sfr EXCEPT !.mode = w.mode, !.sm2 = w.sm2, !.ren = w.ren,
                                 !.tb8 = w.tb8, !.ti = ti, !.ri = ri]
            IN  MayReconfigure(s) /\ WriteRegister(s)
    BY <1>3 DEF WriteScon
  <2> DEFINE s == [sfr EXCEPT !.mode = w.mode, !.sm2 = w.sm2, !.ren = w.ren,
                              !.tb8 = w.tb8, !.ti = ti, !.ri = ri]
  <2>2. s \in Registers /\ s.tr1 = sfr.tr1
    BY <1>1, UartAssumption DEF TypeOK, Registers
  <2>3. MayReconfigure(s) /\ WriteRegister(s)
    BY <2>1
  <2>4. UNCHANGED <<tx, todo, due>>
    BY <1>3 DEF WriteScon
  <2> HIDE DEF s
  <2> QED
    BY <1>0, <2>2, <2>3, <2>4, WriteOnTime
<1>4. CASE WriteTimer1
  <2>1. PICK s \in Timer1Writes : MayReconfigure(s) /\ WriteRegister(s)
    BY <1>4 DEF WriteTimer1
  <2>2. s \in Registers /\ s.mode = sfr.mode /\ UNCHANGED <<tx, todo, due>>
    BY <1>1, <1>4, Timer1WritesType DEF WriteTimer1
  <2> QED
    BY <1>0, <2>1, <2>2, WriteOnTime
<1>5. CASE WriteSbuf
  <2>1. CASE sfr.mode = 2
    <3>1. ~tx.busy
      BY <1>1, <2>1 DEF StillTimed, Timed
    <3> QED
      BY <1>1, <1>5, <2>1, <3>1, KeepsSchedule DEF WriteSbuf, Exchange, StillTimed
  <2>2. CASE sfr.mode # 2
    BY <1>5, <2>2, TransmitOnTime DEF WriteSbuf
  <2> QED
    BY <2>1, <2>2
<1>6. CASE UartTick
  <2>1. PICK c \in TickSizes : Tick(c)
    BY <1>6 DEF UartTick
  <2>2. OnTime'
    BY <1>1, <2>1, TickOnTime
  <2>3. sfr'.mode = sfr.mode /\ sfr'.tr1 = sfr.tr1
    BY <1>1, <2>1 DEF Tick, Delivered, TypeOK, Registers
  <2>4. tx'.busy => tx.busy
    BY <1>1, <2>1 DEF Tick, Shifted, TypeOK
  <2> QED
    BY <1>1, <2>2, <2>3, <2>4 DEF StillTimed, Timed
<1>7. CASE Timer1Counts
  <2>1. sfr'.mode = sfr.mode /\ sfr'.tr1 = sfr.tr1 /\ tx' = tx
    BY <1>1, <1>7 DEF Timer1Counts, TypeOK, Registers
  <2> QED
    BY <1>1, <1>7, <2>1, KeepsSchedule DEF Timer1Counts, StillTimed, Timed
<1>8. CASE QueueRx \/ UNCHANGED vars
  BY <1>1, <1>8, KeepsSchedule DEF QueueRx, vars, StillTimed, Timed
<1> QED
  BY <1>0, <1>3, <1>4, <1>5, <1>6, <1>7, <1>8 DEF Next, Firmware, Host

\* A frame leaves in the first tick that completes its bit times (uart.c:246),
\* however ticks and bits are sized, also while Timer 1 counts TH1 past the hook:
\* no write but one to SBUF may take the stale bit time for another.
THEOREM OnTimeCorrect ==
    ASSUME Liberties \subseteq {"rewrites", "counts"}
    PROVE  Spec => []OnTime
<1>1. SendInv /\ [Next]_vars => SendInv'
  BY SendStep
<1> QED
  BY <1>1, SendInit, PTL DEF Spec, SendInv

------------------------------------------------------------------------------
\* The baud rate

LEMMA ReportedStep ==
    ASSUME BaudReported, [Next]_vars
    PROVE  BaudReported'
<1>1. ASSUME NEW s, WriteRegister(s)
      PROVE  BaudReported'
  <2>1. Silent(s) => baud' = 0
    BY <1>1 DEF WriteRegister, UpdateBaud, Silent, NoRate
  <2> QED
    BY <1>1, <2>1 DEF WriteRegister, UpdateBaud, BaudReported
<1>2. CASE WriteScon \/ WriteTimer1
  BY <1>1, <1>2 DEF WriteScon, WriteTimer1
<1>3. CASE WriteSbuf
  <2>1. CASE sfr.mode = 2
    BY <1>3, <2>1 DEF WriteSbuf, Exchange, BaudReported
  <2>2. CASE sfr.mode # 2
    BY <1>1, <1>3, <2>2 DEF WriteSbuf, Transmit
  <2> QED
    BY <2>1, <2>2
<1>4. CASE UartTick
  BY <1>4 DEF UartTick, Tick, BaudReported
<1>5. CASE Timer1Counts \/ Host \/ UNCHANGED vars
  BY <1>5 DEF Timer1Counts, Host, QueueRx, CpuReset, vars, BaudReported
<1> QED
  BY <1>2, <1>3, <1>4, <1>5 DEF Next, Firmware

\* The host's callback has heard of the rate that the UART runs at (uart.c:57 to
\* 117), through stops that are not reported, resets and stale registers.
THEOREM BaudReportedCorrect == Spec => []BaudReported
<1>1. Init => BaudReported
  BY DEF Init, BaudReported
<1> QED
  BY <1>1, ReportedStep, PTL DEF Spec

------------------------------------------------------------------------------
\* The receiver

LEMMA ReceiveStep ==
    ASSUME TypeOK, [Next]_vars, rx.pending, ~rx'.pending
    PROVE  \/ ~sfr.ren
           \/ sfr.sm2 /\ rx.frame.bit9 = 0
           \/ sfr.ri /\ rx_overrun' /\ sfr'.sbuf = sfr.sbuf /\ sfr'.rb8 = sfr.rb8
           \/ ~sfr.ri /\ sfr'.ri /\ sfr'.sbuf = rx.frame.byte /\ sfr'.rb8 = rx.frame.bit9
<1>1. CASE UartTick
  <2>1. PICK c \in TickSizes : Tick(c)
    BY <1>1 DEF UartTick
  <2> DEFINE s == [sfr EXCEPT !.ti = @ \/ (tx.busy /\ ~Shifted(c).busy)]
             left == Less(rx.left, c)
  <2>2. s.ri = sfr.ri /\ s.sm2 = sfr.sm2 /\ s.sbuf = sfr.sbuf /\ s.rb8 = sfr.rb8
        /\ s \in Registers
    BY DEF TypeOK, Registers
  <2>3. left \in Nat
    BY UartAssumption DEF Less, TypeOK
  <2>4. sfr.ren /\ left > 0 => rx'.pending
    BY <2>1 DEF Tick, TypeOK
  <2>5. /\ sfr' = IF rx.pending /\ sfr.ren /\ left = 0 /\ ~Filtered(s) /\ ~Overruns(s)
                  THEN Delivered(s) ELSE s
        /\ rx_overrun' = (rx_overrun \/ (rx.pending /\ sfr.ren /\ left = 0 /\ Overruns(s)))
    BY <2>1 DEF Tick
  <2> HIDE DEF s, left
  <2>6. CASE ~sfr.ren
    BY <2>6
  <2>7. CASE sfr.ren
    <3>1. left = 0
      BY <2>3, <2>4, <2>7
    <3>2. CASE Filtered(s)
      BY <2>2, <3>2 DEF Filtered
    <3>3. CASE Overruns(s)
      BY <2>2, <2>5, <2>7, <3>1, <3>3 DEF Overruns
    <3>4. CASE ~Filtered(s) /\ ~Overruns(s)
      BY <2>2, <2>5, <2>7, <3>1, <3>4 DEF Overruns, Delivered, Registers
    <3> QED
      BY <3>2, <3>3, <3>4
  <2> QED
    BY <2>6, <2>7
<1>2. CASE Firmware \/ Timer1Counts \/ Host \/ UNCHANGED vars
  BY <1>2 DEF Firmware, WriteScon, WriteTimer1, WriteSbuf, Exchange, Host, QueueRx,
              CpuReset, Timer1Counts, vars
<1> QED
  BY <1>1, <1>2 DEF Next

\* No queued frame disappears without a trace (uart.c:267), whatever firmware and
\* host do in between.
THEOREM RxAccountedCorrect == Spec => RxAccounted
<1>1. TypeOK /\ [Next]_vars =>
        [ rx.pending /\ ~rx'.pending =>
            \/ ~sfr.ren
            \/ sfr.sm2 /\ rx.frame.bit9 = 0
            \/ sfr.ri /\ rx_overrun' /\ sfr'.sbuf = sfr.sbuf /\ sfr'.rb8 = sfr.rb8
            \/ ~sfr.ri /\ sfr'.ri /\ sfr'.sbuf = rx.frame.byte /\ sfr'.rb8 = rx.frame.bit9 ]_vars
  BY ReceiveStep
<1> QED
  BY <1>1, TypeCorrect, PTL DEF Spec, RxAccounted
=============================================================================
