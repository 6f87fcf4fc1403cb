--------------------------------- MODULE Uart ---------------------------------
(***************************************************************************)
(* lib/uart.c: the serial port.  The transmitter shifts one frame, the     *)
(* receiver counts down one queued frame; both move in uart_tick, which    *)
(* cpu_run calls after every instruction.  Registers are written by        *)
(* firmware through the SFR hooks that uart_attach installs; cpu_reset and *)
(* the timers write some of them past the hooks.                           *)
(***************************************************************************)
EXTENDS Naturals

CONSTANTS
    Bytes,        \* the values of a byte
    TickSizes,    \* the cycles of one uart_tick
    Th1s,         \* the values of TH1
    TimerRate,    \* the rate that Timer 1 gives, by TH1 and SMOD
    FixedRate,    \* the rate of SM0 = 1, SM1 = 0, by SMOD
    ShortFrame,   \* bits of a frame with SM0 = 0: 10
    LongFrame,    \* bits of a frame with SM0 = 1: 11
    SconWrites,   \* what firmware writes to SCON besides TI and RI
    RxFrames,     \* the frames the host queues
    Liberties     \* what firmware and host do beyond waiting for TI, see below

\* "rewrites": firmware writes SBUF while a frame is still being sent.
\* "reconfigures": firmware changes the mode, TR1, TH1 or SMOD meanwhile.
\* "counts": Timer 1 runs in a mode in which it counts TH1 up.
\* "resets": the host calls cpu_reset.
ASSUME UartAssumption ==
    /\ 0 \in Bytes
    /\ TickSizes \subseteq Nat \ {0}
    /\ 0 \in Th1s
    /\ TimerRate \in [Th1s \X BOOLEAN -> [cycles : Nat \ {0}, baud : Nat]]
    /\ FixedRate \in [BOOLEAN -> [cycles : Nat, baud : Nat]]
    /\ \A smod \in BOOLEAN : FixedRate[smod].cycles = 0 <=> FixedRate[smod].baud = 0
    /\ ShortFrame \in Nat \ {0} /\ LongFrame \in Nat \ {0}
    /\ SconWrites \subseteq [mode : 0..3, sm2 : BOOLEAN, ren : BOOLEAN, tb8 : 0..1]
    /\ RxFrames \subseteq [byte : Bytes, bit9 : 0..1]
    /\ Liberties \subseteq {"rewrites", "reconfigures", "counts", "resets"}

VARIABLES
    sfr,          \* SCON, SBUF, TR1, TH1 and SMOD
    bit_cycles,   \* the cycles of a bit, 0 if there is no baud rate
    baud,         \* uart->baud
    tx,           \* the transmitter
    rx,           \* the receiver
    rx_overrun,
    reported,     \* the last baud rate given to the baud callback, 0 at first
    todo,         \* history: bits the frame of the last SBUF write has to shift
    due           \* history: cycles until that frame is complete

vars == <<sfr, bit_cycles, baud, tx, rx, rx_overrun, reported, todo, due>>

Frame == [byte : Bytes, bit9 : 0..1]

Registers == [mode : 0..3, sm2 : BOOLEAN, ren : BOOLEAN, tb8 : 0..1, rb8 : 0..1,
              ti : BOOLEAN, ri : BOOLEAN, sbuf : Bytes, tr1 : BOOLEAN, th1 : Th1s,
              smod : BOOLEAN]

ResetRegisters == [mode |-> 0, sm2 |-> FALSE, ren |-> FALSE, tb8 |-> 0, rb8 |-> 0,
                   ti |-> FALSE, ri |-> FALSE, sbuf |-> 0, tr1 |-> FALSE,
                   th1 |-> 0, smod |-> FALSE]

NoFrame == [byte |-> 0, bit9 |-> 0]

\* uart_init and uart_attach on a CPU that was reset.
Init ==
    /\ sfr = ResetRegisters /\ bit_cycles = 0 /\ baud = 0
    /\ tx = [busy |-> FALSE, bits |-> 0, acc |-> 0, frame |-> NoFrame]
    /\ rx = [pending |-> FALSE, left |-> 0, frame |-> NoFrame]
    /\ rx_overrun = FALSE
    /\ reported = 0
    /\ todo = 0 /\ due = 0

------------------------------------------------------------------------------
\* The baud rate

Timed(s) == s.mode \in {1, 3}
NoRate == [cycles |-> 0, baud |-> 0]

\* The rate that registers select.
Rate(s) ==
    IF s.mode = 2 THEN FixedRate[s.smod]
    ELSE IF Timed(s) /\ s.tr1 THEN TimerRate[<<s.th1, s.smod>>]
    ELSE NoRate

BitTime(s) == Rate(s).cycles

FrameBits(s) == IF s.mode \in {2, 3} THEN LongFrame ELSE ShortFrame

\* A rate that stops is only reported in mode 0: the other modes return early.
Silent(s) == Rate(s) = NoRate /\ s.mode # 0

\* uart_update_baud with the registers s.
UpdateBaudRunning(s) ==
    /\ bit_cycles' = BitTime(s)
    /\ baud' = Rate(s).baud
    /\ reported' = IF baud' = baud \/ baud = 0 \/ Silent(s) THEN reported ELSE baud'
UpdateBaud(s) ==
    /\ bit_cycles' = BitTime(s)
    /\ baud' = Rate(s).baud
    /\ reported' = IF baud' = baud \/ Silent(s) THEN reported ELSE baud'

\* A hooked register is stored first, then the baud rate follows.
WriteRegister(s) == sfr' = s /\ UpdateBaud(s)

------------------------------------------------------------------------------
\* Firmware

MayReconfigure(s) == \/ "reconfigures" \in Liberties
                     \/ ~tx.busy
                     \/ BitTime(s) = bit_cycles /\ s.mode = sfr.mode

WriteScon ==
    /\ \E w \in SconWrites, ti, ri \in BOOLEAN :
        LET s == [sfr EXCEPT !.mode = w.mode, !.sm2 = w.sm2, !.ren = w.ren,
                             !.tb8 = w.tb8, !.ti = ti, !.ri = ri]
        IN  MayReconfigure(s) /\ WriteRegister(s)
    /\ UNCHANGED <<tx, rx, rx_overrun, todo, due>>

\* TCON, TH1 or PCON, or TMOD or TL1, which select no rate but are hooked too.
Timer1Writes ==
    UNION {{[sfr EXCEPT !.tr1 = on] : on \in BOOLEAN},
           {[sfr EXCEPT !.th1 = v] : v \in Th1s},
           {[sfr EXCEPT !.smod = on] : on \in BOOLEAN}}

WriteTimer1 ==
    /\ \E s \in Timer1Writes : MayReconfigure(s) /\ WriteRegister(s)
    /\ UNCHANGED <<tx, rx, rx_overrun, todo, due>>

\* SM0 = 1, SM1 = 0: the byte is exchanged at once with what the host returns.
Exchange ==
    /\ \E b \in Bytes :
          sfr' = [sfr EXCEPT !.sbuf = b, !.ri = TRUE, !.ti = TRUE]
    /\ UNCHANGED <<bit_cycles, baud, reported, tx, todo, due>>

\* Without a baud rate only the byte is replaced.
StartFrame(b, s) ==
    IF BitTime(s) = 0
    THEN [tx EXCEPT !.frame = [byte |-> b, bit9 |-> s.tb8]]
    ELSE [busy |-> TRUE, bits |-> FrameBits(s), acc |-> 0,
          frame |-> [byte |-> b, bit9 |-> s.tb8]]

Transmit(b) ==
    LET s == [sfr EXCEPT !.sbuf = b, !.ti = FALSE]
    IN  /\ WriteRegister(s)
        /\ tx' = StartFrame(b, s)
        /\ todo' = FrameBits(s)
        /\ due' = FrameBits(s) * BitTime(s)

WriteSbuf ==
    /\ "rewrites" \in Liberties \/ ~tx.busy
    /\ IF sfr.mode = 2 THEN Exchange ELSE \E b \in Bytes : Transmit(b)
    /\ UNCHANGED <<rx, rx_overrun>>

------------------------------------------------------------------------------
\* uart_tick

Lesser(a, b) == IF a <= b THEN a ELSE b
Less(a, b) == IF a > b THEN a - b ELSE 0

\* The bits the transmitter shifts in c cycles, and its state after them.
ShiftsOne(c) == IF tx.busy /\ tx.acc + c >= bit_cycles THEN 1 ELSE 0
Shifts(c) == IF tx.busy THEN Lesser((tx.acc + c) \div bit_cycles, tx.bits) ELSE 0

Shifted(c) ==
    IF ~tx.busy THEN tx
    ELSE [tx EXCEPT !.acc = @ + c - Shifts(c) * bit_cycles,
                    !.bits = @ - Shifts(c),
                    !.busy = tx.bits > Shifts(c)]

\* The frame at the end of its countdown: dropped for want of the ninth bit, lost
\* to a byte firmware has not taken, or delivered.
Filtered(s) == s.sm2 /\ rx.frame.bit9 = 0
Overwrites(s) == FALSE
Overruns(s) == ~Filtered(s) /\ s.ri
Delivered(s) == [s EXCEPT !.rb8 = rx.frame.bit9, !.sbuf = rx.frame.byte, !.ri = TRUE]

ActiveBoth == bit_cycles # 0 /\ tx.busy /\ rx.pending
Active == bit_cycles # 0 /\ (tx.busy \/ rx.pending)

Tick(c) ==
    LET s == [sfr EXCEPT !.ti = @ \/ (tx.busy /\ ~Shifted(c).busy)]
        listening == rx.pending /\ sfr.ren
        left == Less(rx.left, c)
        arrived == listening /\ left = 0
    IN  /\ Active
        /\ tx' = Shifted(c)
        /\ rx' = [rx EXCEPT !.pending = listening /\ left > 0,
                            !.left = IF listening THEN left ELSE @]
        /\ sfr' = IF arrived /\ ~Filtered(s) /\ ~Overruns(s) THEN Delivered(s) ELSE s
        /\ rx_overrun' = (rx_overrun \/ (arrived /\ Overruns(s)))
        /\ todo' = Less(todo, Shifts(c))
        /\ due' = Less(due, c)
        /\ UNCHANGED <<bit_cycles, baud, reported>>

UartTick == \E c \in TickSizes : Tick(c)

------------------------------------------------------------------------------
\* The host

\* uart_queue_rx_byte and uart_queue_rx_frame; a byte comes with bit9 = 0.
QueueRx ==
    /\ bit_cycles # 0
    /\ IF rx.pending
       THEN rx_overrun' = TRUE /\ UNCHANGED rx
       ELSE /\ \E f \in RxFrames :
                 rx' = [pending |-> TRUE, left |-> bit_cycles * FrameBits(sfr),
                        frame |-> f]
            /\ UNCHANGED rx_overrun
    /\ UNCHANGED <<sfr, bit_cycles, baud, tx, reported, todo, due>>

\* cpu_reset clears the registers past the hooks and does not know the UART.
CpuReset ==
    /\ "resets" \in Liberties
    /\ sfr' = ResetRegisters
    /\ UNCHANGED <<bit_cycles, baud, tx, rx, rx_overrun, reported, todo, due>>

\* The timers store TH1 past the hook, in the modes in which it counts.
Timer1Counts ==
    /\ "counts" \in Liberties /\ sfr.tr1
    /\ \E v \in Th1s : sfr' = [sfr EXCEPT !.th1 = v]
    /\ UNCHANGED <<bit_cycles, baud, tx, rx, rx_overrun, reported, todo, due>>

Firmware == WriteScon \/ WriteTimer1 \/ WriteSbuf
Host == QueueRx \/ CpuReset
Next == Firmware \/ UartTick \/ Timer1Counts \/ Host

\* cpu_run calls the tick hooks after every instruction.
Spec == Init /\ [][Next]_vars /\ WF_vars(UartTick)

------------------------------------------------------------------------------
\* Properties

LongestFrame == IF LongFrame > ShortFrame THEN LongFrame ELSE ShortFrame

\* The registers and counters stay in their ranges: the shifter never counts
\* below zero bits and is busy exactly while bits remain.
TypeOK ==
    /\ sfr \in Registers
    /\ bit_cycles \in Nat /\ baud \in Nat /\ reported \in Nat
    /\ tx \in [busy : BOOLEAN, bits : 0..LongestFrame, acc : Nat, frame : Frame]
    /\ tx.busy <=> tx.bits > 0
    /\ rx \in [pending : BOOLEAN, left : Nat, frame : Frame]
    /\ rx_overrun \in BOOLEAN
    /\ todo \in 0..LongestFrame /\ due \in Nat

\* A baud callback set before uart_attach has heard of the rate that bits move at:
\* a stop is not reported, so whatever writes, resets and counting come between,
\* the rate after it must be, also if it is the one before the stop.
BaudReported == baud # 0 => reported = baud

\* A frame leaves in the first tick that completes its bit times, all of them
\* since the last write to SBUF and of the rate that the registers selected then:
\* not a cycle or a bit is lost or counted twice where ticks and bits do not line
\* up, and TH1 may count on meanwhile.
OnTime ==
    IF tx.busy
    THEN tx.bits = todo /\ due > 0 /\ due = tx.bits * bit_cycles - tx.acc
    ELSE due = 0

\* A queued frame ends in SBUF, RB8 and RI, unless firmware does not listen,
\* filters it, or has not taken the byte before: then rx_overrun is set, and the
\* byte there and its RB8 are left alone.
RxAccounted ==
    [][ rx.pending /\ ~rx'.pending =>
            \/ ~sfr.ren
            \/ sfr.sm2 /\ rx.frame.bit9 = 0
            \/ sfr.ri /\ rx_overrun' /\ sfr'.sbuf = sfr.sbuf /\ sfr'.rb8 = sfr.rb8
            \/ ~sfr.ri /\ sfr'.ri /\ sfr'.sbuf = rx.frame.byte /\ sfr'.rb8 = rx.frame.bit9 ]_vars

\* A frame on the line is completed if its baud rate does not stop.
Completes == tx.busy ~> (~tx.busy \/ bit_cycles = 0)
=============================================================================
