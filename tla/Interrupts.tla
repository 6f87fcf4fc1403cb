------------------------------ MODULE Interrupts ------------------------------
(***************************************************************************)
(* The interrupt controller and the low-power states of lib/cpu.c,         *)
(* together with the loop of cpu_run that drives them.  An instruction is  *)
(* abstracted to what it does to the controller; the return addresses in   *)
(* internal RAM are abstracted to the routine they lead back to.           *)
(***************************************************************************)
EXTENDS Naturals, Sequences

CONSTANTS
    Fitted,     \* the interrupt sources in use
    Lines,      \* the external interrupt pins the host drives
    IEWrites,   \* what firmware writes to IE
    IPWrites,   \* what firmware writes to IP
    Liberties   \* what undisciplined firmware does, see below

Sources == {"INT0", "T0", "INT1", "T1", "SERIAL", "T2"}
Pins == {"INT0", "INT1"}

\* "stray_returns": an ISR ends in RET, or RETI is executed outside an ISR.
\* "switches_trigger": IT0/IT1 is rewritten although the pin has moved since
\* the edge detector last saw it.
ASSUME InterruptsAssumption ==
    /\ Fitted \subseteq Sources
    /\ Lines \subseteq Pins
    /\ IEWrites \subseteq SUBSET (Fitted \cup {"EA"})
    /\ IPWrites \subseteq SUBSET Fitted
    /\ Liberties \subseteq {"stray_returns", "switches_trigger"}

VARIABLES
    cpu,    \* the part of cpu_t the controller owns
    phase   \* where cpu_run is: before cpu_step, or in the tick hooks

vars == <<cpu, phase>>

------------------------------------------------------------------------------
\* State

FlagsOf(s) == CASE s = "INT0"   -> {"IE0"}
                [] s = "T0"     -> {"TF0"}
                [] s = "INT1"   -> {"IE1"}
                [] s = "T1"     -> {"TF1"}
                [] s = "SERIAL" -> {"RI", "TI"}
                [] s = "T2"     -> {"TF2", "EXF2"}

AllFlags == {"IE0", "TF0", "IE1", "TF1", "RI", "TI", "TF2", "EXF2"}
Flags == UNION {FlagsOf(s) : s \in Fitted}
PeripheralFlags == Flags \ {"IE0", "IE1"}
Routines == Sources \cup {"main"}
IsrStackLen == 2

Cpu == [halted     : BOOLEAN,
        idle       : BOOLEAN,
        power_down : BOOLEAN,
        pcon       : SUBSET {"IDL", "PD"},
        ie         : SUBSET (Sources \cup {"EA"}),
        ip         : SUBSET Sources,
        flags      : SUBSET AllFlags,
        it         : SUBSET Pins,          \* IT0/IT1 set: edge triggered
        level      : SUBSET Pins,          \* pins that are high
        prev       : SUBSET Pins,          \* pins last seen high in edge mode
        in_isr     : BOOLEAN,
        isr_prio   : 0..1,
        isr_stack  : [0..(IsrStackLen - 1) -> 0..1],
        isr_depth  : 0..IsrStackLen,
        at         : Routines,             \* the routine the PC is in
        stack      : Seq(Routines)]        \* the routines the stack leads back to

PowerUp == [halted |-> FALSE, idle |-> FALSE, power_down |-> FALSE, pcon |-> {},
            ie |-> {}, ip |-> {}, flags |-> {}, it |-> {},
            level |-> Pins, prev |-> Pins,
            in_isr |-> FALSE, isr_prio |-> 0,
            isr_stack |-> [i \in 0..(IsrStackLen - 1) |-> 0], isr_depth |-> 0,
            at |-> "main", stack |-> <<>>]

Init == cpu = PowerUp /\ phase = "step"

------------------------------------------------------------------------------
\* cpu_check_interrupts and cpu_service_interrupt

Prio(c, s) == IF s \in c.ip THEN 1 ELSE 0
Pending(c, s) == s \in c.ie /\ FlagsOf(s) \cap c.flags # {}

AcceptsEqualLevel(c, p) == ~c.in_isr \/ p >= c.isr_prio
Accepts(c, p) == ~c.in_isr \/ p > c.isr_prio

Acceptable(c, s) == Pending(c, s) /\ Accepts(c, Prio(c, s))

NoSource == "none"

\* Pick, below, gone wrong: the last of equals, or the first whatever its level.
PickLast(c, best, s) ==
    IF Acceptable(c, s) /\ (best = NoSource \/ Prio(c, s) >= Prio(c, best))
    THEN s ELSE best
PickFirst(c, best, s) ==
    IF best = NoSource /\ Acceptable(c, s) THEN s ELSE best
\* One comparison of the polling sequence.
Pick(c, best, s) ==
    IF Acceptable(c, s) /\ (best = NoSource \/ Prio(c, s) > Prio(c, best))
    THEN s ELSE best

Scan(c) ==
    Pick(c, Pick(c, Pick(c, Pick(c, Pick(c, Pick(c,
        NoSource, "INT0"), "T0"), "INT1"), "T1"), "SERIAL"), "T2")

\* The flags cleared on entry: an edge-triggered IE0/IE1, and TF0/TF1.
Acknowledged(c, s) ==
    IF s \in {"T0", "T1"} \/ s \in c.it THEN FlagsOf(s) ELSE {}

PushPriority(c) ==
    IF c.in_isr /\ c.isr_depth < IsrStackLen
    THEN [c EXCEPT !.isr_stack = [@ EXCEPT ![c.isr_depth] = c.isr_prio],
                   !.isr_depth = @ + 1]
    ELSE [c EXCEPT !.in_isr = TRUE]

LeaveIdleOnly(c) == [c EXCEPT !.idle = FALSE]
LeaveIdle(c) ==
    IF c.idle THEN [c EXCEPT !.idle = FALSE, !.pcon = @ \ {"IDL"}] ELSE c

CallVector(c, s) ==
    [c EXCEPT !.isr_prio = Prio(c, s),
              !.stack = Append(@, c.at),
              !.at = s,
              !.flags = @ \ Acknowledged(c, s)]

Service(c, s) == CallVector(PushPriority(LeaveIdle(c)), s)

CheckWithoutSource(c) ==
    IF c.power_down \/ "EA" \notin c.ie THEN c ELSE Service(c, Scan(c))
CheckPoweredDown(c) ==
    IF "EA" \notin c.ie \/ Scan(c) = NoSource THEN c ELSE Service(c, Scan(c))
CheckInterrupts(c) ==
    IF c.power_down \/ "EA" \notin c.ie \/ Scan(c) = NoSource
    THEN c
    ELSE Service(c, Scan(c))

------------------------------------------------------------------------------
\* cpu_step: what an instruction does to the controller, then the poll

\* RETI gone wrong: every level ends, or the priority is not restored.
ReturnToMain(c) == [c EXCEPT !.in_isr = FALSE, !.isr_prio = 0]
KeepsPriority(c) ==
    IF c.isr_depth > 0
    THEN [c EXCEPT !.isr_depth = @ - 1, !.in_isr = TRUE]
    ELSE [c EXCEPT !.in_isr = FALSE, !.isr_prio = 0]
OnReti(c) ==
    IF c.isr_depth > 0
    THEN [c EXCEPT !.isr_depth = @ - 1,
                   !.isr_prio = c.isr_stack[c.isr_depth - 1],
                   !.in_isr = TRUE]
    ELSE [c EXCEPT !.in_isr = FALSE, !.isr_prio = 0]

\* Popping an empty stack reads whatever internal RAM holds: still in main.
PopPc(c) ==
    IF c.stack = <<>>
    THEN [c EXCEPT !.at = "main"]
    ELSE [c EXCEPT !.at = c.stack[Len(c.stack)],
                   !.stack = SubSeq(c.stack, 1, Len(c.stack) - 1)]

WritePcon(c, v) ==
    IF "PD" \in v
    THEN [c EXCEPT !.pcon = v, !.power_down = TRUE, !.idle = FALSE]
    ELSE [c EXCEPT !.pcon = v, !.idle = "IDL" \in v]

CanStep == phase = "step" /\ ~cpu.power_down /\ ~cpu.idle /\ ~cpu.halted

Instruction(c) ==
    /\ CanStep
    /\ cpu' = CheckInterrupts(c)
    /\ phase' = "hooks"

ExecOther == Instruction(cpu)
ExecWriteIE == \E v \in IEWrites : Instruction([cpu EXCEPT !.ie = v])
ExecWriteIP == \E v \in IPWrites : Instruction([cpu EXCEPT !.ip = v])
ExecSetFlag == \E f \in Flags : Instruction([cpu EXCEPT !.flags = @ \cup {f}])
ExecClearFlag == \E f \in Flags : Instruction([cpu EXCEPT !.flags = @ \ {f}])
ExecWritePCON == \E v \in SUBSET {"IDL", "PD"} : Instruction(WritePcon(cpu, v))

TriggerMaySwitch(pin) ==
    "switches_trigger" \in Liberties \/ (pin \in cpu.prev <=> pin \in cpu.level)
ExecWriteIT ==
    \E pin \in Lines :
        /\ TriggerMaySwitch(pin)
        /\ \/ Instruction([cpu EXCEPT !.it = @ \cup {pin}])
           \/ Instruction([cpu EXCEPT !.it = @ \ {pin}])

ExecReti ==
    /\ "stray_returns" \in Liberties \/ cpu.at # "main"
    /\ Instruction(OnReti(PopPc(cpu)))

\* RET out of an ISR; the RET that ends a subroutine stays in its routine and
\* is an ExecOther.
ExecStrayRet ==
    /\ "stray_returns" \in Liberties
    /\ cpu.at # "main"
    /\ Instruction(PopPc(cpu))

\* An opcode without a handler halts; cpu_run leaves its loop.
ExecInvalid ==
    /\ CanStep
    /\ cpu' = [cpu EXCEPT !.halted = TRUE]
    /\ UNCHANGED phase

CpuStep ==
    \/ ExecOther \/ ExecWriteIE \/ ExecWriteIP \/ ExecSetFlag \/ ExecClearFlag
    \/ ExecWritePCON \/ ExecWriteIT \/ ExecReti \/ ExecStrayRet \/ ExecInvalid

------------------------------------------------------------------------------
\* The rest of the loop of cpu_run: the idle cycle, the tick hooks, the poll

IdleCycle ==
    /\ phase = "step" /\ cpu.idle /\ ~cpu.power_down /\ ~cpu.halted
    /\ phase' = "hooks"
    /\ UNCHANGED cpu

HookRaisesFlag ==
    /\ phase = "hooks"
    /\ \E f \in PeripheralFlags : cpu' = [cpu EXCEPT !.flags = @ \cup {f}]
    /\ UNCHANGED phase

PollNever(c) == c
PollWhenIdle(c) ==
    IF c.idle /\ ~c.power_down THEN CheckInterrupts(c) ELSE c

LoopEnd ==
    /\ phase = "hooks"
    /\ phase' = "step"
    /\ cpu' = PollWhenIdle(cpu)

------------------------------------------------------------------------------
\* Calls of the host

FlagOfPin(pin) == IF pin = "INT0" THEN "IE0" ELSE "IE1"
SetPin(S, pin, high) == IF high THEN S \cup {pin} ELSE S \ {pin}

Latch(c, pin, high) ==
    IF pin \in c.it
    THEN IF pin \in c.prev /\ ~high THEN c.flags \cup {FlagOfPin(pin)} ELSE c.flags
    ELSE SetPin(c.flags, FlagOfPin(pin), ~high)

\* The last line of cpu_set_int0_level, and what it would be if the edge
\* detector forgot to sample.
NotSampled(c, pin, high) == c.prev
Sampled(c, pin, high) == IF pin \in c.it THEN SetPin(c.prev, pin, high) ELSE c.prev

SetLevel ==
    \E pin \in Lines, high \in BOOLEAN :
        /\ cpu' = [cpu EXCEPT !.flags = Latch(cpu, pin, high),
                              !.prev = Sampled(cpu, pin, high),
                              !.level = SetPin(@, pin, high)]
        /\ UNCHANGED phase

Wake ==
    /\ cpu' = [cpu EXCEPT !.idle = FALSE, !.power_down = FALSE, !.pcon = {}]
    /\ UNCHANGED phase

Poll ==
    /\ phase = "step"
    /\ cpu' = CheckInterrupts(cpu)
    /\ UNCHANGED phase

ResetKeepsLevels(c) ==
    [PowerUp EXCEPT !.level = c.level, !.prev = c.prev]

Reset ==
    /\ phase = "step"
    /\ cpu' = ResetKeepsLevels(cpu)
    /\ UNCHANGED phase

Host == SetLevel \/ Wake \/ Poll \/ Reset

------------------------------------------------------------------------------
Loop == IdleCycle \/ LoopEnd
Next == CpuStep \/ Loop \/ HookRaisesFlag \/ Host

\* cpu_run is a loop: an idle cycle and the end of the hooks always follow.
Spec == Init /\ [][Next]_vars /\ WF_vars(Loop)

------------------------------------------------------------------------------
\* Properties

\* The controller's variables stay in their ranges; in particular the PC is
\* always in a routine, never at the vector of a source that does not exist.
TypeOK == cpu \in Cpu /\ phase \in {"step", "hooks"}

\* isr_stack is never written past its first entry, and that entry is the low
\* level: only a low-priority ISR can be preempted, once.  cpu_service_interrupt
\* silently drops the push when the stack is full; here it never is.
Nested(c) ==
    /\ c.isr_depth <= 1
    /\ ~c.in_isr => c.isr_depth = 0 /\ c.isr_prio = 0
    /\ c.isr_depth = 1 => c.in_isr /\ c.isr_prio = 1 /\ c.isr_stack[0] = 0

NestingInv == Nested(cpu)

\* idle and power_down, which cpu_step tests, agree with the bits of PCON that
\* firmware reads, although writes, wake-ups, services and resets change them
\* in different places.
Mirrored(c) ==
    /\ c.idle <=> c.pcon = {"IDL"}
    /\ c.power_down <=> "PD" \in c.pcon

PowerMirror == Mirrored(cpu)

ServiceDepth(c) == IF c.in_isr THEN c.isr_depth + 1 ELSE 0

\* The interrupt state and the stack in internal RAM tell the same story: as
\* many return addresses as services, main at the bottom, and the CPU runs an
\* ISR exactly when in_isr says so.  Firmware that returns from an ISR with RET
\* or runs RETI elsewhere can only make the stack shorter.
Balanced(c) ==
    /\ Len(c.stack) = ServiceDepth(c)
    /\ c.at = "main" <=> c.stack = <<>>
    /\ \A i \in 1..Len(c.stack) : c.stack[i] = "main" <=> i = 1

InContext(c) ==
    /\ Len(c.stack) <= ServiceDepth(c)
    /\ "stray_returns" \notin Liberties => Balanced(c)

ContextInv == InContext(cpu)

\* The steps that poll the interrupts: an executed instruction, and the end of
\* the tick hooks of an idle cycle.
PollingStep == \/ phase = "step" /\ phase' = "hooks" /\ ~cpu.idle
               \/ phase = "hooks" /\ phase' = "step" /\ cpu.idle

\* After a poll no acceptable interrupt is left: what still waits has to wait
\* for the level now in service.  One poll accepts at most one interrupt, so
\* this needs it to be the best one.
PromptService ==
    [][ PollingStep /\ ~cpu'.power_down /\ "EA" \in cpu'.ie
        => \A s \in Fitted : ~Acceptable(cpu', s) ]_vars

Rank(s) == CHOOSE i \in 1..6 :
    <<"INT0", "T0", "INT1", "T1", "SERIAL", "T2">>[i] = s

Entered == \/ Len(cpu'.stack) > Len(cpu.stack)
           \/ Len(cpu'.stack) = Len(cpu.stack) /\ cpu'.at # cpu.at

\* A service goes to a source such that every other enabled request has a lower
\* priority, or the same and a later place in the polling order, whatever the
\* instruction that ended changed in IE, IP or the flags.
ServesBest ==
    [][ Entered /\ cpu'.at \in Sources
        => \A s \in Fitted \ {cpu'.at} :
               Pending(cpu', s) =>
                   \/ Prio(cpu', s) < cpu'.isr_prio
                   \/ /\ Prio(cpu', s) = cpu'.isr_prio
                      /\ Rank(cpu'.at) < Rank(s) ]_vars

\* Power-down stops the CPU: no instruction moves the PC and no interrupt is
\* serviced, not even by the poll that follows the write to PCON.
PowerDownFreezes ==
    [][ cpu'.power_down => cpu'.at = cpu.at /\ cpu'.stack = cpu.stack ]_vars

\* In edge mode a falling pin always leaves its request flag set, and the host
\* reporting a level sets the flag only when the pin fell: needs the detector's
\* memory of the pin to follow the pin.
EdgeDetection ==
    [][ \A pin \in Pins :
            pin \in cpu.it /\ phase' = phase =>
                LET fell == pin \in cpu.level /\ pin \notin cpu'.level
                    f == FlagOfPin(pin)
                IN  /\ fell => f \in cpu'.flags
                    /\ f \in cpu'.flags \ cpu.flags => fell ]_vars

\* An idle CPU does not sleep through an enabled request of an internal source
\* that its service level admits.
WakesFromIdle ==
    \A s \in Fitted \ Pins :
        (cpu.idle /\ "EA" \in cpu.ie /\ Acceptable(cpu, s)) ~> ~cpu.idle

\* The levels in service, as isr_prio and isr_stack record them.
LevelsInService(c) ==
    IF c.in_isr
    THEN {c.isr_prio} \cup {c.isr_stack[i] : i \in 0..(c.isr_depth - 1)}
    ELSE {}

Abstract == INSTANCE ServiceLevels
            WITH Levels <- {0, 1}, active <- LevelsInService(cpu)

\* The controller implements the abstract nesting of service levels.
ImplementsServiceLevels == Abstract!Spec
=============================================================================
