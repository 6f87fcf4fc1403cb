------------------------------- MODULE Machine --------------------------------
(***************************************************************************)
(* cpu_run_timed of lib/cpu.c with what src/main.c hangs on it: the        *)
(* interrupt controller (module Interrupts), Timer 0 in its auto-reload    *)
(* mode (TimerCounters), the waveform generator (RxWave) and the clock of  *)
(* the host that emulated time is paced by (Timing).  One round of the     *)
(* loop is an instruction or an idle cycle, the tick hooks, and the pacing.*)
(***************************************************************************)
EXTENDS Interrupts, TimerCounters, Timing, RxWave

CONSTANTS
    CycleCounts,  \* the cycles of an instruction: 1, 2 and 4
    Reload,       \* TH0
    Crystals,     \* the clock configurations
    Baud,         \* the rate of the waveform
    MaxSteps,     \* the max_steps of a call
    MaxDelay,     \* bound on the host time that one round takes, and on oversleeping
    MaxTotal,     \* bound on cycles_total at a call that does not reset it
    Ticks         \* history counters of overflows count modulo Ticks

ASSUME MachineAssumption ==
    /\ CycleCounts \subseteq Nat \ {0} /\ Reload \in 0..(Byte - 1)
    /\ Crystals \subseteq [fosc_hz : Nat, clocks_per_cycle : Nat \ {0}]
    /\ Baud \in Nat \ {0} /\ MaxSteps \in Nat \ {0}
    /\ MaxDelay \in Nat /\ MaxTotal \in Nat /\ Ticks \in Nat \ {0}

VARIABLES
    cfg,     \* the clock configuration
    timer,   \* Timer 0; its TF0 is in cpu.flags
    wave,    \* rx_wave
    round,   \* cpu_run_timed: the cycles of this round, the steps of this call
    total,   \* cycles_total
    wall,    \* now_ns - start_ns, as last read or slept to
    fresh,   \* history: the call began with timing_reset and rx_wave_start
    book     \* history: the cycles Timer 0 was due, what became of its overflows

machine == <<cfg, timer, wave, round, total, wall, fresh, book>>
allVars == <<vars, machine>>

RxBitCycles(c) == (CyclesPerSecond(c) + Baud - 1) \div Baud

\* Firmware has set up Timer 0 and runs; the host begins a timed call.
MachineInit ==
    /\ Init
    /\ cfg \in Crystals
    /\ timer = [tl |-> Reload, th |-> Reload, tf |-> FALSE, tr |-> TRUE, mode |-> 2,
                gate |-> FALSE, ct |-> FALSE]
    /\ wave = WaveStart(RxBitCycles(cfg))
    /\ round = [cycles |-> 0, steps |-> 0]
    /\ total = 0 /\ wall = 0
    /\ fresh = TRUE
    /\ book = [counted |-> 0, served |-> 0, lost |-> 0]

------------------------------------------------------------------------------
\* cpu_step

Goes == round.steps < MaxSteps
Plus(a, b) == (a + b) % Ticks

\* An instruction of n cycles leaves the controller as c before its poll; lost says
\* that it cleared a TF0 that was not served.
Step(c, lost) ==
    /\ Goes /\ Instruction(c)
    /\ \E n \in CycleCounts : round' = [round EXCEPT !.cycles = n]
    /\ LET entered == Len(cpu'.stack) > Len(c.stack) /\ cpu'.at = "T0"
       IN  book' = [book EXCEPT !.served = Plus(@, IF entered THEN 1 ELSE 0),
                                !.lost = Plus(@, IF lost THEN 1 ELSE 0)]
    /\ UNCHANGED <<cfg, wave, total, wall, fresh>>

StepPlain == Step(cpu, FALSE) /\ UNCHANGED timer
StepWriteIE == \E v \in IEWrites : Step([cpu EXCEPT !.ie = v], FALSE) /\ UNCHANGED timer
StepWriteIP == \E v \in IPWrites : Step([cpu EXCEPT !.ip = v], FALSE) /\ UNCHANGED timer
StepWritePCON ==
    \E v \in SUBSET {"IDL", "PD"} : Step(WritePcon(cpu, v), FALSE) /\ UNCHANGED timer
StepReti == cpu.at # "main" /\ Step(OnReti(PopPc(cpu)), FALSE) /\ UNCHANGED timer
StepClearFlag ==
    \E f \in Flags :
        /\ Step([cpu EXCEPT !.flags = @ \ {f}], f = "TF0" /\ f \in cpu.flags)
        /\ UNCHANGED timer
StepWriteTR ==
    \E run \in BOOLEAN :
        Step(cpu, FALSE) /\ timer' = [timer EXCEPT !.tr = run]

StepInvalid == Goes /\ ExecInvalid /\ UNCHANGED machine

StepIdle ==
    /\ Goes /\ IdleCycle
    /\ round' = [round EXCEPT !.cycles = 1]
    /\ UNCHANGED <<cfg, timer, wave, total, wall, fresh, book>>

RunInstruction ==
    \/ StepPlain \/ StepWriteIE \/ StepWriteIP \/ StepWritePCON \/ StepReti
    \/ StepClearFlag \/ StepWriteTR

------------------------------------------------------------------------------
\* The tick hooks, in the order of tick_hooks: timers, UART, waveform.  Of the
\* other timers and the UART only the flags they may raise are kept.

OnlyWhenAwake(c) == IF c.idle THEN 0 ELSE round.cycles
Elapsed(c) == round.cycles

Counted(t, n) == IF t.tr THEN IncTimer(t, n) ELSE t

\* Overflows of a counter that is due n more ticks.
Period == Byte - Reload
Overflows(n) == ((book.counted + n) \div Period) - (book.counted \div Period)

Hooks ==
    /\ phase = "hooks"
    /\ LET n == IF timer.tr THEN round.cycles ELSE 0
           t == Counted(timer, Elapsed(cpu))
           tf0 == IF t.tf THEN {"TF0"} ELSE {}
           merged == IF Overflows(n) = 0 THEN 0
                     ELSE Overflows(n) - (IF "TF0" \in cpu.flags THEN 0 ELSE 1)
       IN  /\ timer' = [t EXCEPT !.tf = FALSE]
           /\ \E others \in SUBSET (PeripheralFlags \ {"TF0"}) :
                 cpu' = [cpu EXCEPT !.flags = @ \cup tf0 \cup others]
           /\ wave' = WaveTick(wave, round.cycles)
           /\ book' = [book EXCEPT !.counted = (@ + n) % (Period * Ticks),
                                   !.lost = Plus(@, merged)]
    /\ phase' = "pacing"
    /\ UNCHANGED <<cfg, round, total, wall, fresh>>

------------------------------------------------------------------------------
\* timing_step, the poll of an idle CPU, and the pacing

PacedBySteps(c) == CyclesToNs(cfg, round.steps)
TargetNs(c) == CyclesToNs(cfg, c)

Pace ==
    /\ phase = "pacing"
    /\ phase' = "step"
    /\ cpu' = PollWhenIdle(cpu)
    /\ book' = [book EXCEPT
           !.served = Plus(@, IF Len(cpu'.stack) > Len(cpu.stack) /\ cpu'.at = "T0"
                              THEN 1 ELSE 0)]
    /\ total' = total + round.cycles
    /\ round' = [cycles |-> 0, steps |-> round.steps + 1]
    /\ \E now \in wall..(wall + MaxDelay), over \in 0..MaxDelay :
          LET target == TargetNs(total + round.cycles)
          IN  wall' = IF target > now THEN target + over ELSE now
    /\ UNCHANGED <<cfg, timer, wave, fresh>>

\* Halted, max_steps done, or powered down.
Return ==
    /\ phase = "step"
    /\ ~Goes \/ cpu.halted \/ cpu.power_down
    /\ phase' = "returned"
    /\ UNCHANGED <<cpu, machine>>

------------------------------------------------------------------------------
\* The host between two calls

HostWake == phase = "returned" /\ Wake /\ UNCHANGED machine

\* The next call, after timing_reset or without: then cycles_total goes on and
\* the time of the host starts anew.
CallAgain ==
    /\ phase = "returned"
    /\ phase' = "step"
    /\ round' = [cycles |-> 0, steps |-> 0]
    /\ wall' = 0
    /\ \/ total' = 0 /\ fresh' = TRUE /\ wave' = WaveStart(RxBitCycles(cfg))
       \/ total <= MaxTotal /\ fresh' = FALSE /\ UNCHANGED <<total, wave>>
    /\ UNCHANGED <<cpu, cfg, timer, book>>

MachineNext ==
    \/ RunInstruction \/ StepInvalid \/ StepIdle \/ Hooks \/ Pace \/ Return
    \/ HostWake \/ CallAgain

MachineSpec == MachineInit /\ [][MachineNext]_allVars

------------------------------------------------------------------------------
\* Properties

\* Firmware that counts the services of Timer 0 has a clock that does not drift
\* from emulated time: the overflows due in the cycles since boot are those served,
\* those that came or were cleared before firmware got to the one before, and the
\* one that waits; through idle and power-down, nested interrupts and any host.
SoftwareClock ==
    (book.served + book.lost + (IF "TF0" \in cpu.flags THEN 1 ELSE 0)) % Ticks
        = book.counted \div Period

\* cycles_total cycles on the chip, times its crystal.
OnChip == total * cfg.clocks_per_cycle * Second

\* No round is over sooner than on the chip, in any call; and a call that began
\* with timing_reset sleeps no longer than that, but for the part of a cycle that
\* each second loses to truncation and what the host oversleeps.
PacedByCrystal ==
    [][ phase = "pacing" /\ phase' = "step" =>
            /\ (wall' + 1) * cfg.fosc_hz > OnChip'
            /\ fresh /\ wall' > wall + MaxDelay =>
                   (wall' - MaxDelay) * cfg.fosc_hz * CyclesPerSecond(cfg)
                       <= OnChip' * (CyclesPerSecond(cfg) + 1) ]_allVars

\* The waveform has the level that the cycles since its start call for, however
\* the cycles of the instructions fall on its bits.
WaveOnTime ==
    fresh /\ phase = "step" =>
        LET bit == total \div RxBitCycles(cfg)
        IN  IF bit >= Total THEN ~wave.active /\ wave.level = 1
            ELSE wave.active /\ wave.level = (IF bit = 0 THEN 0 ELSE LevelOf(bit))

\* Both builds of mul_div_u64 compute the same, a time in cycles comes back from
\* nanoseconds at most one cycle short, and microseconds are nanoseconds rounded
\* down, in both directions, though each is computed from cycles on its own.
ConversionsAgree ==
    phase = "returned" =>
        LET cps == CyclesPerSecond(cfg)
        IN  /\ MulDivHalves(total, Second, cps) = CyclesToNs(cfg, total)
            /\ MulDivHalves(wall, cps, Second) = NsToCycles(cfg, wall)
            /\ total - NsToCycles(cfg, CyclesToNs(cfg, total)) \in {0, 1}
            /\ CyclesToUs(cfg, total) = CyclesToNs(cfg, total) \div (Second \div Coarse)
            /\ UsToCycles(cfg, total) = NsToCycles(cfg, total * (Second \div Coarse))
=============================================================================
