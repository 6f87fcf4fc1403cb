# A formal model of the MCS-51 emulator

TLA+ specifications of the parts of the emulator whose correctness depends on
order, nesting, time and limits, the TLC configurations that check them on small
instances, and TLAPS proofs that hold for every instance. All source paths are
relative to the repository (`lib/cpu.c`, `docs/en/...`).

## 1. The system

| Component | State | Operations |
|---|---|---|
| CPU core, `lib/cpu.c` | registers, IRAM, SFRs, `halted`, `idle`, `power_down` | `cpu_step`, `cpu_run`, `cpu_run_timed`, `cpu_reset`, direct and bit access |
| Interrupt controller, `lib/cpu.c` | `in_isr`, `isr_prio`, `isr_stack`, `isr_depth`, pin levels, IE, IP, flags | `cpu_check_interrupts`, `cpu_service_interrupt`, `cpu_on_reti`, `cpu_set_int0_level`, `cpu_wake`, `cpu_poll_interrupts` |
| Timers, `lib/timers.c` | `cycles_total`, the event queue, input routes and levels, profile, timer SFRs | `timers_tick`, `timers_pulse_*`, `timers_input_sample`, `timers_emit_signal_edge`, `timers_route_input` |
| UART, `lib/uart.c` | transmitter, receiver, `bit_cycles`, SCON, SBUF | SFR hooks, `uart_tick`, `uart_queue_rx_*` |
| Ports, `lib/ports.c` | latches | SFR hooks, host callbacks |
| Timing, `lib/timing.c` | cycle total | cycle/time conversions |
| Memory map, `lib/mem_map.c` | region tables | region lookup, read, write |
| HEX loader, `src/hex_loader.c` | base address | record parsing, code writes |
| Decoder, `lib/decoder.c`, `lib/instr_impl.c` | none | the instruction set a second time, behind the public headers; `cpu_step` does not use it |
| Host, `src/main.c` | wiring, `rx_wave` | installs the tick hooks in the order timers, UART, waveform; plays a serial waveform |

The CPU loop is the only scheduler. `cpu_run` executes an instruction (or lets
one virtual cycle pass when idle), then calls each tick hook with the cycles
used, then, when idle, polls the interrupts once more. Peripherals talk to the
CPU only through SFR bits: hooks set TF0, TF1, TF2, EXF2, TI and RI, the poll at
the end of `cpu_step` turns them into services. The host may call the setters
(pin levels, `cpu_wake`, `cpu_reset`, `timers_input_sample`, `uart_queue_rx_byte`)
between steps, and the documentation invites it to sample inputs from interrupts
of its own.

Hard behaviours: which of several requests is serviced and what a service may
preempt; return addresses and priority levels kept in two places; one stack in
internal RAM for calls, pushes and interrupts; register banks that move under a
write to PSW; the power flags mirrored in PCON; edges that fall inside the cycles
of one instruction; the swap-removal of queue entries; multi-cycle counting
against reloads; bits against ticks in the UART and in the waveform; caches of
register values; a port latch next to its SFR; emulated time against the time of
the host over several calls; two interpreters and two loaders that repeat each
other; races of a host interrupt with the queue. `PROJECT.json` lists each hazard
at its line.

## 2. Modules

| Module | What it models |
|---|---|
| `ServiceLevels` | abstract: the set of priority levels in service |
| `Interrupts`, `MCInterrupts` | the controller, PCON and power states, pins, `cpu_run`'s loop |
| `InterruptsProofs` | theorems about `Interrupts`: its state, and what a poll does |
| `TimerCounters` | the counting arithmetic of Timers 0, 1 and 2 as operators |
| `CounterLockstep`, `MCCounterLockstep` | that arithmetic in lockstep with counters that take one tick at a time |
| `SignalTimeline` | abstract: edges act in time order, each at its stamp |
| `Timers`, `MCTimers` | queue, tick loop, routing, timers; uses `TimerCounters` |
| `TimersProofs` | theorems about `Timers` and about `CounterLockstep` |
| `TimersIsr` | the queue at the grain of single memory accesses, racing with an interrupt |
| `Uart`, `MCUart`, `UartProofs` | transmitter, receiver, register hooks, baud rate |
| `Alu` | A, B and the flags under the arithmetic of `cpu_step` |
| `TableArithmetic`, `AluProofs` | the same arithmetic in the exec functions of `instr_impl.c`; extends `Alu` |
| `Remainders` | lemmas on quotients and remainders, induction, functions computed step by step; for the theorems |
| `Instructions` | every other instruction of `cpu_step` as a function on the CPU |
| `TableDriven` | those instructions by table, operand access and exec functions; extends `Instructions` |
| `Core`, `MCCore`, `CoreProofs` | firmware made of these instructions, with interrupts between any two; extends `TableDriven` |
| `Ports` | latches, SFR hooks, callbacks, resets |
| `MemMap` | region lookup, reads and writes |
| `HexLoader`, `MCHexLoader` | both loaders on one file, through `MemMap` |
| `HostProofs` | theorems about `Ports` and about `HexLoader` with `MemMap` |
| `Timing` | cycles per second, conversions, `mul_div_u64` in both builds |
| `RxWave` | the waveform generator of `main.c` |
| `Machine`, `MCMachine`, `MachineProofs` | `cpu_run_timed`: composes `Interrupts`, `TimerCounters`, `Timing` and `RxWave` |

### Interrupts

`cpu` is a record of the fields of `cpu_t` that the controller owns. An
instruction is reduced to its effect on them: `ExecReti` is RETI, `ExecWriteIE`
any write to IE, `ExecSetFlag`/`ExecClearFlag` a bit instruction on a request
flag, `ExecWritePCON` a write to PCON with `cpu_apply_pcon`, `ExecOther`
everything else; each ends with the poll of `cpu_check_interrupts`, as `cpu_step`
does. A return address is abstracted to the routine it leads back to, so `stack`
is the chain of interrupted routines and `at` the routine of the PC. `phase` says
whether `cpu_run` is before `cpu_step` or in the hooks. The constant `Liberties`
admits firmware that returns from an ISR by RET or runs RETI elsewhere
(`stray_returns`) and firmware that switches IT0/IT1 although the pin moved
unseen in level mode (`switches_trigger`). Writes to PCON are those of firmware;
the host does not write PCON while the CPU is powered down. Reset and the poll
of the host happen between steps.

### Timers

`timers_tick` is `TickBegin`, then one `TickEdge` for each event
`timers_event_pop_next_due` finds, then `TickEnd`; no other action is enabled in
between. `events` is the array with its order, so that swap-removal and ties are
those of the code. `sfr` holds the timer registers that firmware writes and the
counters change. `serial` and `done` are history: which edges were accepted and
which have acted. `timers_input_sample` keeps its early returns and the order of
its assignments; a refused push leaves the level recorded.

### TimersIsr

`timers_event_pop_next_due` is five actions, one per access to shared memory, and
`event_count--` is a read and a write. `Push` is one action, since an interrupt
handler runs to its end. The second read of `event_count` may come from memory or
a register, as the compiler likes. Time stamps are left out: the scan may choose
any entry.

### Uart

Registers are `sfr`; every write by firmware goes through the hook and
`uart_update_baud`. Two actions write registers past the hooks, as the code does:
`CpuReset`, and `Timer1Counts`, the timers' `sfr_set` of TH1 in the modes in which
Timer 1 counts it up (to any value here). The rates are constants, a table by TH1 and
SMOD for Timer 1 and one by SMOD for the fixed-rate mode, each with the cycles of a
bit and the bauds that the code derives from them; only the relation of bit times to
tick sizes matters, and which rates differ in bauds. `reported` is what the last call
of the baud callback said. A frame has `ShortFrame` or `LongFrame` bits in place of 10
or 11. The case of a missing timing configuration is left out. `todo` and `due` are
history: what the last write to SBUF still owes. `Liberties` says whether firmware
rewrites SBUF before TI or reconfigures the line during a frame, whether Timer 1 counts
TH1, and whether the host resets the CPU.

### Alu

Each arithmetic instruction of `cpu_step` is a function from A, B and the flags to
A, B and the flags, and an action that applies it to any operand and then updates
P as the end of `cpu_step` does (`Retire`). The addressing modes only choose the
operand. `ExecLoad` stands for every instruction that changes A and no other flag
than P, `ExecWriteCarry` for those that change only CY, `ExecWritePsw` for writes
to PSW or its bits. An exchange of A with PSW itself is left out. `Half` and
`Digit` are the 16 and 10 of the code.

`bin` and `dec` are history. They follow a chain such as ADD, MOV, ADDC, MOV, ADDC
that adds numbers of several registers, and hold the exact result less what was
stored so far, which must always be the carry. `dec` does the same in decimal,
with a DA after each addition. `Liberties` says whether firmware subtracts 0xFF
with a borrow pending and whether it writes a P of its own to PSW.

### Instructions and Core

`Instructions` has one operator per instruction family, a function from the state
of the CPU (A, B, PSW, SP, DPTR, PC, internal RAM, SFRs, the last write to external
RAM) to the next. An instruction is a row of `instr_list.h` with its operands; the
opcodes that differ only in a register number are one row. `CpuStep` is fetch,
`Execute`, and the update of P at the end of `cpu_step`. The SFRs that live in
fields of `cpu_t` behind mirror hooks (ACC, B, PSW, SP, DPL, DPH) are read and
written there. Code and external memory are what the host's callbacks return,
fixed functions `Rom` and `Xdata`; a write to external memory is kept in `bus`.

In `Core` the next instruction is any that keeps to the discipline of firmware:
SP is set before the stack is used, data is not stored over the stack, pushes and
pops, calls and returns nest, and an interrupt routine saves PSW and A in either
order, turns to its own register bank, restores both and ends in RETI. `frames` is
history: what the stack holds by that discipline and from where on, the context an
interrupt has to give back, and whether P belongs to it (`exact`). An interrupt strikes
after any instruction, `MaxNesting` deep.

`TableDriven` gives the same instructions as `lib/decoder.c` and
`lib/instr_impl.c` do. Both interpreters start from the row of the opcode, the number
in it (a register or a page) and the bytes after it. `Decoded` takes the operands from
the bytes as the cases of `cpu_step` do, `FetchOperands` by calls of `fetch_operand`, one
after the other. The repository has no loop around them, and the order of these calls is
the caller's. The order of a row, dst before src, is not that of the bytes in
MOV direct,direct (0x85) and CJNE (0xB4 to 0xBF), and src before dst is wrong in
MOV direct,#data and JB; no single order fits every row. The caller modelled here is one that fetches in
the order in which the exec function takes its operands
(`exec_mov_direct_direct(cpu, src, dst)`, `exec_cjne(cpu, lhs, rhs, rel)`), which is the
only hint the headers give: `SrcParameterFirst`. `TableAgrees` holds for that caller, and
its mutant is the one that fetches dst first. `TableArithmetic` does the same for
the arithmetic of `Alu`, on operands already fetched.

### Ports

A byte is the set of its bits that are 1. `latch` is `ports_t.latch`, `sfr` what
the SFR array holds, `told` the arguments of the last `write_cb`. Before
`ports_init` (`attached`) a port is an SFR like any other. `WriteBit` and `Combine`
read the port through the hook and write it back; the levels outside, which
`read_cb` returns, are any. `unheard`, `rewound` and `op` are history.

### MemMap and HexLoader

A region has its bounds, whether it has each callback, and the array of the host
that the callbacks work on. A line of a file is the record it holds, cut off where
its digits end; the file grows by any line of a set while either loader still
reads, and may end at any point. `hex_load_stream` writes through `MapWrite` byte
by byte, `hex_load_file_malloc` grows an image. The second is independent of the
first in the code, so each has its own operators here.

### Timing, RxWave and Machine

`MulDiv` is the build of `mul_div_u64` with 128-bit integers, `MulDivHalves` the
other one, with its four partial products, their carries and the long division.
`WaveTick` is the loop of `rx_wave_tick`.

One round of `cpu_run_timed` is three actions: an instruction or an idle cycle,
`Hooks` (timers, UART, waveform, in that order) and `Pace` (`timing_step`, the poll
of an idle CPU, the reading of the clock, the sleep). Between calls the host may
wake the CPU, call again after `timing_reset` or without. The controller is module
`Interrupts` unchanged; Timer 0 runs in mode 2 behind TR0, other peripherals raise
their flags at any time. `wall` is the time since the call began; the host may be
late in any round and oversleep, both up to `MaxDelay`. `book` is history: what
Timer 0 was due and what became of its overflows.

## 3. Runs

| Run | Shows | Bounds |
|---|---|---|
| `sources` | types, nesting, power mirror, return context, prompt service, best request first, frozen power-down, edge detection, wake from idle, refinement of `ServiceLevels` | INT0, T0, SERIAL and T2, two enable masks, three priority assignments, undisciplined returns; four sources give two levels with ties on each, and every kind of acknowledgement |
| `counter_ticks` | counting n at once equals n times one | 2-bit registers in place of 8, all modes and values of Timers 0 and 1, the ends of the pairs of Timer 2, calls of 0 to more than two wraps of the pair |
| `timers` | edges act at their exact time, none is lost, none counted twice, refinement of `SignalTimeline` | queue of 2 and 3 edges, so the queue fills; ticks of 1 and 3 cycles, time to 3, stamps in the past, inside and beyond the tick; three setups covering capture, edge counting, gate, split, reload and baud modes; firmware that turns to Timer 1 |
| `uart_timing` | frames take exactly their time, rewritten or not and with TH1 counting; the baud callback knows the rate in use | two values of TH1 and SMOD give bit times 1 to 4, two of them with the same bauds; ticks 1, 2 and 4, so ticks span less and more than a bit |
| `uart_receive` | received frames are accounted for, unread ones are kept, sent ones complete | filter, overrun, REN off, reconfiguration, resets; one rate, that comes and goes |
| `alu_chains` | sums and differences of several registers are exact, binary and decimal; OV and DIV are exact; the exec functions agree | registers of 4 bits in nibbles of 2 with 3 digits, so nibbles carry with and without DA; every register value, chains of 3 registers |
| `firmware` | the stack holds what firmware put there, RET and RETI resume exactly, bit addresses do not alias, the two interpreters agree on every row, from the bytes on | bytes of 4 bits, 2 banks of 2 registers, two nested interrupts; 3 free instructions besides the frame of interrupt routines; every row of the table with every number and all 256 pairs of operand bytes examined in every state at most one instruction from reset |
| `ports` | what the host knows of the latches; instructions leave other bits alone | P0 and P3 (without and with pull-ups), 2 pins, any callbacks and outside levels |
| `hex_files` | exactly the bytes of the lines read so far are in memory, in failed loads too; the loaders agree | 6 addresses, files of up to 4 lines of 12 kinds, four maps: flat, overlapping with an empty region, read-only window, none |
| `timed_run` | a clock that firmware keeps by Timer 0 does not drift from emulated time, emulated time not from real time, the waveform not from its bits; the builds of the conversion agree | 3-bit counter that reloads 4, instructions of 1 and 4 cycles, 7 cycles a second of a true 7.5, calls of 2 rounds, delays of 1; the second call carries at most 4 cycles over |
| `alu_borrow` | violation: SUBB of the largest operand loses a pending borrow | as `alu_chains` |
| `queue_isr` | violation: a racing sample is lost | queue of 3, 5 edges |

Every property of a passing run has a mutant in `PROJECT.json`: a plausible bug
in one operator that makes TLC report the property.

Unbounded data and their bounds, all in guards: queue length (`MaxEvents`), edges
(`MaxEdges`), emulated time (`MaxTime`), length of a chain (`MaxDigits`), free
instructions (`MaxSteps` of `Core`), nesting (`MaxNesting`, 2 as in the code), lines
of a file (`MaxLines`), rounds of a call (`MaxSteps` of `Machine`, the code's
`max_steps`), cycles carried into a call without reset (`MaxTotal`), lateness of the
host (`MaxDelay`). The chain of routines in `Interrupts` is bounded by the nesting
that the model itself establishes. History counters of `Machine` count modulo
`Ticks`. A wider instance of `Core` (four free instructions, fewer operands, 7.8
million states) was checked once, with the inductive invariant of section 5 added.

The liberty `switches_trigger` of `Interrupts` is used by no run. It is there to say
that `EdgeDetection` does not cover a level that went stale while the pin was in level
mode (`cpu.c:1369`). `TimersCountTicks` covers counting inside a mode, split mode
included, not the change of modes between ticks. `OtherBitsKept` lets an instruction
clear a bit of P0 whose pin is held low from outside.

Fairness. `Interrupts` assumes `WF_vars(Loop)`: the `while` loop of `cpu_run`
always goes on from an idle cycle to the hooks and to the poll at its end. `Uart`
assumes `WF_vars(UartTick)`: the loop calls the tick hooks after every step. Both
hold while the host stays in `cpu_run` and the CPU is neither halted nor powered
down; nothing is assumed of firmware or the host. The other modules state safety
only, and assume nothing.

## 4. Divergences

`PROJECT.json` lists those that a run shows. Seen while modelling and not covered
by a run:

* `cpu.c:1178`: P is recomputed only when the instruction changed A, so a write to
  PSW (`MOV PSW,#8` to select a bank) leaves P as written until A changes;
  `docs/en/CPU_IMPLEMENTATION.md:23` lists the parity update among the steps of
  every instruction. No property says that P fits A; `Alu` leaves firmware free to write
  any P (`writes_parity`). It also
  reaches interrupted code: a routine that restores PSW before A may return another
  P than it found, and leaves it in the routines it interrupted, whatever order they
  keep: `Resumes` asks for P only if PSW comes last in all of them.
* `cpu.c:661`: the OV of ADDC compares signs with operand plus carry cut to 8 bits,
  and is wrong for operand 0x7F with CY set (0x00 + 0x7F + 1 clears OV).
  `SignedOverflow` excludes that one operand.
* `decoder.c:104`: `fetch_operand` has no case for AM_BIT_NOT, so the table-driven
  interpreter executes the operand byte of `ANL C,/bit` (0xB0) and `ORL C,/bit` (0xA0)
  as the next opcode and works on bit 0. `TableAgrees` excludes the two.
* `cpu.c:1292`: `cpu_run_timed` compares the time since its own start with the
  cycles since `timing_reset`. A second call with the same state sleeps for the whole
  history again; `docs/en/CPU_IMPLEMENTATION.md:33` says timed mode synchronizes
  emulated time to wall-clock. `PacedByCrystal` bounds the sleep only for calls that
  follow a reset.
* `timing.c:85`: the cycles per second are truncated, so a clock that
  `clocks_per_cycle` does not divide runs slow by up to one cycle per second. That is
  the slack in `PacedByCrystal`.
* `ports.c:40`: releasing all pins of P0 drives nothing, and `write_cb` is not called;
  the host keeps the lows it was last told. `HostInformed` excludes that state.
* `ports.c:28`: P1 to P3 read as their latch, whatever `read_cb` returns, because the
  pull-up mask is ORed in. `docs/en/GPIO_PORTS_IMPLEMENTATION.md:59` offers `read_cb`
  to inject a waveform on P3; firmware never sees it.
* `uart.c:175`: a byte written to SBUF while the line is stopped takes over the rest
  of the frame in flight, so `OnTime` is checked and proved for firmware that does not
  stop the line during a frame.
* `uart.c:161`: the bit time follows the registers only in the hook. Timer 1 counts TH1
  up through the `sfr_set` of `timers.c:46` in its 13-bit and 16-bit modes (`timers.c:436`,
  `:439`), and `cpu_reset` clears SCON in the array; both leave the bit time in use that
  of the old registers until firmware writes a register of the UART.
  `docs/en/UART_SERIAL_IMPLEMENTATION.md:21` says `uart_update_baud` recalculates when
  relevant SFRs change. No property says that the bit time follows the registers;
  `OnTime` and `BaudReported` are about the bit time in use and hold nevertheless.
* `instr_list.h:138`, `:185`: the rows of MOV direct,direct and CJNE name dst before src,
  their bytes come in the other order, and other rows need dst first; see section 2.
* `timers.c:141`: sums of register and ticks are 32 bits wide and wrap for tick counts
  near 2^32, which `timers_advance_cycles` passes on; `cpu_run` never does.
* `timers.c:243`: the strict profile ignores T2EX when RCLK or TCLK is set, no
  EXF2; `docs/en/TIMERS_IMPLEMENTATION.md:74` limits the profile to TF2.
* `timers.c:358`: if the queue is full, `timers_input_sample` has already recorded
  the level, so repeating the sample returns true and queues nothing.
* `uart.c:73`: stopping Timer 1 sets `baud` to 0 without calling the baud callback.
  `BaudReported` therefore speaks of rates other than 0.
* `uart.c:184`: the synchronous exchange is tied to SM0 = 1, SM1 = 0; with both
  clear (mode 0) a write to SBUF only clears TI.
* `uart.c:297`: all four callback setters share `tx_user`; the last one wins.
* `hex_loader.c`: the checksum of a record is never verified; records of type 02 are
  skipped like any unknown type; a file without an end record succeeds; a failed
  `hex_load_file` leaves what it has written; past 64K it wraps around while the image
  of `hex_load_file_malloc` grows, which is why `LoadersAgree` speaks of files that fit.

## 5. Proofs

`InterruptsProofs` (for every set of fitted sources, enable and priority writes
and liberties):

* `TypeCorrect`: `Spec => []TypeOK`. Type correctness is inductive once the scan
  is known to return a real source or none (`ScanAcceptable`).
* `NestingCorrect`, `PowerMirrorCorrect`, `ContextCorrect`. None of the three is
  inductive with `TypeOK` alone in all steps: a push needs the level in service to
  be low, a return needs as many addresses as services. Their conjunction with the
  type invariant, `Sound`, is inductive (`NextSound`).
* `ServiceLevelsImplemented`: every step accepts a level above all those in service,
  ends the highest, does both, resets, or stutters.

What a step does to the program counter:

* The six cascaded comparisons are a fold over the sources in rank order. `Chosen`
  is its invariant: after n comparisons the pick beats every acceptable source among
  the first n (`PickChosen`, `ScanChosen`). With `Sound` it follows that a poll
  leaves nothing acceptable behind, though it serves one source only
  (`PollLeavesNothing`): what it served raises the level in service.
* `StepForms`: every step either ends in a poll of a known state, leaves the program
  counter alone, or restarts. `PromptServiceCorrect`, `ServesBestCorrect` and
  `PowerDownFreezesCorrect` follow case by case.
* `EdgeDetectionCorrect`, without the liberty `switches_trigger`. `Watched` is the
  inductive part: the level of a pin in edge mode is the level last seen.

`TimersProofs` (for every queue size, time bound, route set, timer setup):

* `TypeCorrect`, `NoStaleEventCorrect`, `NoEdgeLostCorrect`. `TimersInv` is their
  conjunction: distinct ids make removal take exactly one edge
  (`RemoveTakesOne`), and no stale event makes an edge's stamp the new time.
* `TimelineImplemented`: `Emit` is `Queue`, `TickEdge` is `Act`, `TickEnd` is
  `Advance` or a stutter, everything else a stutter. It does not depend on what the
  counters do.
* `CaptureIsExact`, if firmware starts a free-running Timer 2 at 0 and the 32-bit sums
  wrap at a multiple of a register pair (`Timer2Boots`). `CaptureExact` alone is not
  inductive: `CaptureInv` adds that no edge that acted is stamped after the emulated
  time, so that the edge acting now is the latest, and that the registers keep their
  range. `AdvanceTimer2` and `DispatchTimer2` say what cycles and an edge do to Timer 2
  among the other timers; with `RemainderFirst` grouping the cycles is immaterial.
* `CountIsExact`, under `Timer0Boots`, which says the same of Timer 0. An edge that acts
  has not acted before (`NoEdgeLost`), so `CountEdge` adds one to both sides, and
  `CountsOne` splits the sum over TH and TL. Nothing else moves an edge counter:
  not the cycles, not the other clocks, not Timer 1 in the mode where it drives TH0.

`UartProofs` (for every bit time, tick size, frame length and set of bytes):

* `TypeCorrect`.
* `BaudReportedCorrect`, under all liberties. The callback is skipped where the rate is
  as before or stops, so `BaudReported` says nothing of a stopped rate; it is inductive
  since a stop also clears the rate that the next one is compared with.
* `OnTimeCorrect`, if firmware at most rewrites SBUF and Timer 1 at most counts TH1.
  The bit time need not be that of the registers, so the invariant
  cannot use it: `SendInv` joins the types, `OnTime`, and `StillTimed`, that a frame in
  flight has a mode and a TR1 that give it a rate. The step of a tick rests on
  `WholeBits` and `BitsMonotone`: the number of bits that end in a tick is the number of
  whole bit times in the cycles that count (`ShiftsBound`, `TickOnTime`).
* `RxAccountedCorrect`, an action property, under all liberties.

The last part of `TimersProofs`, over `CounterLockstep` (for every width of register,
profile and size of call):

* `TimersCountTicksCorrect`: counting n ticks in one call, with one comparison or
  remainder per register, is counting one tick n times, in every mode of the three
  timers. Its hypothesis `Summable` says that a register and the ticks of a call add
  up to less than the `Word` at which the sums wrap; `cpu_run` never passes more than the
  cycles of an instruction. Each counter has a lemma that gives its registers and its
  overflow flag after n ticks in closed form, and one that says the form of n + 1
  follows from that of n by the code's own one-tick step; `Induction` does the rest.

`MachineProofs` (for every crystal, reload, wave length, instruction length, budget of
rounds and lateness of the host; over `Machine` and all it composes):

* `SoftwareClockCorrect`, without any hypothesis. `SoftwareClock` speaks of overflows; to
  know when the next one comes, `ClockInv` adds that TL0 is where the cycles due have
  put it. A poll either serves T0 and clears TF0 or does neither (`PollTf0`),
  so each overflow is served, lost or waiting.
* `WaveOnTimeCorrect`, if a crystal yields at least one cycle a second (`Running`; else
  a bit has no length). `OnTime` relates the bit, its countdown and the cycles since the
  wave began; the loop of `rx_wave_tick` keeps it in every iteration (`BitEnds`) and ends
  within the cycles of one tick.
* `PacedByCrystalCorrect`, for calls in which the products of `mul_div_u64` fit 64
  bits (`NoWrap`, which bounds total, rounds and instruction length; `Long` is 2^64 in
  the code). `PaceInv` bounds the cycles of a call by those of its
  rounds, and the sleep at the end of a round leaves no more than the truncation.
* `ConversionsAgreeCorrect`, under the same hypotheses and `Convertible`: a machine cycle
  takes at least a nanosecond, 2 * 10^9 fits 64 bits (the long division shifts its rest
  once beyond the divisor), and so does the clock of the host in the longest call.
  `MulDivExact` shows that the halved multiplication and the bitwise division compute
  the product and the quotient, for any even number of bits: `ProductExact` carries the
  four partial products, and `LongDivisionExact` follows the 128 rounds (`UpperRounds`,
  `LowerRounds`), where the rest is the remainder, and the quotient that of the bits
  shifted in so far. `WallInv` bounds the host's clock by the cycles of the call and the
  oversleeping of its rounds.

`HostProofs` (for every set of ports and pins; for every set of lines, maps and arrays):

* `PortsTypeCorrect`, `HostInformedCorrect`, `MirrorCorrect` and `OtherBitsCorrect`.
  `PortsInv` joins the types, what the host was told and the mirror of the latch; the
  mirror is needed where `ports_init` copies the SFR array over the latch. `MirrorFresh`
  is stated by no run: it says when SFR array and latch may differ, after `cpu_reset`
  until the next write or attachment.
* `HexTypeCorrect` and `SameVerdictCorrect`, the first conjunct of `LoadersAgree`.
  `StreamEffect` and `ImageEffect` reduce each loader's step to the same two functions
  of the line.
* `LoadedExactlyCorrect` and `LoadersAgreeCorrect`. `LoadInv` adds that the base in use
  is the one the lines read so far put in force, and that image and file agree while
  the file fits. `StoredEffect` is the byte loop: a line leaves the last byte it has for
  an address (`MapWriteEffect` for one byte, `FindsOwner` for the region that answers);
  `ValueGrows` says what one more line does to the last byte of the file.

`AluProofs` (for every size of nibble and digit, and chains of any length; over
`TableArithmetic`, hence `Alu`). Everything rests on `RegistersKeepTheirWidth`.

* `ChainedAdditionIsExact`, `ChainedSubtractionIsExact`: for each instruction, what the
  new register holds and the new CY make up the operands and the old CY (`CarryOut`,
  `BorrowOut`). `TypesStep` reduces every step to `ChainStep`: the chain breaks, keeps
  CY, or gains a register whose carry is exact; `LinkExact` carries the invariant over.
  The second needs `borrow_into_ff` to be excluded, as the run `alu_borrow` shows.
* `DecimalAdditionIsExact`: `DecimalSum` alone is not inductive, because between ADD
  and DA the sum exists only in A, CY and AC. `Awaiting` says how it shows there.
  `AdjustDigits` is the correctness of DA: its three tests (low nibble, AC, the value of
  A) find exactly the carries between digits, although it tests A before correcting it.
* `OverflowFlagIsExact`, `DivideUndoesMultiply`, `InterpretersComputeAlike`: facts about
  any registers, by the sign bit, uniqueness of the quotient, and the 16-bit difference
  cut to 8.

`CoreProofs` (for every operand, set of data addresses and vectors, depth of interrupts,
number of steps, and for registers, banks, pages and memories of any size that satisfy
`InstructionsAssumption` and `CoreAssumption`):

* `BitAddressingCorrect` and `TableAgreesCorrect`. Bits are taken from `Weight`, whose
  steps double (`Weights`); writing a bit leaves the other bits of its byte
  (`PutBitBits`, `BitWritten`), and no two bit addresses share a byte and a position.
  `DecodedIs` says that every row, number and pair of bytes gives an instruction,
  `FetchesDecoded` that fetching by `fetch_operand` in the order of the exec function's
  parameters gives the operands of `cpu_step`, and `InterpretersAgree` compares `Exec` with
  `Execute` by groups of rows. Both results are about any CPU in range, so they need no more of the invariant than `TypeOK`.
* `CoreTypeCorrect`: no instruction leaves a register or a cell out of range
  (`ExecuteType`), and every frame has the bytes its kind says (`IsFrame`).
* `StackIntactCorrect`. `Intact` is the property, of any CPU and frames. `IntactBounds`
  shows that frames lie one behind the other between `StackBase` and SP, so that an
  instruction that stores outside the stack (`KeepsStack`), a push and a pop keep all
  other frames (`IntactKept`, `IntactPushed`, `IntactPopped`). Registers lie below
  `StackBase` in every bank, and a push that would wrap SP is not in the discipline.
* `ResumesCorrect`. What RETI finds depends on all that happened since the interrupt, so
  `Resumable` says it for every routine on the stack and each of its stages: B, DPTR and
  bank 0 are as they were; PSW and A are in the registers or in the two frames above
  the routine's own; in the body the bank is the routine's; in the epilogue
  what has been popped is in its register. For the innermost routine that is said of the
  CPU, for the others of the context that the next routine will give back (`Contained`,
  `At`): RETI then hands the statement down (`ExecRetiSound`). `IInv`, the types,
  the stack and `Contained` together, is inductive (`NextSound`, one lemma per action).
  Instructions come in by what they may affect, given the operand they store to
  (`Effect`, `Quiet`), one lemma per family (`MovEffect` and so on, `StepEffect`).

Proving `Resumes` showed that an earlier form of it was too strong: `exact` was settled by
the routine alone. A routine that restores PSW before A may return another P, and the
routine it interrupted, if it had restored PSW already, returns that P, although it
restored PSW last. It takes two nested routines and an interrupt between the last two
instructions of the outer one, more free steps than the run has.

`Remainders` holds what the others need of quotients and remainders by a modulus that
is not fixed, and the two facts that replace the library's induction theorems, which
take an operator as a parameter: `Induction`, over a set of numbers, and `Iterates` and
`IteratesForever`, that a function computed step by step exists. The loops of the code are such functions, so
that their results are proved for any number of iterations.

The assumptions are the named ASSUMEs of the modules; TLC evaluates them on every run.

Only model-checked: liveness (`WakesFromIdle`, `Completes`; the prover does not handle
fairness and ENABLED).

## 6. Not modelled, and what is left

* `timing_set_clock` during a run, the gate and the pin of Timer 0 and its other modes
  in the composition (`Timers` and `CounterLockstep` have them alone), the time before
  firmware has set up Timer 0.
* A failing `realloc` in the loader, bases beyond 32 bits, lines longer than its
  buffer.
* Tracing and the profiler of `cpu_run_timed`, console output and arguments of
  `main.c`, the firmware samples under `mc51code`, tests, build files.

Next, in this order: `Timers` and `Uart` themselves in `Machine`, so that an edge or a
received byte is followed to its service.
