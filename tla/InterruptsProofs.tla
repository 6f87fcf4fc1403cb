--------------------------- MODULE InterruptsProofs ---------------------------
(***************************************************************************)
(* Theorems about the interrupt controller, for every choice of fitted     *)
(* sources, of what firmware writes, and of the liberties it takes: its    *)
(* state, which source the poll picks, that it leaves no acceptable one    *)
(* behind, that power-down stops it, and the edge detector.                *)
(***************************************************************************)
EXTENDS Interrupts, SequenceTheorems, TLAPS

------------------------------------------------------------------------------
\* The polling sequence

\* A comparison keeps the best acceptable source seen so far.
LEMMA PickAcceptable ==
    ASSUME NEW c, NEW best, NEW s \in Sources,
           best = NoSource \/ (best \in Sources /\ Acceptable(c, best))
    PROVE  \/ Pick(c, best, s) = NoSource
           \/ Pick(c, best, s) \in Sources /\ Acceptable(c, Pick(c, best, s))
  BY DEF Pick

\* The polling sequence ends with no source or with an acceptable one.
LEMMA ScanAcceptable ==
    ASSUME NEW c
    PROVE  \/ Scan(c) = NoSource
           \/ Scan(c) \in Sources /\ Acceptable(c, Scan(c))
  <1> DEFINE Good(b) == b = NoSource \/ (b \in Sources /\ Acceptable(c, b))
             p1 == Pick(c, NoSource, "INT0")
             p2 == Pick(c, p1, "T0")
             p3 == Pick(c, p2, "INT1")
             p4 == Pick(c, p3, "T1")
             p5 == Pick(c, p4, "SERIAL")
             p6 == Pick(c, p5, "T2")
  <1>1. Good(p1)
    BY PickAcceptable DEF Sources
  <1>2. Good(p2)
    BY <1>1, PickAcceptable DEF Sources
  <1>3. Good(p3)
    BY <1>2, PickAcceptable DEF Sources
  <1>4. Good(p4)
    BY <1>3, PickAcceptable DEF Sources
  <1>5. Good(p5)
    BY <1>4, PickAcceptable DEF Sources
  <1>6. Good(p6)
    BY <1>5, PickAcceptable DEF Sources
  <1>7. QED
    BY <1>6 DEF Scan

------------------------------------------------------------------------------
\* Type correctness

\* Saving a level leaves a well-typed machine.
LEMMA PushType ==
    ASSUME NEW c \in Cpu
    PROVE  PushPriority(c) \in Cpu
  <1>1. CASE c.in_isr /\ c.isr_depth < IsrStackLen
    <2> DEFINE st == [c.isr_stack EXCEPT ![c.isr_depth] = c.isr_prio]
               dp == c.isr_depth + 1
    <2>1. st \in [0..(IsrStackLen - 1) -> 0..1]
      BY <1>1 DEF Cpu, IsrStackLen
    <2>2. dp \in 0..IsrStackLen
      BY <1>1 DEF Cpu, IsrStackLen
    <2>3. PushPriority(c) = [c EXCEPT !.isr_stack = st, !.isr_depth = dp]
      BY <1>1 DEF PushPriority
    <2> HIDE DEF st, dp
    <2>4. QED
      BY <2>1, <2>2, <2>3 DEF Cpu
  <1>2. CASE ~(c.in_isr /\ c.isr_depth < IsrStackLen)
    BY <1>2 DEF PushPriority, Cpu
  <1>3. QED
    BY <1>1, <1>2

\* Calling a vector leaves a well-typed machine.
LEMMA CallVectorType ==
    ASSUME NEW c \in Cpu, NEW s \in Sources
    PROVE  CallVector(c, s) \in Cpu
  <1> DEFINE pr == Prio(c, s)
             st == Append(c.stack, c.at)
             fl == c.flags \ Acknowledged(c, s)
  <1>1. pr \in 0..1
    BY DEF Prio
  <1>2. st \in Seq(Routines)
    BY DEF Cpu
  <1>3. fl \in SUBSET AllFlags
    BY DEF Cpu
  <1>4. s \in Routines
    BY DEF Routines
  <1>5. CallVector(c, s) = [c EXCEPT !.isr_prio = pr, !.stack = st, !.at = s, !.flags = fl]
    BY DEF CallVector
  <1> HIDE DEF pr, st, fl
  <1>6. QED
    BY <1>1, <1>2, <1>3, <1>4, <1>5 DEF Cpu

\* Leaving idle leaves a well-typed machine.
LEMMA LeaveIdleType ==
    ASSUME NEW c \in Cpu
    PROVE  LeaveIdle(c) \in Cpu
  BY DEF LeaveIdle, Cpu

\* Servicing a source leaves a well-typed machine.
LEMMA ServiceType ==
    ASSUME NEW c \in Cpu, NEW s \in Sources
    PROVE  Service(c, s) \in Cpu
  BY LeaveIdleType, PushType, CallVectorType DEF Service

\* The poll leaves a well-typed machine.
LEMMA CheckType ==
    ASSUME NEW c \in Cpu
    PROVE  CheckInterrupts(c) \in Cpu
  BY ServiceType, ScanAcceptable DEF CheckInterrupts

\* Restoring the interrupted level leaves a well-typed machine.
LEMMA RetiType ==
    ASSUME NEW c \in Cpu
    PROVE  OnReti(c) \in Cpu
  <1>1. CASE c.isr_depth > 0
    <2> DEFINE pr == c.isr_stack[c.isr_depth - 1]
               dp == c.isr_depth - 1
    <2>1. pr \in 0..1 /\ dp \in 0..IsrStackLen
      BY <1>1 DEF Cpu, IsrStackLen
    <2>2. OnReti(c) = [c EXCEPT !.isr_depth = dp, !.isr_prio = pr, !.in_isr = TRUE]
      BY <1>1 DEF OnReti
    <2> HIDE DEF pr, dp
    <2>3. QED
      BY <2>1, <2>2 DEF Cpu
  <1>2. CASE ~(c.isr_depth > 0)
    <2>1. OnReti(c) = [c EXCEPT !.in_isr = FALSE, !.isr_prio = 0]
      BY <1>2 DEF OnReti
    <2>2. 0 \in 0..1 /\ FALSE \in BOOLEAN
      OBVIOUS
    <2>3. QED
      BY <2>1, <2>2 DEF Cpu
  <1>3. QED
    BY <1>1, <1>2

\* Popping a return address leaves a well-typed machine.
LEMMA PopType ==
    ASSUME NEW c \in Cpu
    PROVE  PopPc(c) \in Cpu
  <1>1. CASE c.stack = <<>>
    BY <1>1 DEF Cpu, PopPc, Routines
  <1>2. CASE c.stack # <<>>
    <2>1. c.stack \in Seq(Routines)
      BY DEF Cpu
    <2>2. Len(c.stack) \in Nat /\ Len(c.stack) > 0
      BY <1>2, <2>1
    <2>3. c.stack[Len(c.stack)] \in Routines
      BY <2>1, <2>2
    <2>4. SubSeq(c.stack, 1, Len(c.stack) - 1) \in Seq(Routines)
      BY <2>1, <2>2
    <2>5. QED
      BY <1>2, <2>3, <2>4 DEF Cpu, PopPc
  <1>3. QED
    BY <1>1, <1>2

\* The state after power-up is well typed.
LEMMA PowerUpType == PowerUp \in Cpu
  <1> DEFINE st == [i \in 0..(IsrStackLen - 1) |-> 0]
  <1>1. <<>> \in Seq(Routines) /\ "main" \in Routines
    BY DEF Routines
  <1>2. st \in [0..(IsrStackLen - 1) -> 0..1] /\ 0 \in 0..1 /\ 0 \in 0..IsrStackLen
    BY DEF IsrStackLen
  <1> HIDE DEF st
  <1>3. QED
    BY <1>1, <1>2 DEF PowerUp, Cpu, st

\* A write to PCON leaves a well-typed machine.
LEMMA WritePconType ==
    ASSUME NEW c \in Cpu, NEW v \in SUBSET {"IDL", "PD"}
    PROVE  WritePcon(c, v) \in Cpu
  <1>1. CASE "PD" \in v
    <2>1. WritePcon(c, v) = [c EXCEPT !.pcon = v, !.power_down = TRUE, !.idle = FALSE]
      BY <1>1 DEF WritePcon
    <2>2. QED
      BY <2>1 DEF Cpu
  <1>2. CASE "PD" \notin v
    <2> DEFINE idl == "IDL" \in v
    <2>1. WritePcon(c, v) = [c EXCEPT !.pcon = v, !.idle = idl]
      BY <1>2, Zenon DEF WritePcon
    <2>2. idl \in BOOLEAN
      OBVIOUS
    <2> HIDE DEF idl
    <2>3. QED
      BY <2>1, <2>2 DEF Cpu
  <1>3. QED
    BY <1>1, <1>2

\* The flags of the fitted sources are flags.
LEMMA FlagsAreFlags == Flags \subseteq AllFlags
  BY InterruptsAssumption DEF Flags, AllFlags, FlagsOf, Sources

\* Reset leaves a well-typed machine.
LEMMA ResetType ==
    ASSUME NEW c \in Cpu
    PROVE  ResetKeepsLevels(c) \in Cpu
  BY PowerUpType DEF ResetKeepsLevels, Cpu

\* Every value an instruction hands to the interrupt poll is well typed.
LEMMA InstructionType ==
    ASSUME TypeOK, NEW c \in Cpu, Instruction(c)
    PROVE  TypeOK'
  BY CheckType DEF Instruction, TypeOK

\* The machine keeps its type: the array of saved levels is never indexed outside
\* its bounds, whatever firmware and hooks do.
THEOREM TypeCorrect == Spec => []TypeOK
  <1>1. Init => TypeOK
    BY PowerUpType DEF Init, TypeOK
  <1>2. TypeOK /\ [Next]_vars => TypeOK'
    <2> SUFFICES ASSUME TypeOK, [Next]_vars
                 PROVE  TypeOK'
      OBVIOUS
    <2>0. cpu \in Cpu
      BY DEF TypeOK
    <2>1. CASE ExecOther
      BY <2>0, <2>1, InstructionType DEF ExecOther
    <2>2. CASE ExecWriteIE
      <3>1. PICK v \in IEWrites : Instruction([cpu EXCEPT !.ie = v])
        BY <2>2 DEF ExecWriteIE
      <3>2. [cpu EXCEPT !.ie = v] \in Cpu
        BY <2>0, InterruptsAssumption DEF Cpu
      <3>3. QED
        BY <3>1, <3>2, InstructionType
    <2>3. CASE ExecWriteIP
      <3>1. PICK v \in IPWrites : Instruction([cpu EXCEPT !.ip = v])
        BY <2>3 DEF ExecWriteIP
      <3>2. [cpu EXCEPT !.ip = v] \in Cpu
        BY <2>0, InterruptsAssumption DEF Cpu
      <3>3. QED
        BY <3>1, <3>2, InstructionType
    <2>4. CASE ExecSetFlag
      <3>1. PICK f \in Flags : Instruction([cpu EXCEPT !.flags = @ \cup {f}])
        BY <2>4 DEF ExecSetFlag
      <3>2. [cpu EXCEPT !.flags = @ \cup {f}] \in Cpu
        BY <2>0, FlagsAreFlags DEF Cpu
      <3>3. QED
        BY <3>1, <3>2, InstructionType
    <2>5. CASE ExecClearFlag
      <3>1. PICK f \in Flags : Instruction([cpu EXCEPT !.flags = @ \ {f}])
        BY <2>5 DEF ExecClearFlag
      <3>2. [cpu EXCEPT !.flags = @ \ {f}] \in Cpu
        BY <2>0 DEF Cpu
      <3>3. QED
        BY <3>1, <3>2, InstructionType
    <2>6. CASE ExecWritePCON
      BY <2>0, <2>6, WritePconType, InstructionType DEF ExecWritePCON
    <2>7. CASE ExecWriteIT
      <3>1. PICK pin \in Lines :
                \/ Instruction([cpu EXCEPT !.it = @ \cup {pin}])
                \/ Instruction([cpu EXCEPT !.it = @ \ {pin}])
        BY <2>7 DEF ExecWriteIT
      <3>2. /\ [cpu EXCEPT !.it = @ \cup {pin}] \in Cpu
            /\ [cpu EXCEPT !.it = @ \ {pin}] \in Cpu
        BY <2>0, InterruptsAssumption DEF Cpu
      <3>3. QED
        BY <3>1, <3>2, InstructionType
    <2>8. CASE ExecReti
      BY <2>0, <2>8, PopType, RetiType, InstructionType DEF ExecReti
    <2>9. CASE ExecStrayRet
      BY <2>0, <2>9, PopType, InstructionType DEF ExecStrayRet
    <2>10. CASE ExecInvalid
      BY <2>0, <2>10 DEF ExecInvalid, TypeOK, Cpu
    <2>11. CASE IdleCycle
      BY <2>11 DEF IdleCycle, TypeOK
    <2>12. CASE LoopEnd
      BY <2>0, <2>12, CheckType DEF LoopEnd, PollWhenIdle, TypeOK
    <2>13. CASE HookRaisesFlag
      <3>1. PICK f \in PeripheralFlags : cpu' = [cpu EXCEPT !.flags = @ \cup {f}]
        BY <2>13 DEF HookRaisesFlag
      <3>2. f \in AllFlags
        BY FlagsAreFlags DEF PeripheralFlags
      <3>3. QED
        BY <2>0, <2>13, <3>1, <3>2 DEF HookRaisesFlag, TypeOK, Cpu
    <2>14. CASE SetLevel
      <3>1. PICK pin \in Lines, high \in BOOLEAN :
                cpu' = [cpu EXCEPT !.flags = Latch(cpu, pin, high),
                                   !.prev = Sampled(cpu, pin, high),
                                   !.level = SetPin(@, pin, high)]
        BY <2>14 DEF SetLevel
      <3>2. pin \in Pins
        BY InterruptsAssumption
      <3>3. Latch(cpu, pin, high) \in SUBSET AllFlags
        BY <2>0 DEF Cpu, Latch, SetPin, FlagOfPin, AllFlags
      <3>4. Sampled(cpu, pin, high) \in SUBSET Pins
        BY <2>0, <3>2 DEF Cpu, Sampled, SetPin
      <3>5. SetPin(cpu.level, pin, high) \in SUBSET Pins
        BY <2>0, <3>2 DEF Cpu, SetPin
      <3>6. QED
        BY <2>0, <2>14, <3>1, <3>3, <3>4, <3>5 DEF SetLevel, TypeOK, Cpu
    <2>15. CASE Wake
      BY <2>0, <2>15 DEF Wake, TypeOK, Cpu
    <2>16. CASE Poll
      BY <2>0, <2>16, CheckType DEF Poll, TypeOK
    <2>17. CASE Reset
      BY <2>0, <2>17, ResetType DEF Reset, TypeOK
    <2>18. CASE UNCHANGED vars
      BY <2>18 DEF vars, TypeOK
    <2>19. QED
      BY <2>1, <2>2, <2>3, <2>4, <2>5, <2>6, <2>7, <2>8, <2>9, <2>10, <2>11,
         <2>12, <2>13, <2>14, <2>15, <2>16, <2>17, <2>18
      DEF Next, CpuStep, Loop, Host
  <1>3. QED
    BY <1>1, <1>2, PTL DEF Spec

------------------------------------------------------------------------------
\* Nesting: what a service and a RETI do to the four nesting fields.  The
\* accepted level is above the one in service, so at the high level nothing is
\* accepted and the push of the high level never happens.

\* An acceptable source has a level above the one in service.
LEMMA AcceptedPrio ==
    ASSUME NEW c \in Cpu, NEW s, Acceptable(c, s)
    PROVE  /\ Prio(c, s) \in 0..1
           /\ c.in_isr => c.isr_prio = 0 /\ Prio(c, s) = 1
  BY DEF Acceptable, Accepts, Prio, Cpu

Serviced(c, s, d) ==
    /\ d.in_isr
    /\ d.isr_prio = Prio(c, s)
    /\ d.isr_depth = IF c.in_isr THEN 1 ELSE 0
    /\ c.in_isr => d.isr_stack[0] = 0
    /\ d.stack = Append(c.stack, c.at)
    /\ d.at = s
    /\ d.power_down = c.power_down
    /\ ~d.idle
    /\ d.pcon = IF c.idle THEN c.pcon \ {"IDL"} ELSE c.pcon

\* The nesting fields, the stack and the routine after a service.
LEMMA ServiceEffect ==
    ASSUME NEW c \in Cpu, NEW s \in Sources, Acceptable(c, s), Nested(c)
    PROVE  Serviced(c, s, Service(c, s))
  <1> DEFINE a == LeaveIdle(c)
             b == PushPriority(a)
             d == CallVector(b, s)
  <1>1. /\ a \in Cpu
        /\ a.in_isr = c.in_isr /\ a.isr_prio = c.isr_prio
        /\ a.isr_stack = c.isr_stack /\ a.isr_depth = c.isr_depth
        /\ a.stack = c.stack /\ a.at = c.at /\ a.ip = c.ip
        /\ a.power_down = c.power_down /\ ~a.idle
        /\ a.pcon = IF c.idle THEN c.pcon \ {"IDL"} ELSE c.pcon
    BY LeaveIdleType DEF LeaveIdle, Cpu
  <1> HIDE DEF a
  <1>2. c.in_isr => c.isr_prio = 0 /\ c.isr_depth = 0
    BY AcceptedPrio DEF Nested, Cpu, IsrStackLen
  <1>3. ~c.in_isr => c.isr_depth = 0
    BY DEF Nested
  <1>4. /\ b \in Cpu
        /\ b.in_isr
        /\ b.isr_depth = IF c.in_isr THEN 1 ELSE 0
        /\ c.in_isr => b.isr_stack[0] = 0
        /\ b.stack = c.stack /\ b.at = c.at /\ b.ip = c.ip
        /\ b.power_down = c.power_down /\ ~b.idle
        /\ b.pcon = a.pcon
    <2>1. b \in Cpu
      BY <1>1, PushType
    <2>2. CASE c.in_isr
      <3> DEFINE st == [a.isr_stack EXCEPT ![a.isr_depth] = a.isr_prio]
                 dp == a.isr_depth + 1
      <3>1. b = [a EXCEPT !.isr_stack = st, !.isr_depth = dp]
        BY <1>1, <1>2, <2>2 DEF PushPriority, IsrStackLen
      <3>2. st[0] = 0 /\ dp = 1
        BY <1>1, <1>2, <2>2 DEF Cpu, IsrStackLen
      <3> HIDE DEF st, dp, b
      <3>3. QED
        BY <1>1, <2>1, <2>2, <3>1, <3>2 DEF Cpu
    <2>3. CASE ~c.in_isr
      <3>1. b = [a EXCEPT !.in_isr = TRUE]
        BY <1>1, <2>3 DEF PushPriority
      <3> HIDE DEF b
      <3>2. QED
        BY <1>1, <1>3, <2>1, <2>3, <3>1 DEF Cpu
    <2>4. QED
      BY <2>2, <2>3
  <1> HIDE DEF b
  <1>5. Prio(b, s) = Prio(c, s)
    BY <1>4 DEF Prio
  <1>6. /\ d.in_isr = b.in_isr /\ d.isr_prio = Prio(b, s)
        /\ d.isr_depth = b.isr_depth /\ d.isr_stack = b.isr_stack
        /\ d.stack = Append(b.stack, b.at) /\ d.at = s
        /\ d.power_down = b.power_down /\ d.idle = b.idle /\ d.pcon = b.pcon
    BY <1>4 DEF CallVector, Cpu
  <1>7. d = Service(c, s)
    BY DEF Service, a, b
  <1> HIDE DEF d
  <1>8. QED
    BY <1>1, <1>4, <1>5, <1>6, <1>7 DEF Serviced

\* The nesting fields after RETI: one level less, if there was one.
LEMMA RetiEffect ==
    ASSUME NEW c \in Cpu, Nested(c)
    PROVE  LET d == OnReti(c)
           IN  /\ d.isr_depth = 0
               /\ d.isr_prio = 0
               /\ d.in_isr <=> c.isr_depth = 1
               /\ d.stack = c.stack
               /\ d.at = c.at
               /\ d.power_down = c.power_down
               /\ d.idle = c.idle
               /\ d.pcon = c.pcon
               /\ d.ip = c.ip
  <1>1. c.isr_depth \in {0, 1}
    BY DEF Nested, Cpu, IsrStackLen
  <1>2. CASE c.isr_depth = 1
    <2> DEFINE pr == c.isr_stack[c.isr_depth - 1]
               dp == c.isr_depth - 1
    <2>1. pr = 0 /\ dp = 0
      BY <1>2 DEF Nested
    <2>2. OnReti(c) = [c EXCEPT !.isr_depth = dp, !.isr_prio = pr, !.in_isr = TRUE]
      BY <1>2 DEF OnReti
    <2> HIDE DEF pr, dp
    <2>3. QED
      BY <1>2, <2>1, <2>2 DEF Cpu
  <1>3. CASE c.isr_depth = 0
    <2>1. OnReti(c) = [c EXCEPT !.in_isr = FALSE, !.isr_prio = 0]
      BY <1>3 DEF OnReti
    <2>2. QED
      BY <1>3, <2>1 DEF Cpu
  <1>4. QED
    BY <1>1, <1>2, <1>3

\* Popping the return address touches the stack and the routine only.
LEMMA PopEffect ==
    ASSUME NEW c \in Cpu
    PROVE  LET d == PopPc(c)
           IN  /\ d.in_isr = c.in_isr
               /\ d.isr_prio = c.isr_prio
               /\ d.isr_depth = c.isr_depth
               /\ d.isr_stack = c.isr_stack
               /\ d.power_down = c.power_down
               /\ d.idle = c.idle
               /\ d.pcon = c.pcon
               /\ d.at = IF c.stack = <<>> THEN "main" ELSE c.stack[Len(c.stack)]
               /\ d.stack = IF c.stack = <<>> THEN <<>>
                            ELSE SubSeq(c.stack, 1, Len(c.stack) - 1)
  BY DEF PopPc, Cpu

------------------------------------------------------------------------------
\* The inductive invariant: nesting, the PCON mirror and the return stack hold
\* together, because a service must know the depth to keep the stack in step,
\* and must know PCON to clear the right bit.

Sound(c) == c \in Cpu /\ Nested(c) /\ Mirrored(c) /\ InContext(c)

\* The fields Sound speaks of.
Core(c) == <<c.in_isr, c.isr_prio, c.isr_depth, c.isr_stack,
             c.idle, c.power_down, c.pcon, c.at, c.stack>>

\* What leaves those fields alone keeps Sound.
LEMMA SameCore ==
    ASSUME NEW c, Sound(c), NEW d \in Cpu, Core(d) = Core(c)
    PROVE  Sound(d)
  <1>1. /\ d.in_isr = c.in_isr /\ d.isr_prio = c.isr_prio
        /\ d.isr_depth = c.isr_depth /\ d.isr_stack = c.isr_stack
        /\ d.idle = c.idle /\ d.power_down = c.power_down /\ d.pcon = c.pcon
        /\ d.at = c.at /\ d.stack = c.stack
    BY DEF Core
  <1>2. Nested(d)
    BY <1>1 DEF Sound, Nested
  <1>3. Mirrored(d)
    BY <1>1 DEF Sound, Mirrored
  <1>4. InContext(d)
    BY <1>1 DEF Sound, InContext, Balanced, ServiceDepth
  <1>5. QED
    BY <1>2, <1>3, <1>4 DEF Sound

\* Servicing an acceptable source keeps the inductive invariant.
LEMMA ServiceSound ==
    ASSUME NEW c, Sound(c), NEW s \in Sources, Acceptable(c, s), ~c.power_down
    PROVE  Sound(Service(c, s))
  <1> DEFINE d == Service(c, s)
  <1>1. c \in Cpu /\ Nested(c) /\ Mirrored(c) /\ InContext(c)
    BY DEF Sound
  <1>2. d \in Cpu
    BY <1>1, ServiceType
  <1>3. Serviced(c, s, d)
    BY <1>1, ServiceEffect
  <1> USE DEF Serviced
  <1>4. c.in_isr => c.isr_prio = 0 /\ Prio(c, s) = 1
    BY <1>1, AcceptedPrio
  <1> HIDE DEF d
  <1>5. Nested(d)
    BY <1>3, <1>4 DEF Nested
  <1>6. Mirrored(d)
    <2>1. c.pcon = {"IDL"} <=> c.idle
      BY <1>1 DEF Mirrored
    <2>2. "PD" \notin c.pcon
      BY <1>1 DEF Mirrored
    <2>3. c.pcon \in SUBSET {"IDL", "PD"}
      BY <1>1 DEF Cpu
    <2>4. d.pcon = {}
      BY <1>3, <2>1, <2>2, <2>3
    <2>5. QED
      BY <1>3, <2>4 DEF Mirrored
  <1>7. InContext(d)
    <2>1. c.stack \in Seq(Routines) /\ c.at \in Routines
      BY <1>1 DEF Cpu
    <2>2. /\ d.stack \in Seq(Routines)
          /\ Len(d.stack) = Len(c.stack) + 1
          /\ d.stack[Len(c.stack) + 1] = c.at
          /\ \A i \in 1..Len(c.stack) : d.stack[i] = c.stack[i]
      BY <1>3, <2>1
    <2>3. ServiceDepth(d) = ServiceDepth(c) + 1
      <3>1. c.in_isr => c.isr_depth = 0
        BY <1>1, <1>4 DEF Nested, Cpu, IsrStackLen
      <3>2. QED
        BY <1>3, <3>1 DEF ServiceDepth
    <2>4. ServiceDepth(c) \in Nat /\ Len(c.stack) \in Nat
      BY <1>1, <2>1 DEF ServiceDepth, Cpu, IsrStackLen
    <2>5. Len(d.stack) <= ServiceDepth(d)
      BY <1>1, <2>2, <2>3, <2>4 DEF InContext
    <2>6. Balanced(c) => Balanced(d)
      <3> SUFFICES ASSUME Balanced(c) PROVE Balanced(d)
        OBVIOUS
      <3>1. Len(d.stack) = ServiceDepth(d)
        BY <2>2, <2>3 DEF Balanced
      <3>2. d.at # "main" /\ d.stack # <<>>
        BY <1>3, <2>2, <2>4 DEF Sources
      <3>3. ASSUME NEW i \in 1..Len(d.stack)
            PROVE  d.stack[i] = "main" <=> i = 1
        <4>1. CASE i = Len(c.stack) + 1
          <5>1. c.at = "main" <=> Len(c.stack) = 0
            BY <2>1 DEF Balanced
          <5>2. QED
            BY <2>2, <2>4, <4>1, <5>1
        <4>2. CASE i \in 1..Len(c.stack)
          BY <2>2, <4>2 DEF Balanced
        <4>3. QED
          BY <2>2, <2>4, <3>3, <4>1, <4>2
      <3>4. QED
        BY <3>1, <3>2, <3>3 DEF Balanced
    <2>7. QED
      BY <1>1, <2>5, <2>6 DEF InContext
  <1>8. QED
    BY <1>2, <1>5, <1>6, <1>7 DEF Sound, d

\* The poll keeps the inductive invariant.
LEMMA CheckSound ==
    ASSUME NEW c, Sound(c)
    PROVE  Sound(CheckInterrupts(c))
  BY ServiceSound, ScanAcceptable DEF CheckInterrupts

\* A return address is popped together with its service, or on its own.
LEMMA PopRetiSound ==
    ASSUME NEW c, Sound(c), "stray_returns" \in Liberties \/ c.at # "main"
    PROVE  Sound(OnReti(PopPc(c)))
  <1> DEFINE b == PopPc(c)
             d == OnReti(b)
  <1>1. c \in Cpu /\ Nested(c) /\ Mirrored(c) /\ InContext(c)
    BY DEF Sound
  <1>2. b \in Cpu /\ d \in Cpu
    BY <1>1, PopType, RetiType
  <1>3. /\ b.in_isr = c.in_isr /\ b.isr_prio = c.isr_prio
        /\ b.isr_depth = c.isr_depth /\ b.isr_stack = c.isr_stack
        /\ b.power_down = c.power_down /\ b.idle = c.idle /\ b.pcon = c.pcon
        /\ b.at = IF c.stack = <<>> THEN "main" ELSE c.stack[Len(c.stack)]
        /\ b.stack = IF c.stack = <<>> THEN <<>>
                     ELSE SubSeq(c.stack, 1, Len(c.stack) - 1)
    BY <1>1, PopEffect
  <1> HIDE DEF b
  <1>4. Nested(b)
    BY <1>1, <1>3 DEF Nested
  <1>5. /\ d.isr_depth = 0 /\ d.isr_prio = 0
        /\ d.in_isr <=> b.isr_depth = 1
        /\ d.stack = b.stack /\ d.at = b.at
        /\ d.power_down = b.power_down /\ d.idle = b.idle /\ d.pcon = b.pcon
    BY <1>2, <1>4, RetiEffect
  <1> HIDE DEF d
  <1>6. Nested(d)
    BY <1>5 DEF Nested
  <1>7. Mirrored(d)
    BY <1>1, <1>3, <1>5 DEF Mirrored
  <1>8. c.stack \in Seq(Routines) /\ c.isr_depth \in {0, 1} /\ Len(c.stack) \in Nat
    BY <1>1 DEF Cpu, Nested, IsrStackLen
  <1>9. ServiceDepth(d) = IF c.in_isr THEN ServiceDepth(c) - 1 ELSE 0
    BY <1>1, <1>3, <1>5, <1>8 DEF ServiceDepth, Nested
  <1>10. CASE c.stack = <<>>
    <2>1. d.stack = <<>> /\ d.at = "main"
      BY <1>3, <1>5, <1>10
    <2>2. ServiceDepth(d) >= 0
      BY <1>5 DEF ServiceDepth
    <2>3. Balanced(c) => "stray_returns" \in Liberties
      BY <1>10 DEF Balanced
    <2>4. InContext(d)
      BY <1>1, <2>1, <2>2, <2>3 DEF InContext
    <2>5. QED
      BY <1>2, <1>6, <1>7, <2>4 DEF Sound, d, b
  <1>11. CASE c.stack # <<>>
    <2>1. Len(c.stack) > 0
      BY <1>8, <1>11
    <2>2. /\ Len(d.stack) = Len(c.stack) - 1
          /\ d.at = c.stack[Len(c.stack)]
          /\ \A i \in 1..Len(d.stack) : d.stack[i] = c.stack[i]
          /\ d.stack \in Seq(Routines)
      BY <1>3, <1>5, <1>8, <1>11, <2>1
    <2>3. c.in_isr
      BY <1>1, <2>1, <1>8 DEF InContext, ServiceDepth
    <2>4. Len(d.stack) <= ServiceDepth(d)
      BY <1>1, <1>8, <1>9, <2>2, <2>3 DEF InContext, ServiceDepth
    <2>5. Balanced(c) => Balanced(d)
      <3> SUFFICES ASSUME Balanced(c) PROVE Balanced(d)
        OBVIOUS
      <3>1. Len(d.stack) = ServiceDepth(d)
        BY <1>9, <2>2, <2>3 DEF Balanced
      <3>2. d.at = "main" <=> Len(c.stack) = 1
        BY <1>8, <2>1, <2>2 DEF Balanced
      <3>3. d.stack = <<>> <=> Len(c.stack) = 1
        <4>1. Len(d.stack) = 0 <=> Len(c.stack) = 1
          BY <1>8, <2>2
        <4>2. d.stack # <<>> => Len(d.stack) # 0
          BY <2>2, EmptySeq
        <4>3. d.stack = <<>> => Len(d.stack) = 0
          OBVIOUS
        <4>4. QED
          BY <4>1, <4>2, <4>3
      <3>4. ASSUME NEW i \in 1..Len(d.stack)
            PROVE  d.stack[i] = "main" <=> i = 1
        <4>1. i \in 1..Len(c.stack)
          BY <1>8, <2>2
        <4>2. d.stack[i] = c.stack[i]
          BY <2>2
        <4>3. QED
          BY <4>1, <4>2 DEF Balanced
      <3>5. QED
        BY <3>1, <3>2, <3>3, <3>4 DEF Balanced
    <2>6. InContext(d)
      BY <1>1, <2>4, <2>5 DEF InContext
    <2>7. QED
      BY <1>2, <1>6, <1>7, <2>6 DEF Sound, d, b
  <1>12. QED
    BY <1>10, <1>11

\* A stray RET, where firmware may execute one, keeps the inductive invariant.
LEMMA StrayRetSound ==
    ASSUME NEW c, Sound(c), "stray_returns" \in Liberties
    PROVE  Sound(PopPc(c))
  <1> DEFINE d == PopPc(c)
  <1>1. c \in Cpu /\ Nested(c) /\ Mirrored(c) /\ InContext(c)
    BY DEF Sound
  <1>2. d \in Cpu
    BY <1>1, PopType
  <1>3. /\ d.in_isr = c.in_isr /\ d.isr_prio = c.isr_prio
        /\ d.isr_depth = c.isr_depth /\ d.isr_stack = c.isr_stack
        /\ d.power_down = c.power_down /\ d.idle = c.idle /\ d.pcon = c.pcon
        /\ d.stack = IF c.stack = <<>> THEN <<>>
                     ELSE SubSeq(c.stack, 1, Len(c.stack) - 1)
    BY <1>1, PopEffect
  <1> HIDE DEF d
  <1>4. Nested(d) /\ Mirrored(d)
    BY <1>1, <1>3 DEF Nested, Mirrored
  <1>5. c.stack \in Seq(Routines)
    BY <1>1 DEF Cpu
  <1>6. Len(d.stack) <= Len(c.stack)
    <2>1. CASE c.stack = <<>>
      BY <1>3, <2>1
    <2>2. CASE c.stack # <<>>
      <3>1. Len(c.stack) \in Nat /\ Len(c.stack) > 0
        BY <1>5, <2>2
      <3>2. Len(d.stack) = Len(c.stack) - 1
        BY <1>3, <1>5, <2>2, <3>1
      <3>3. QED
        BY <3>1, <3>2
    <2>3. QED
      BY <2>1, <2>2
  <1>7. ServiceDepth(d) = ServiceDepth(c) /\ ServiceDepth(c) \in Nat
    BY <1>1, <1>3 DEF ServiceDepth, Cpu, IsrStackLen
  <1>8. Len(d.stack) \in Nat /\ Len(c.stack) \in Nat
    <2>1. d.stack \in Seq(Routines)
      BY <1>2 DEF Cpu
    <2>2. QED
      BY <1>5, <2>1
  <1>9. InContext(d)
    BY <1>1, <1>6, <1>7, <1>8 DEF InContext
  <1>10. QED
    BY <1>2, <1>4, <1>9 DEF Sound, d

\* An instruction keeps Sound if what it does before the poll keeps it.
LEMMA InstructionSound ==
    ASSUME NEW c, Sound(c), Instruction(c)
    PROVE  Sound(cpu)'
  BY CheckSound DEF Instruction, Sound, Nested, Mirrored, InContext, Balanced, ServiceDepth

\* A write to PCON keeps the inductive invariant.
LEMMA WritePconSound ==
    ASSUME NEW c, Sound(c), ~c.power_down, NEW v \in SUBSET {"IDL", "PD"}
    PROVE  Sound(WritePcon(c, v))
  <1> DEFINE d == WritePcon(c, v)
  <1>1. c \in Cpu /\ d \in Cpu
    BY WritePconType DEF Sound
  <1>2. /\ d.in_isr = c.in_isr /\ d.isr_prio = c.isr_prio
        /\ d.isr_depth = c.isr_depth /\ d.isr_stack = c.isr_stack
        /\ d.at = c.at /\ d.stack = c.stack
    BY <1>1 DEF WritePcon, Cpu
  <1>3. CASE "PD" \in v
    <2>1. d.power_down /\ ~d.idle /\ d.pcon = v
      BY <1>1, <1>3 DEF WritePcon, Cpu
    <2> HIDE DEF d
    <2>2. Mirrored(d)
      BY <1>3, <2>1 DEF Mirrored
    <2>3. QED
      BY <1>1, <1>2, <2>2 DEF Sound, Nested, InContext, Balanced, ServiceDepth, d
  <1>4. CASE "PD" \notin v
    <2>1. /\ d.power_down = c.power_down /\ d.pcon = v
          /\ d.idle <=> "IDL" \in v
      BY <1>1, <1>4 DEF WritePcon, Cpu
    <2> HIDE DEF d
    <2>2. Mirrored(d)
      BY <1>4, <2>1 DEF Mirrored
    <2>3. QED
      BY <1>1, <1>2, <2>2 DEF Sound, Nested, InContext, Balanced, ServiceDepth, d
  <1>5. QED
    BY <1>3, <1>4

\* The state after power-up satisfies the inductive invariant.
LEMMA PowerUpSound ==
    ASSUME NEW c \in Cpu, c.in_isr = FALSE, c.isr_depth = 0, c.isr_prio = 0,
           c.stack = <<>>, c.at = "main",
           c.idle = FALSE, c.power_down = FALSE, c.pcon = {}
    PROVE  Sound(c)
  BY DEF Sound, Nested, Mirrored, InContext, Balanced, ServiceDepth

\* Every step of the program keeps the inductive invariant.
LEMMA NextSound ==
    ASSUME Sound(cpu), TypeOK', [Next]_vars
    PROVE  Sound(cpu)'
  <1>0. cpu \in Cpu /\ cpu' \in Cpu
    BY DEF Sound, TypeOK
  <1> DEFINE Same(d) == d \in Cpu /\ Core(d) = Core(cpu)
  <1>1. CASE ExecOther
    BY <1>1, InstructionSound DEF ExecOther
  <1>2. CASE ExecWriteIE
    <2>1. PICK v \in IEWrites : Instruction([cpu EXCEPT !.ie = v])
      BY <1>2 DEF ExecWriteIE
    <2>2. Same([cpu EXCEPT !.ie = v])
      BY <1>0, InterruptsAssumption DEF Cpu, Core
    <2>3. QED
      BY <2>1, <2>2, SameCore, InstructionSound
  <1>3. CASE ExecWriteIP
    <2>1. PICK v \in IPWrites : Instruction([cpu EXCEPT !.ip = v])
      BY <1>3 DEF ExecWriteIP
    <2>2. Same([cpu EXCEPT !.ip = v])
      BY <1>0, InterruptsAssumption DEF Cpu, Core
    <2>3. QED
      BY <2>1, <2>2, SameCore, InstructionSound
  <1>4. CASE ExecSetFlag
    <2>1. PICK f \in Flags : Instruction([cpu EXCEPT !.flags = @ \cup {f}])
      BY <1>4 DEF ExecSetFlag
    <2>2. Same([cpu EXCEPT !.flags = @ \cup {f}])
      BY <1>0, FlagsAreFlags DEF Cpu, Core
    <2>3. QED
      BY <2>1, <2>2, SameCore, InstructionSound
  <1>5. CASE ExecClearFlag
    <2>1. PICK f \in Flags : Instruction([cpu EXCEPT !.flags = @ \ {f}])
      BY <1>5 DEF ExecClearFlag
    <2>2. Same([cpu EXCEPT !.flags = @ \ {f}])
      BY <1>0 DEF Cpu, Core
    <2>3. QED
      BY <2>1, <2>2, SameCore, InstructionSound
  <1>6. CASE ExecWritePCON
    <2>1. PICK v \in SUBSET {"IDL", "PD"} : Instruction(WritePcon(cpu, v))
      BY <1>6 DEF ExecWritePCON
    <2>2. ~cpu.power_down
      BY <2>1 DEF Instruction, CanStep
    <2>3. QED
      BY <2>1, <2>2, WritePconSound, InstructionSound
  <1>7. CASE ExecWriteIT
    <2>1. PICK pin \in Lines : \/ Instruction([cpu EXCEPT !.it = @ \cup {pin}])
                               \/ Instruction([cpu EXCEPT !.it = @ \ {pin}])
      BY <1>7 DEF ExecWriteIT
    <2>2. /\ Same([cpu EXCEPT !.it = @ \cup {pin}])
          /\ Same([cpu EXCEPT !.it = @ \ {pin}])
      BY <1>0, InterruptsAssumption DEF Cpu, Core
    <2>3. QED
      BY <2>1, <2>2, SameCore, InstructionSound
  <1>8. CASE ExecReti
    BY <1>8, PopRetiSound, InstructionSound DEF ExecReti
  <1>9. CASE ExecStrayRet
    BY <1>9, StrayRetSound, InstructionSound DEF ExecStrayRet
  <1>10. CASE ExecInvalid \/ HookRaisesFlag \/ SetLevel
    <2>1. Core(cpu') = Core(cpu)
      BY <1>0, <1>10 DEF ExecInvalid, HookRaisesFlag, SetLevel, Core, Cpu
    <2>2. QED
      BY <1>0, <2>1, SameCore DEF Sound, Nested, Mirrored, InContext, Balanced, ServiceDepth
  <1>11. CASE IdleCycle \/ UNCHANGED vars
    <2>1. cpu' = cpu
      BY <1>11 DEF IdleCycle, vars
    <2>2. QED
      BY <2>1 DEF Sound, Nested, Mirrored, InContext, Balanced, ServiceDepth
  <1>12. CASE LoopEnd \/ Poll
    <2>1. cpu' = cpu \/ cpu' = CheckInterrupts(cpu)
      BY <1>12 DEF LoopEnd, PollWhenIdle, Poll
    <2>2. Sound(cpu')
      BY <2>1, CheckSound
    <2>3. QED
      BY <2>2 DEF Sound, Nested, Mirrored, InContext, Balanced, ServiceDepth
  <1>13. CASE Wake
    <2>1. cpu' = [cpu EXCEPT !.idle = FALSE, !.power_down = FALSE, !.pcon = {}]
      BY <1>13 DEF Wake
    <2>2. /\ ~cpu'.idle /\ ~cpu'.power_down /\ cpu'.pcon = {}
          /\ cpu'.in_isr = cpu.in_isr /\ cpu'.isr_prio = cpu.isr_prio
          /\ cpu'.isr_depth = cpu.isr_depth /\ cpu'.isr_stack = cpu.isr_stack
          /\ cpu'.at = cpu.at /\ cpu'.stack = cpu.stack
      BY <1>0, <2>1 DEF Cpu
    <2>3. QED
      BY <1>0, <2>2 DEF Sound, Nested, Mirrored, InContext, Balanced, ServiceDepth
  <1>14. CASE Reset
    <2>1. cpu' = ResetKeepsLevels(cpu)
      BY <1>14 DEF Reset
    <2>2. /\ cpu'.in_isr = FALSE /\ cpu'.isr_depth = 0 /\ cpu'.isr_prio = 0
          /\ cpu'.stack = <<>> /\ cpu'.at = "main"
          /\ cpu'.idle = FALSE /\ cpu'.power_down = FALSE /\ cpu'.pcon = {}
      BY <2>1 DEF ResetKeepsLevels, PowerUp
    <2>3. Sound(cpu')
      BY <1>0, <2>2, PowerUpSound
    <2>4. QED
      BY <2>3 DEF Sound, Nested, Mirrored, InContext, Balanced, ServiceDepth
  <1>15. QED
    BY <1>1, <1>2, <1>3, <1>4, <1>5, <1>6, <1>7, <1>8, <1>9, <1>10, <1>11,
       <1>12, <1>13, <1>14
    DEF Next, CpuStep, Loop, Host

\* The inductive invariant holds in every behaviour.
LEMMA AlwaysSound == Spec => []Sound(cpu)
  <1>1. Init => Sound(cpu)
    <2> SUFFICES ASSUME Init PROVE Sound(cpu)
      OBVIOUS
    <2>1. /\ cpu.in_isr = FALSE /\ cpu.isr_depth = 0 /\ cpu.isr_prio = 0
          /\ cpu.stack = <<>> /\ cpu.at = "main"
          /\ cpu.idle = FALSE /\ cpu.power_down = FALSE /\ cpu.pcon = {}
      BY DEF Init, PowerUp
    <2>2. cpu \in Cpu
      BY PowerUpType DEF Init
    <2>3. QED
      BY <2>1, <2>2, PowerUpSound
  <1>2. Sound(cpu) /\ TypeOK' /\ [Next]_vars => Sound(cpu)'
    BY NextSound
  <1>3. QED
    BY <1>1, <1>2, TypeCorrect, PTL DEF Spec

\* isr_stack holds at most the low level, once, whatever the firmware does: the
\* silent drop of a push in cpu_service_interrupt cannot happen.
THEOREM NestingCorrect == Spec => []NestingInv
  <1>1. Sound(cpu) => NestingInv
    BY DEF Sound, NestingInv
  <1>2. QED
    BY <1>1, AlwaysSound, PTL

\* idle and power_down always agree with PCON.
THEOREM PowerMirrorCorrect == Spec => []PowerMirror
  <1>1. Sound(cpu) => PowerMirror
    BY DEF Sound, PowerMirror
  <1>2. QED
    BY <1>1, AlwaysSound, PTL

\* The services recorded by the controller and the return addresses in internal
\* RAM stay in step.
THEOREM ContextCorrect == Spec => []ContextInv
  <1>1. Sound(cpu) => ContextInv
    BY DEF Sound, ContextInv
  <1>2. QED
    BY <1>1, AlwaysSound, PTL

------------------------------------------------------------------------------
\* Implementation of the abstract service levels

\* Under the nesting invariant the levels in service are {}, {p} or {0, 1}.
LEMMA LevelsNested ==
    ASSUME NEW c \in Cpu, Nested(c)
    PROVE  LevelsInService(c) = IF ~c.in_isr THEN {}
                                ELSE IF c.isr_depth = 0 THEN {c.isr_prio} ELSE {0, 1}
  <1>1. c.isr_depth \in {0, 1}
    BY DEF Nested, Cpu, IsrStackLen
  <1>2. CASE c.isr_depth = 0
    <2>1. 0..(c.isr_depth - 1) = {}
      BY <1>2
    <2>2. QED
      BY <1>2, <2>1 DEF LevelsInService
  <1>3. CASE c.isr_depth = 1
    <2>1. 0..(c.isr_depth - 1) = {0}
      BY <1>3
    <2>2. c.isr_prio = 1 /\ c.isr_stack[0] = 0
      BY <1>3 DEF Nested
    <2>3. QED
      BY <1>3, <2>1, <2>2 DEF LevelsInService
  <1>4. QED
    BY <1>1, <1>2, <1>3

\* The poll accepts a level above all those in service, or none.
LEMMA CheckLevels ==
    ASSUME NEW c, Sound(c)
    PROVE  \/ LevelsInService(CheckInterrupts(c)) = LevelsInService(c)
           \/ \E p \in {0, 1} :
                 /\ \A q \in LevelsInService(c) : p > q
                 /\ LevelsInService(CheckInterrupts(c)) = LevelsInService(c) \cup {p}
  <1>1. CASE CheckInterrupts(c) = c
    BY <1>1
  <1>2. CASE CheckInterrupts(c) # c
    <2> DEFINE s == Scan(c)
               d == Service(c, s)
    <2>1. CheckInterrupts(c) = d /\ s # NoSource /\ ~c.power_down
      BY <1>2 DEF CheckInterrupts
    <2>2. s \in Sources /\ Acceptable(c, s)
      BY <2>1, ScanAcceptable
    <2> HIDE DEF s
    <2>3. c \in Cpu /\ Nested(c)
      BY DEF Sound
    <2>4. d \in Cpu /\ Nested(d)
      BY <2>1, <2>2, ServiceSound DEF Sound
    <2>5. /\ d.in_isr /\ d.isr_prio = Prio(c, s)
          /\ d.isr_depth = IF c.in_isr THEN 1 ELSE 0
      <3>1. Serviced(c, s, d)
        BY <2>2, <2>3, ServiceEffect
      <3> HIDE DEF d
      <3>2. QED
        BY <3>1 DEF Serviced
    <2>6. /\ Prio(c, s) \in 0..1
          /\ c.in_isr => c.isr_prio = 0 /\ Prio(c, s) = 1
      BY <2>2, <2>3, AcceptedPrio
    <2>7. c.in_isr => c.isr_depth = 0
      BY <2>3, <2>6 DEF Nested, Cpu, IsrStackLen
    <2> HIDE DEF d
    <2>8. LevelsInService(c) = IF c.in_isr THEN {0} ELSE {}
      BY <2>3, <2>6, <2>7, LevelsNested
    <2>9. LevelsInService(d) = IF c.in_isr THEN {0, 1} ELSE {Prio(c, s)}
      BY <2>4, <2>5, LevelsNested
    <2>10. QED
      BY <2>1, <2>6, <2>8, <2>9
  <1>3. QED
    BY <1>1, <1>2

\* RETI ends the highest level in service.
LEMMA RetiLevels ==
    ASSUME NEW c \in Cpu, Nested(c)
    PROVE  LevelsInService(OnReti(PopPc(c))) =
               {q \in LevelsInService(c) : \E r \in LevelsInService(c) : r > q}
  <1> DEFINE b == PopPc(c)
             d == OnReti(b)
  <1>1. b \in Cpu /\ d \in Cpu
    BY PopType, RetiType
  <1>2. /\ b.in_isr = c.in_isr /\ b.isr_prio = c.isr_prio
        /\ b.isr_depth = c.isr_depth /\ b.isr_stack = c.isr_stack
    BY PopEffect
  <1> HIDE DEF b
  <1>3. Nested(b)
    BY <1>2 DEF Nested
  <1>4. d.isr_depth = 0 /\ d.isr_prio = 0 /\ (d.in_isr <=> c.isr_depth = 1)
    BY <1>1, <1>2, <1>3, RetiEffect
  <1> HIDE DEF d
  <1>5. Nested(d)
    BY <1>4 DEF Nested
  <1>6. LevelsInService(d) = IF c.isr_depth = 1 THEN {0} ELSE {}
    BY <1>1, <1>4, <1>5, LevelsNested
  <1>7. c.isr_depth = 1 => LevelsInService(c) = {0, 1}
    BY LevelsNested DEF Nested
  <1>8. c.isr_depth # 1 => LevelsInService(c) = {} \/ LevelsInService(c) = {c.isr_prio}
    BY LevelsNested DEF Nested, Cpu, IsrStackLen
  <1>9. c.isr_prio \in 0..1
    BY DEF Cpu
  <1>10. QED
    BY <1>6, <1>7, <1>8, <1>9 DEF b, d

\* What keeps the core fields keeps the levels in service.
LEMMA SameLevels ==
    ASSUME NEW c, NEW d, Core(d) = Core(c)
    PROVE  LevelsInService(d) = LevelsInService(c)
  BY DEF Core, LevelsInService

\* An instruction that leaves the levels alone before the poll is an abstract
\* Accept or a stutter.
LEMMA PollImplements ==
    ASSUME NEW c, Sound(c), LevelsInService(c) = LevelsInService(cpu),
           cpu' = CheckInterrupts(c)
    PROVE  [Abstract!Next]_(LevelsInService(cpu))
  <1>1. LevelsInService(cpu)' = LevelsInService(CheckInterrupts(c))
    BY DEF LevelsInService
  <1>2. QED
    BY <1>1, CheckLevels DEF Abstract!Next, Abstract!Accept, Abstract!Above

\* Every step of the controller is a step of the abstract service levels.
LEMMA StepImplements ==
    ASSUME Sound(cpu), TypeOK', [Next]_vars
    PROVE  [Abstract!Next]_(LevelsInService(cpu))
  <1>0. cpu \in Cpu /\ cpu' \in Cpu /\ Nested(cpu)
    BY DEF Sound, TypeOK
  <1> DEFINE Same(d) == d \in Cpu /\ Core(d) = Core(cpu)
  <1>S. ASSUME NEW d, Same(d) PROVE Sound(d) /\ LevelsInService(d) = LevelsInService(cpu)
    BY <1>S, SameCore, SameLevels
  <1> HIDE DEF Same
  <1>1. CASE ExecOther
    BY <1>1, PollImplements DEF ExecOther, Instruction
  <1>2. CASE ExecWriteIE
    <2>1. PICK v \in IEWrites : Instruction([cpu EXCEPT !.ie = v])
      BY <1>2 DEF ExecWriteIE
    <2>2. Same([cpu EXCEPT !.ie = v])
      BY <1>0, InterruptsAssumption DEF Cpu, Core, Same
    <2>3. QED
      BY <2>1, <2>2, <1>S, PollImplements DEF Instruction
  <1>3. CASE ExecWriteIP
    <2>1. PICK v \in IPWrites : Instruction([cpu EXCEPT !.ip = v])
      BY <1>3 DEF ExecWriteIP
    <2>2. Same([cpu EXCEPT !.ip = v])
      BY <1>0, InterruptsAssumption DEF Cpu, Core, Same
    <2>3. QED
      BY <2>1, <2>2, <1>S, PollImplements DEF Instruction
  <1>4. CASE ExecSetFlag
    <2>1. PICK f \in Flags : Instruction([cpu EXCEPT !.flags = @ \cup {f}])
      BY <1>4 DEF ExecSetFlag
    <2>2. Same([cpu EXCEPT !.flags = @ \cup {f}])
      BY <1>0, FlagsAreFlags DEF Cpu, Core, Same
    <2>3. QED
      BY <2>1, <2>2, <1>S, PollImplements DEF Instruction
  <1>5. CASE ExecClearFlag
    <2>1. PICK f \in Flags : Instruction([cpu EXCEPT !.flags = @ \ {f}])
      BY <1>5 DEF ExecClearFlag
    <2>2. Same([cpu EXCEPT !.flags = @ \ {f}])
      BY <1>0 DEF Cpu, Core, Same
    <2>3. QED
      BY <2>1, <2>2, <1>S, PollImplements DEF Instruction
  <1>6. CASE ExecWritePCON
    <2>1. PICK v \in SUBSET {"IDL", "PD"} : Instruction(WritePcon(cpu, v))
      BY <1>6 DEF ExecWritePCON
    <2>2. Sound(WritePcon(cpu, v))
      BY <2>1, WritePconSound DEF Instruction, CanStep
    <2>3. LevelsInService(WritePcon(cpu, v)) = LevelsInService(cpu)
      BY <1>0 DEF WritePcon, LevelsInService, Cpu
    <2>4. QED
      BY <2>1, <2>2, <2>3, PollImplements DEF Instruction
  <1>7. CASE ExecWriteIT
    <2>1. PICK pin \in Lines : \/ Instruction([cpu EXCEPT !.it = @ \cup {pin}])
                               \/ Instruction([cpu EXCEPT !.it = @ \ {pin}])
      BY <1>7 DEF ExecWriteIT
    <2>2. /\ Same([cpu EXCEPT !.it = @ \cup {pin}])
          /\ Same([cpu EXCEPT !.it = @ \ {pin}])
      BY <1>0, InterruptsAssumption DEF Cpu, Core, Same
    <2>3. QED
      BY <2>1, <2>2, <1>S, PollImplements DEF Instruction
  <1>8. CASE ExecReti
    <2> DEFINE c == OnReti(PopPc(cpu))
               L == LevelsInService(cpu)
    <2>1. Sound(c) /\ cpu' = CheckInterrupts(c)
      BY <1>8, PopRetiSound DEF ExecReti, Instruction
    <2>2. LevelsInService(c) = {q \in L : \E r \in L : r > q}
      BY <1>0, RetiLevels
    <2> HIDE DEF c
    <2>3. L' = LevelsInService(CheckInterrupts(c))
      BY <2>1 DEF LevelsInService
    <2> HIDE DEF L
    <2>4. \/ L' = LevelsInService(c)
          \/ \E p \in {0, 1} : /\ \A q \in LevelsInService(c) : p > q
                               /\ L' = LevelsInService(c) \cup {p}
      BY <2>1, <2>3, CheckLevels
    <2>5. QED
      BY <2>2, <2>4
      DEF L, Abstract!Next, Abstract!Return, Abstract!ReturnAndAccept,
          Abstract!Above, Abstract!WithoutTop
  <1>9. CASE ExecStrayRet
    <2>1. Sound(PopPc(cpu)) /\ cpu' = CheckInterrupts(PopPc(cpu))
      BY <1>9, StrayRetSound DEF ExecStrayRet, Instruction
    <2>2. LevelsInService(PopPc(cpu)) = LevelsInService(cpu)
      <3> DEFINE b == PopPc(cpu)
      <3>1. /\ b.in_isr = cpu.in_isr /\ b.isr_prio = cpu.isr_prio
            /\ b.isr_depth = cpu.isr_depth /\ b.isr_stack = cpu.isr_stack
        BY <1>0, PopEffect
      <3> HIDE DEF b
      <3>2. LevelsInService(b) = LevelsInService(cpu)
        BY <3>1 DEF LevelsInService
      <3>3. QED
        BY <3>2 DEF b
    <2>3. QED
      BY <2>1, <2>2, PollImplements
  <1>10. CASE ExecInvalid \/ HookRaisesFlag \/ SetLevel \/ Wake
    <2>1. /\ cpu'.in_isr = cpu.in_isr /\ cpu'.isr_prio = cpu.isr_prio
          /\ cpu'.isr_depth = cpu.isr_depth /\ cpu'.isr_stack = cpu.isr_stack
      BY <1>0, <1>10 DEF ExecInvalid, HookRaisesFlag, SetLevel, Wake, Cpu
    <2>2. QED
      BY <2>1 DEF LevelsInService
  <1>11. CASE IdleCycle \/ UNCHANGED vars
    BY <1>11 DEF IdleCycle, vars, LevelsInService
  <1>12. CASE LoopEnd \/ Poll
    <2>1. cpu' = cpu \/ cpu' = CheckInterrupts(cpu)
      BY <1>12 DEF LoopEnd, PollWhenIdle, Poll
    <2>2. CASE cpu' = cpu
      BY <2>2 DEF LevelsInService
    <2>3. CASE cpu' = CheckInterrupts(cpu)
      BY <2>3, PollImplements
    <2>4. QED
      BY <2>1, <2>2, <2>3
  <1>13. CASE Reset
    <2>1. cpu'.in_isr = FALSE
      BY <1>13 DEF Reset, ResetKeepsLevels, PowerUp
    <2>2. LevelsInService(cpu)' = {}
      BY <2>1 DEF LevelsInService
    <2>3. QED
      BY <2>2 DEF Abstract!Next, Abstract!Reset
  <1>14. QED
    BY <1>1, <1>2, <1>3, <1>4, <1>5, <1>6, <1>7, <1>8, <1>9, <1>10, <1>11,
       <1>12, <1>13
    DEF Next, CpuStep, Loop, Host

\* The four nesting fields of cpu_t implement a set of service levels: a new
\* service is strictly above all of them, RETI ends the highest.
THEOREM ServiceLevelsImplemented == Spec => ImplementsServiceLevels
  <1>1. Init => Abstract!Init
    BY DEF Init, PowerUp, LevelsInService, Abstract!Init
  <1>2. Sound(cpu) /\ TypeOK' /\ [Next]_vars => [Abstract!Next]_(LevelsInService(cpu))
    BY StepImplements
  <1>3. QED
    BY <1>1, <1>2, AlwaysSound, TypeCorrect, PTL
    DEF Spec, ImplementsServiceLevels, Abstract!Spec
------------------------------------------------------------------------------
\* The polling sequence

LEMMA Ranks ==
    /\ Rank("INT0") = 1 /\ Rank("T0") = 2 /\ Rank("INT1") = 3
    /\ Rank("T1") = 4 /\ Rank("SERIAL") = 5 /\ Rank("T2") = 6
<1> DEFINE order == <<"INT0", "T0", "INT1", "T1", "SERIAL", "T2">>
<1>1. /\ order[1] = "INT0" /\ order[2] = "T0" /\ order[3] = "INT1"
      /\ order[4] = "T1" /\ order[5] = "SERIAL" /\ order[6] = "T2"
  OBVIOUS
<1>2. ASSUME NEW s, NEW n \in 1..6, order[n] = s
      PROVE  Rank(s) = n
  <2>1. \A i \in 1..6 : order[i] = s => i = n
    BY <1>1, <1>2
  <2> QED
    BY <1>2, <2>1 DEF Rank
<1> HIDE DEF order
<1> QED
  BY <1>1, <1>2

\* One source comes before another: the higher priority, then the earlier place.
Beats(c, b, s) ==
    \/ Prio(c, s) < Prio(c, b)
    \/ Prio(c, s) = Prio(c, b) /\ Rank(b) <= Rank(s)

\* b is the choice among the first n sources of the sequence.
Chosen(c, b, n) ==
    /\ b = NoSource \/ (b \in Sources /\ Acceptable(c, b) /\ Rank(b) <= n)
    /\ \A s \in Sources :
          Rank(s) <= n /\ Acceptable(c, s) => b \in Sources /\ Beats(c, b, s)

\* One comparison extends the choice by one source.
LEMMA PickChosen ==
    ASSUME NEW c, NEW b, NEW n \in 0..5, NEW s \in Sources, Rank(s) = n + 1,
           Chosen(c, b, n)
    PROVE  Chosen(c, Pick(c, b, s), n + 1)
<1> DEFINE p == Pick(c, b, s)
<1>0. /\ \A t \in Sources : Prio(c, t) \in 0..1 /\ Rank(t) \in 1..6
      /\ \A t \in Sources : Rank(t) <= n + 1 => Rank(t) <= n \/ t = s
      /\ NoSource \notin Sources
  BY Ranks DEF Prio, Sources, NoSource
<1>1. CASE ~Acceptable(c, s)
  <2>1. p = b
    BY <1>1 DEF Pick
  <2> QED
    BY <1>0, <1>1, <2>1 DEF Chosen
<1>2. CASE Acceptable(c, s) /\ b = NoSource
  <2>1. p = s
    BY <1>2 DEF Pick
  <2> QED
    BY <1>0, <1>2, <2>1 DEF Chosen, Beats
<1>3. CASE Acceptable(c, s) /\ b # NoSource
  <2>1. b \in Sources /\ Acceptable(c, b) /\ Rank(b) <= n
    BY <1>3 DEF Chosen
  <2>2. CASE Prio(c, s) > Prio(c, b)
    <3>1. p = s
      BY <1>3, <2>2 DEF Pick
    <3> QED
      BY <1>0, <1>3, <2>1, <2>2, <3>1 DEF Chosen, Beats
  <2>3. CASE ~(Prio(c, s) > Prio(c, b))
    <3>1. p = b
      BY <1>3, <2>3 DEF Pick
    <3> QED
      BY <1>0, <1>3, <2>1, <2>3, <3>1 DEF Chosen, Beats
  <2> QED
    BY <2>2, <2>3
<1> QED
  BY <1>1, <1>2, <1>3

\* The polling sequence chooses among all sources.
LEMMA ScanChosen ==
    ASSUME NEW c
    PROVE  Chosen(c, Scan(c), 6)
<1> DEFINE p1 == Pick(c, NoSource, "INT0")
           p2 == Pick(c, p1, "T0")
           p3 == Pick(c, p2, "INT1")
           p4 == Pick(c, p3, "T1")
           p5 == Pick(c, p4, "SERIAL")
           p6 == Pick(c, p5, "T2")
<1>0. Chosen(c, NoSource, 0)
  BY Ranks DEF Chosen, Sources
<1>s. {"INT0", "T0", "INT1", "T1", "SERIAL", "T2"} \subseteq Sources
  BY DEF Sources
<1>1. Chosen(c, p1, 1)
  <2>1. Chosen(c, p1, 0 + 1)
    BY <1>0, <1>s, Ranks, PickChosen
  <2> QED
    BY <2>1
<1> HIDE DEF p1
<1>2. Chosen(c, p2, 2)
  <2>1. Chosen(c, p2, 1 + 1)
    BY <1>1, <1>s, Ranks, PickChosen
  <2> QED
    BY <2>1
<1> HIDE DEF p2
<1>3. Chosen(c, p3, 3)
  <2>1. Chosen(c, p3, 2 + 1)
    BY <1>2, <1>s, Ranks, PickChosen
  <2> QED
    BY <2>1
<1> HIDE DEF p3
<1>4. Chosen(c, p4, 4)
  <2>1. Chosen(c, p4, 3 + 1)
    BY <1>3, <1>s, Ranks, PickChosen
  <2> QED
    BY <2>1
<1> HIDE DEF p4
<1>5. Chosen(c, p5, 5)
  <2>1. Chosen(c, p5, 4 + 1)
    BY <1>4, <1>s, Ranks, PickChosen
  <2> QED
    BY <2>1
<1> HIDE DEF p5
<1>6. Chosen(c, p6, 6)
  <2>1. Chosen(c, p6, 5 + 1)
    BY <1>5, <1>s, Ranks, PickChosen
  <2> QED
    BY <2>1
<1> HIDE DEF p6
<1>7. Scan(c) = p6
  BY DEF Scan, p6, p5, p4, p3, p2, p1
<1> QED
  BY <1>6, <1>7

------------------------------------------------------------------------------
\* One poll

\* A service takes nothing from IE and IP and raises no flag.
LEMMA ServiceKeeps ==
    ASSUME NEW c \in Cpu, NEW s \in Sources
    PROVE  LET d == Service(c, s)
           IN  d.ie = c.ie /\ d.ip = c.ip /\ d.flags \subseteq c.flags
<1> DEFINE a == LeaveIdle(c)
           b == PushPriority(a)
<1>1. a \in Cpu /\ a.ie = c.ie /\ a.ip = c.ip /\ a.flags = c.flags
  BY LeaveIdleType DEF LeaveIdle, Cpu
<1> HIDE DEF a
<1>2. b \in Cpu /\ b.ie = c.ie /\ b.ip = c.ip /\ b.flags = c.flags
  BY <1>1, PushType DEF PushPriority, Cpu
<1> HIDE DEF b
<1>3. /\ CallVector(b, s).ie = c.ie /\ CallVector(b, s).ip = c.ip
      /\ CallVector(b, s).flags \subseteq c.flags
  BY <1>2 DEF CallVector, Cpu
<1>4. Service(c, s) = CallVector(b, s)
  BY DEF Service, b, a
<1> QED
  BY <1>3, <1>4

\* A poll serves the source that the sequence chooses, or does nothing.
LEMMA PollForms ==
    ASSUME NEW c, Sound(c), NEW d, d = CheckInterrupts(c)
    PROVE  \/ d = c /\ (c.power_down \/ "EA" \notin c.ie \/ Scan(c) = NoSource)
           \/ /\ Scan(c) \in Sources /\ Acceptable(c, Scan(c)) /\ ~c.power_down
              /\ Serviced(c, Scan(c), d)
              /\ d.ie = c.ie /\ d.ip = c.ip /\ d.flags \subseteq c.flags
<1>1. CASE c.power_down \/ "EA" \notin c.ie \/ Scan(c) = NoSource
  BY <1>1 DEF CheckInterrupts
<1>2. CASE ~(c.power_down \/ "EA" \notin c.ie \/ Scan(c) = NoSource)
  <2>1. d = Service(c, Scan(c))
    BY <1>2 DEF CheckInterrupts
  <2>2. Scan(c) \in Sources /\ Acceptable(c, Scan(c)) /\ c \in Cpu /\ Nested(c)
    BY <1>2, ScanAcceptable DEF Sound
  <2> QED
    BY <1>2, <2>1, <2>2, ServiceEffect, ServiceKeeps
<1> QED
  BY <1>1, <1>2

\* Where a poll finds power-down or IE off, or leaves nothing acceptable.
LEMMA PollLeavesNothing ==
    ASSUME NEW c, Sound(c), NEW d, d = CheckInterrupts(c), ~d.power_down, "EA" \in d.ie,
           NEW s \in Sources
    PROVE  ~Acceptable(d, s)
<1>1. Chosen(c, Scan(c), 6) /\ Rank(s) <= 6 /\ NoSource \notin Sources
  BY ScanChosen, Ranks DEF Sources, NoSource
<1>2. CASE d = c /\ (c.power_down \/ "EA" \notin c.ie \/ Scan(c) = NoSource)
  BY <1>1, <1>2 DEF Chosen
<1>3. CASE /\ Scan(c) \in Sources /\ Acceptable(c, Scan(c)) /\ ~c.power_down
           /\ Serviced(c, Scan(c), d)
           /\ d.ie = c.ie /\ d.ip = c.ip /\ d.flags \subseteq c.flags
  <2> SUFFICES ASSUME Acceptable(d, s) PROVE FALSE
    OBVIOUS
  <2>1. d.in_isr /\ d.isr_prio = Prio(c, Scan(c)) /\ Prio(d, s) = Prio(c, s)
    BY <1>3 DEF Serviced, Prio
  <2>2. Prio(c, s) > Prio(c, Scan(c))
    BY <2>1 DEF Acceptable, Accepts
  <2>3. Pending(c, s)
    BY <1>3 DEF Acceptable, Pending
  <2>4. Prio(c, s) \in 0..1 /\ Prio(c, Scan(c)) \in 0..1 /\ (c.in_isr => c.isr_prio \in 0..1)
    BY DEF Prio, Sound, Cpu
  <2>5. Acceptable(c, s)
    BY <1>3, <2>2, <2>3, <2>4 DEF Acceptable, Accepts
  <2>6. Beats(c, Scan(c), s)
    BY <1>1, <2>5 DEF Chosen
  <2> QED
    BY <2>2, <2>4, <2>6 DEF Beats
<1> QED
  BY <1>2, <1>3, PollForms

\* A source that still asks after a service has the lower priority or the later place.
LEMMA ServiceIsBest ==
    ASSUME NEW c, Sound(c), NEW d, d = CheckInterrupts(c), d # c,
           NEW s \in Sources, s # d.at, Pending(d, s)
    PROVE  \/ Prio(d, s) < d.isr_prio
           \/ Prio(d, s) = d.isr_prio /\ Rank(d.at) < Rank(s)
<1> DEFINE b == Scan(c)
<1>1. /\ b \in Sources /\ Acceptable(c, b) /\ Serviced(c, b, d)
      /\ d.ie = c.ie /\ d.ip = c.ip /\ d.flags \subseteq c.flags
  BY PollForms
<1>2. Chosen(c, b, 6)
  BY ScanChosen
<1> HIDE DEF b
<1>3. d.at = b /\ d.isr_prio = Prio(c, b) /\ Prio(d, s) = Prio(c, s) /\ Pending(c, s)
  BY <1>1 DEF Serviced, Prio, Pending
<1>4. /\ Prio(c, s) \in 0..1 /\ Prio(c, b) \in 0..1 /\ (c.in_isr => c.isr_prio \in 0..1)
      /\ Rank(s) \in 1..6 /\ Rank(b) \in 1..6 /\ Rank(s) # Rank(b)
  <2>1. s # b
    BY <1>3
  <2> QED
    BY <1>1, <2>1, Ranks DEF Prio, Sources, Sound, Cpu
<1>5. CASE Acceptable(c, s)
  <2>1. Beats(c, b, s)
    BY <1>2, <1>4, <1>5 DEF Chosen
  <2> QED
    BY <1>3, <1>4, <2>1 DEF Beats
<1>6. CASE ~Acceptable(c, s)
  BY <1>1, <1>3, <1>4, <1>6 DEF Acceptable, Accepts
<1> QED
  BY <1>5, <1>6

------------------------------------------------------------------------------
\* What a step of the program is to the poll

\* A poll of c, which has the program counter of cpu or one popped from its stack.
Polled(c) ==
    /\ Sound(c) /\ cpu' = CheckInterrupts(c)
    /\ \/ c.at = cpu.at /\ c.stack = cpu.stack
       \/ /\ ~c.power_down
          /\ c.at = IF cpu.stack = <<>> THEN "main" ELSE cpu.stack[Len(cpu.stack)]
          /\ c.stack = IF cpu.stack = <<>> THEN <<>>
                       ELSE SubSeq(cpu.stack, 1, Len(cpu.stack) - 1)

Quiet ==
    /\ cpu'.at = cpu.at /\ cpu'.stack = cpu.stack
    /\ PollingStep => cpu'.power_down

Restarted ==
    /\ cpu'.at = "main" /\ cpu'.stack = <<>> /\ ~cpu'.power_down
    /\ ~PollingStep

LEMMA InstructionPolls ==
    ASSUME Sound(cpu), NEW c \in Cpu, Core(c) = Core(cpu), Instruction(c)
    PROVE  Polled(c)
BY SameCore DEF Instruction, Polled, Core

LEMMA PopPolls ==
    ASSUME Sound(cpu), NEW c, Sound(c), Instruction(c),
           c.at = PopPc(cpu).at, c.stack = PopPc(cpu).stack,
           c.power_down = cpu.power_down
    PROVE  Polled(c)
BY PopEffect DEF Instruction, Polled, CanStep, Sound

LEMMA StepForms ==
    ASSUME Sound(cpu), TypeOK', [Next]_vars
    PROVE  (\E c \in Cpu : Polled(c)) \/ Quiet \/ Restarted
<1>0. cpu \in Cpu /\ cpu' \in Cpu
  BY DEF Sound, TypeOK
<1>1. CASE ExecOther
  BY <1>0, <1>1, InstructionPolls DEF ExecOther
<1>2. CASE ExecWriteIE
  <2>1. PICK v \in IEWrites : Instruction([cpu EXCEPT !.ie = v])
    BY <1>2 DEF ExecWriteIE
  <2>2. /\ [cpu EXCEPT !.ie = v] \in Cpu
        /\ Core([cpu EXCEPT !.ie = v]) = Core(cpu)
    BY <1>0, InterruptsAssumption DEF Cpu, Core
  <2> QED
    BY <2>1, <2>2, InstructionPolls
<1>3. CASE ExecWriteIP
  <2>1. PICK v \in IPWrites : Instruction([cpu EXCEPT !.ip = v])
    BY <1>3 DEF ExecWriteIP
  <2>2. /\ [cpu EXCEPT !.ip = v] \in Cpu
        /\ Core([cpu EXCEPT !.ip = v]) = Core(cpu)
    BY <1>0, InterruptsAssumption DEF Cpu, Core
  <2> QED
    BY <2>1, <2>2, InstructionPolls
<1>4. CASE ExecSetFlag
  <2>1. PICK f \in Flags : Instruction([cpu EXCEPT !.flags = @ \cup {f}])
    BY <1>4 DEF ExecSetFlag
  <2>2. /\ [cpu EXCEPT !.flags = @ \cup {f}] \in Cpu
        /\ Core([cpu EXCEPT !.flags = @ \cup {f}]) = Core(cpu)
    BY <1>0, FlagsAreFlags DEF Cpu, Core
  <2> QED
    BY <2>1, <2>2, InstructionPolls
<1>5. CASE ExecClearFlag
  <2>1. PICK f \in Flags : Instruction([cpu EXCEPT !.flags = @ \ {f}])
    BY <1>5 DEF ExecClearFlag
  <2>2. /\ [cpu EXCEPT !.flags = @ \ {f}] \in Cpu
        /\ Core([cpu EXCEPT !.flags = @ \ {f}]) = Core(cpu)
    BY <1>0 DEF Cpu, Core
  <2> QED
    BY <2>1, <2>2, InstructionPolls
<1>6. CASE ExecWritePCON
  <2>1. PICK v \in SUBSET {"IDL", "PD"} : Instruction(WritePcon(cpu, v))
    BY <1>6 DEF ExecWritePCON
  <2>2. Sound(WritePcon(cpu, v))
    BY <2>1, WritePconSound DEF Instruction, CanStep
  <2>3. /\ WritePcon(cpu, v).at = cpu.at /\ WritePcon(cpu, v).stack = cpu.stack
        /\ WritePcon(cpu, v) \in Cpu
    BY <1>0, WritePconType DEF WritePcon, Cpu
  <2> QED
    BY <2>1, <2>2, <2>3 DEF Polled, Instruction
<1>7. CASE ExecWriteIT
  <2>1. PICK pin \in Lines : \/ Instruction([cpu EXCEPT !.it = @ \cup {pin}])
                             \/ Instruction([cpu EXCEPT !.it = @ \ {pin}])
    BY <1>7 DEF ExecWriteIT
  <2>2. /\ [cpu EXCEPT !.it = @ \cup {pin}] \in Cpu
        /\ Core([cpu EXCEPT !.it = @ \cup {pin}]) = Core(cpu)
        /\ [cpu EXCEPT !.it = @ \ {pin}] \in Cpu
        /\ Core([cpu EXCEPT !.it = @ \ {pin}]) = Core(cpu)
    BY <1>0, InterruptsAssumption DEF Cpu, Core
  <2> QED
    BY <2>1, <2>2, InstructionPolls
<1>8. CASE ExecReti
  <2> DEFINE b == PopPc(cpu)
             c == OnReti(b)
  <2>1. Instruction(c) /\ Sound(c) /\ c \in Cpu /\ b \in Cpu /\ Nested(b)
    <3>1. b \in Cpu /\ Nested(b)
      BY <1>0, PopType, PopEffect DEF Sound, Nested
    <3> QED
      BY <1>8, <3>1, PopRetiSound, RetiType DEF ExecReti
  <2>2. c.at = b.at /\ c.stack = b.stack /\ c.power_down = b.power_down
    BY <2>1, RetiEffect
  <2>3. b.power_down = cpu.power_down
    BY <1>0, PopEffect
  <2> HIDE DEF c
  <2> QED
    BY <2>1, <2>2, <2>3, PopPolls
<1>9. CASE ExecStrayRet
  <2>1. Instruction(PopPc(cpu)) /\ Sound(PopPc(cpu)) /\ PopPc(cpu) \in Cpu
    BY <1>0, <1>9, StrayRetSound, PopType DEF ExecStrayRet
  <2>2. PopPc(cpu).power_down = cpu.power_down
    BY <1>0, PopEffect
  <2> QED
    BY <2>1, <2>2, PopPolls
<1>10. CASE ExecInvalid \/ HookRaisesFlag \/ SetLevel \/ Wake
  BY <1>0, <1>10 DEF ExecInvalid, HookRaisesFlag, SetLevel, Wake, Quiet, PollingStep, Cpu
<1>11. CASE IdleCycle \/ UNCHANGED vars
  BY <1>11 DEF IdleCycle, vars, Quiet, PollingStep
<1>12. CASE LoopEnd
  BY <1>0, <1>12 DEF LoopEnd, PollWhenIdle, Polled, Quiet, PollingStep
<1>13. CASE Poll
  BY <1>0, <1>13 DEF Poll, Polled
<1>14. CASE Reset
  BY <1>14 DEF Reset, ResetKeepsLevels, PowerUp, Restarted, PollingStep
<1> QED
  BY <1>1, <1>2, <1>3, <1>4, <1>5, <1>6, <1>7, <1>8, <1>9, <1>10, <1>11, <1>12, <1>13,
     <1>14 DEF Next, CpuStep, Loop, Host

------------------------------------------------------------------------------
\* The theorems

\* After a poll no acceptable interrupt is left, though one poll serves at most one
\* (cpu.c:1494).
THEOREM PromptServiceCorrect == Spec => PromptService
<1>1. ASSUME Sound(cpu), TypeOK', [Next]_vars, PollingStep, ~cpu'.power_down, "EA" \in cpu'.ie,
             NEW s \in Fitted
      PROVE  ~Acceptable(cpu', s)
  <2>1. s \in Sources
    BY InterruptsAssumption
  <2>2. PICK c : Polled(c)
    BY <1>1, StepForms DEF Quiet, Restarted
  <2> QED
    BY <1>1, <2>1, <2>2, PollLeavesNothing DEF Polled
<1>2. Sound(cpu) /\ TypeOK' /\ [Next]_vars =>
        [ PollingStep /\ ~cpu'.power_down /\ "EA" \in cpu'.ie
            => \A s \in Fitted : ~Acceptable(cpu', s) ]_vars
  BY <1>1
<1> QED
  BY <1>2, AlwaysSound, TypeCorrect, PTL DEF Spec, PromptService

\* Only the best of the enabled requests is served (cpu.c:1494).
THEOREM ServesBestCorrect == Spec => ServesBest
<1>1. ASSUME Sound(cpu), TypeOK', [Next]_vars, Entered, cpu'.at \in Sources,
             NEW s \in Fitted \ {cpu'.at}, Pending(cpu', s)
      PROVE  \/ Prio(cpu', s) < cpu'.isr_prio
             \/ Prio(cpu', s) = cpu'.isr_prio /\ Rank(cpu'.at) < Rank(s)
  <2>0. cpu.stack \in Seq(Routines) /\ "main" \notin Sources /\ s \in Sources
    BY <1>1, InterruptsAssumption DEF Sound, Cpu, Sources
  <2>1. PICK c : Polled(c)
    BY <1>1, StepForms DEF Quiet, Restarted, Entered, Sources
  <2>2. cpu' # c
    <3> SUFFICES ASSUME cpu' = c PROVE FALSE
      OBVIOUS
    <3>1. CASE c.at = cpu.at /\ c.stack = cpu.stack
      BY <1>1, <3>1 DEF Entered
    <3>2. CASE cpu.stack = <<>> /\ c.at = "main"
      BY <1>1, <2>0, <3>2
    <3>3. CASE cpu.stack # <<>> /\ c.stack = SubSeq(cpu.stack, 1, Len(cpu.stack) - 1)
      <4>1. Len(c.stack) = Len(cpu.stack) - 1 /\ Len(cpu.stack) \in Nat
        BY <2>0, <3>3
      <4> QED
        BY <1>1, <4>1 DEF Entered
    <3> QED
      BY <2>1, <3>1, <3>2, <3>3 DEF Polled
  <2> QED
    BY <1>1, <2>0, <2>1, <2>2, ServiceIsBest DEF Polled
<1>2. Sound(cpu) /\ TypeOK' /\ [Next]_vars =>
        [ Entered /\ cpu'.at \in Sources
            => \A s \in Fitted \ {cpu'.at} :
                   Pending(cpu', s) =>
                       \/ Prio(cpu', s) < cpu'.isr_prio
                       \/ /\ Prio(cpu', s) = cpu'.isr_prio
                          /\ Rank(cpu'.at) < Rank(s) ]_vars
  BY <1>1
<1> QED
  BY <1>2, AlwaysSound, TypeCorrect, PTL DEF Spec, ServesBest

\* Nothing moves the program counter into or out of power-down (cpu.c:1494).
THEOREM PowerDownFreezesCorrect == Spec => PowerDownFreezes
<1>1. ASSUME Sound(cpu), TypeOK', [Next]_vars, cpu'.power_down
      PROVE  cpu'.at = cpu.at /\ cpu'.stack = cpu.stack
  <2>1. CASE Quiet
    BY <2>1 DEF Quiet
  <2>2. ASSUME NEW c, Polled(c)
        PROVE  cpu'.at = cpu.at /\ cpu'.stack = cpu.stack
    <3>1. cpu' = c
      <4>1. Serviced(c, Scan(c), cpu') => cpu'.power_down = c.power_down
        BY DEF Serviced
      <4> QED
        BY <1>1, <2>2, <4>1, PollForms DEF Polled
    <3> QED
      BY <1>1, <2>2, <3>1 DEF Polled
  <2> QED
    BY <1>1, <2>1, <2>2, StepForms DEF Restarted
<1>2. Sound(cpu) /\ TypeOK' /\ [Next]_vars =>
        [ cpu'.power_down => cpu'.at = cpu.at /\ cpu'.stack = cpu.stack ]_vars
  BY <1>1
<1> QED
  BY <1>2, AlwaysSound, TypeCorrect, PTL DEF Spec, PowerDownFreezes

------------------------------------------------------------------------------
\* The edge detector, where firmware switches the trigger only while the detector
\* knows the pin.

Detector(c) == <<c.it, c.prev, c.level>>

Watched(c) == \A pin \in Pins : pin \in c.it => (pin \in c.prev <=> pin \in c.level)

LEMMA ServiceDetector ==
    ASSUME NEW c \in Cpu, NEW s \in Sources
    PROVE  Detector(Service(c, s)) = Detector(c)
<1> DEFINE a == LeaveIdle(c)
           b == PushPriority(a)
<1>1. a \in Cpu /\ Detector(a) = Detector(c)
  BY LeaveIdleType DEF LeaveIdle, Cpu, Detector
<1> HIDE DEF a
<1>2. b \in Cpu /\ Detector(b) = Detector(c)
  BY <1>1, PushType DEF PushPriority, Cpu, Detector
<1> HIDE DEF b
<1>3. Detector(CallVector(b, s)) = Detector(c)
  BY <1>2 DEF CallVector, Cpu, Detector
<1> QED
  BY <1>3 DEF Service, b, a

LEMMA PollDetector ==
    ASSUME NEW c \in Cpu
    PROVE  Detector(CheckInterrupts(c)) = Detector(c)
BY ServiceDetector, ScanAcceptable DEF CheckInterrupts

LEMMA ReturnDetector ==
    ASSUME NEW c \in Cpu
    PROVE  Detector(PopPc(c)) = Detector(c) /\ Detector(OnReti(PopPc(c))) = Detector(c)
<1>1. PopPc(c) \in Cpu /\ Detector(PopPc(c)) = Detector(c)
  BY PopType DEF PopPc, Detector, Cpu
<1>2. ASSUME NEW b \in Cpu
      PROVE  Detector(OnReti(b)) = Detector(b)
  BY DEF OnReti, Detector, Cpu
<1> QED
  BY <1>1, <1>2

\* A step that keeps the detector, executes an instruction that switches a trigger,
\* samples a pin, or resets.
LEMMA WatchedStep ==
    ASSUME "switches_trigger" \notin Liberties, Sound(cpu), Watched(cpu), TypeOK', [Next]_vars
    PROVE  /\ Watched(cpu)'
           /\ \/ phase' # phase
              \/ Detector(cpu') = Detector(cpu) /\ \A pin \in Pins :
                     FlagOfPin(pin) \in cpu'.flags => FlagOfPin(pin) \in cpu.flags
              \/ SetLevel
              \/ Reset
<1>0. cpu \in Cpu /\ cpu' \in Cpu
  BY DEF Sound, TypeOK
<1>1. ASSUME NEW c \in Cpu, Instruction(c), Detector(c) = Detector(cpu)
      PROVE  Watched(cpu)' /\ phase' # phase
  BY <1>1, PollDetector DEF Instruction, CanStep, Detector, Watched
<1>2. CASE ExecOther
  BY <1>0, <1>1, <1>2 DEF ExecOther
<1>3. CASE ExecWriteIE
  <2>1. PICK v \in IEWrites : Instruction([cpu EXCEPT !.ie = v])
    BY <1>3 DEF ExecWriteIE
  <2>2. /\ [cpu EXCEPT !.ie = v] \in Cpu
        /\ Detector([cpu EXCEPT !.ie = v]) = Detector(cpu)
    BY <1>0, InterruptsAssumption DEF Cpu, Detector
  <2> QED
    BY <1>1, <2>1, <2>2
<1>4. CASE ExecWriteIP
  <2>1. PICK v \in IPWrites : Instruction([cpu EXCEPT !.ip = v])
    BY <1>4 DEF ExecWriteIP
  <2>2. /\ [cpu EXCEPT !.ip = v] \in Cpu
        /\ Detector([cpu EXCEPT !.ip = v]) = Detector(cpu)
    BY <1>0, InterruptsAssumption DEF Cpu, Detector
  <2> QED
    BY <1>1, <2>1, <2>2
<1>5. CASE ExecSetFlag
  <2>1. PICK f \in Flags : Instruction([cpu EXCEPT !.flags = @ \cup {f}])
    BY <1>5 DEF ExecSetFlag
  <2>2. /\ [cpu EXCEPT !.flags = @ \cup {f}] \in Cpu
        /\ Detector([cpu EXCEPT !.flags = @ \cup {f}]) = Detector(cpu)
    BY <1>0, FlagsAreFlags DEF Cpu, Detector
  <2> QED
    BY <1>1, <2>1, <2>2
<1>6. CASE ExecClearFlag
  <2>1. PICK f \in Flags : Instruction([cpu EXCEPT !.flags = @ \ {f}])
    BY <1>6 DEF ExecClearFlag
  <2>2. /\ [cpu EXCEPT !.flags = @ \ {f}] \in Cpu
        /\ Detector([cpu EXCEPT !.flags = @ \ {f}]) = Detector(cpu)
    BY <1>0 DEF Cpu, Detector
  <2> QED
    BY <1>1, <2>1, <2>2
<1>7. CASE ExecWritePCON
  <2>1. PICK v \in SUBSET {"IDL", "PD"} : Instruction(WritePcon(cpu, v))
    BY <1>7 DEF ExecWritePCON
  <2>2. WritePcon(cpu, v) \in Cpu /\ Detector(WritePcon(cpu, v)) = Detector(cpu)
    BY <1>0, WritePconType DEF WritePcon, Cpu, Detector
  <2> QED
    BY <1>1, <2>1, <2>2
<1>8. CASE ExecWriteIT
  <2>1. PICK pin \in Lines : /\ TriggerMaySwitch(pin)
                             /\ \/ Instruction([cpu EXCEPT !.it = @ \cup {pin}])
                                \/ Instruction([cpu EXCEPT !.it = @ \ {pin}])
    BY <1>8 DEF ExecWriteIT
  <2>2. ASSUME NEW c \in Cpu, Instruction(c), c.prev = cpu.prev, c.level = cpu.level,
               c.it \subseteq cpu.it \cup {pin}
        PROVE  Watched(cpu)' /\ phase' # phase
    <3>1. cpu'.prev = cpu.prev /\ cpu'.level = cpu.level /\ cpu'.it \subseteq cpu.it \cup {pin}
      BY <2>2, PollDetector DEF Instruction, Detector
    <3> QED
      BY <2>1, <2>2, <3>1 DEF Instruction, CanStep, Watched, TriggerMaySwitch
  <2>3. /\ [cpu EXCEPT !.it = @ \cup {pin}] \in Cpu
        /\ [cpu EXCEPT !.it = @ \ {pin}] \in Cpu
    <3> DEFINE S == cpu.it \cup {pin}
               T == cpu.it \ {pin}
    <3>1. S \in SUBSET Pins /\ T \in SUBSET Pins
      BY <1>0, InterruptsAssumption DEF Cpu
    <3> HIDE DEF S, T
    <3>2. [cpu EXCEPT !.it = S] \in Cpu /\ [cpu EXCEPT !.it = T] \in Cpu
      BY <1>0, <3>1 DEF Cpu
    <3> QED
      BY <3>2 DEF S, T
  <2> DEFINE edge == [cpu EXCEPT !.it = @ \cup {pin}]
             flat == [cpu EXCEPT !.it = @ \ {pin}]
  <2>4. /\ edge.prev = cpu.prev /\ edge.level = cpu.level /\ edge.it \subseteq cpu.it \cup {pin}
        /\ flat.prev = cpu.prev /\ flat.level = cpu.level /\ flat.it \subseteq cpu.it \cup {pin}
    BY <1>0 DEF Cpu
  <2> HIDE DEF edge, flat
  <2> QED
    BY <2>1, <2>2, <2>3, <2>4 DEF edge, flat
<1>9. CASE ExecReti
  <2>1. OnReti(PopPc(cpu)) \in Cpu /\ Instruction(OnReti(PopPc(cpu)))
    BY <1>0, <1>9, PopType, RetiType DEF ExecReti
  <2> QED
    BY <1>0, <1>1, <2>1, ReturnDetector
<1>10. CASE ExecStrayRet
  <2>1. PopPc(cpu) \in Cpu /\ Instruction(PopPc(cpu))
    BY <1>0, <1>10, PopType DEF ExecStrayRet
  <2> QED
    BY <1>0, <1>1, <2>1, ReturnDetector
<1>K. ASSUME Detector(cpu') = Detector(cpu)
      PROVE  Watched(cpu)'
  <2>1. cpu'.it = cpu.it /\ cpu'.prev = cpu.prev /\ cpu'.level = cpu.level
    BY <1>K DEF Detector
  <2> QED
    BY <2>1 DEF Watched
<1>11. CASE ExecInvalid \/ IdleCycle \/ Wake \/ UNCHANGED vars
  <2>1. Detector(cpu') = Detector(cpu) /\ cpu'.flags = cpu.flags
    BY <1>0, <1>11 DEF ExecInvalid, IdleCycle, Wake, vars, Detector, Cpu
  <2> QED
    BY <1>K, <2>1
<1>12. CASE HookRaisesFlag
  <2>1. PICK f \in PeripheralFlags : cpu' = [cpu EXCEPT !.flags = @ \cup {f}]
    BY <1>12 DEF HookRaisesFlag
  <2>2. Detector(cpu') = Detector(cpu) /\ cpu'.flags = cpu.flags \cup {f}
    BY <1>0, <2>1 DEF Detector, Cpu
  <2>3. \A pin \in Pins : FlagOfPin(pin) # f
    BY DEF FlagOfPin, Pins, PeripheralFlags
  <2> QED
    BY <1>K, <2>2, <2>3
<1>13. CASE LoopEnd \/ Poll
  <2>1. cpu' = cpu \/ cpu' = CheckInterrupts(cpu)
    BY <1>13 DEF LoopEnd, PollWhenIdle, Poll
  <2>2. Detector(cpu') = Detector(cpu)
    BY <1>0, <2>1, PollDetector
  <2>3. cpu'.flags \subseteq cpu.flags
    BY <2>1, PollForms
  <2> QED
    BY <1>K, <2>2, <2>3
<1>14. CASE SetLevel
  <2>1. PICK p \in Lines, high \in BOOLEAN :
            /\ cpu'.it = cpu.it
            /\ cpu'.prev = Sampled(cpu, p, high)
            /\ cpu'.level = SetPin(cpu.level, p, high)
    BY <1>0, <1>14 DEF SetLevel, Cpu
  <2>2. Watched(cpu)'
    BY <2>1 DEF Sampled, SetPin, Watched
  <2> QED
    BY <1>14, <2>2
<1>15. CASE Reset
  BY <1>15 DEF Reset, ResetKeepsLevels, PowerUp, Watched
<1> QED
  BY <1>2, <1>3, <1>4, <1>5, <1>6, <1>7, <1>8, <1>9, <1>10, <1>11, <1>12, <1>13, <1>14,
     <1>15 DEF Next, CpuStep, Loop, Host

\* The detector reports exactly the falling edges (cpu.c:1362), if firmware does not
\* switch the trigger of a pin that has moved since it was last seen.
THEOREM EdgeDetectionCorrect ==
    ASSUME "switches_trigger" \notin Liberties
    PROVE  Spec => EdgeDetection
<1>1. Init => Watched(cpu)
  BY DEF Init, PowerUp, Watched
<1>2. Sound(cpu) /\ TypeOK' /\ Watched(cpu) /\ [Next]_vars => Watched(cpu)'
  BY WatchedStep
<1>3. ASSUME Sound(cpu), TypeOK', Watched(cpu), [Next]_vars, phase' = phase,
             NEW pin \in Pins, pin \in cpu.it
      PROVE  LET fell == pin \in cpu.level /\ pin \notin cpu'.level
                 f == FlagOfPin(pin)
             IN  /\ fell => f \in cpu'.flags
                 /\ f \in cpu'.flags \ cpu.flags => fell
  <2>1. CASE Detector(cpu') = Detector(cpu) /\ \A p \in Pins :
                 FlagOfPin(p) \in cpu'.flags => FlagOfPin(p) \in cpu.flags
    BY <1>3, <2>1 DEF Detector
  <2>2. CASE SetLevel
    <3>1. PICK p \in Lines, high \in BOOLEAN :
              /\ cpu'.flags = Latch(cpu, p, high)
              /\ cpu'.level = SetPin(cpu.level, p, high)
      BY <2>2 DEF SetLevel, Sound, Cpu
    <3>2. p \in Pins
      BY InterruptsAssumption
    <3> QED
      BY <1>3, <3>1, <3>2 DEF Latch, SetPin, FlagOfPin, Watched, Pins
  <2>3. CASE Reset
    BY <2>3 DEF Reset, ResetKeepsLevels, PowerUp
  <2> QED
    BY <1>3, <2>1, <2>2, <2>3, WatchedStep
<1>4. Sound(cpu) /\ TypeOK' /\ Watched(cpu) /\ [Next]_vars =>
        [ \A pin \in Pins :
            pin \in cpu.it /\ phase' = phase =>
                LET fell == pin \in cpu.level /\ pin \notin cpu'.level
                    f == FlagOfPin(pin)
                IN  /\ fell => f \in cpu'.flags
                    /\ f \in cpu'.flags \ cpu.flags => fell ]_vars
  BY <1>3
<1> QED
  BY <1>1, <1>2, <1>4, AlwaysSound, TypeCorrect, PTL DEF Spec, EdgeDetection
=============================================================================
