--------------------------------- MODULE Core ---------------------------------
(***************************************************************************)
(* cpu_step executing firmware, with interrupts between any two            *)
(* instructions.  What firmware does next is left open as far as it keeps  *)
(* to the usual discipline: pushes and pops, calls and returns nest, data  *)
(* is not stored over the stack, and an interrupt routine saves PSW and A, *)
(* turns to its own register bank, restores both and ends in RETI.  The    *)
(* history variable frames records what is on the stack by that            *)
(* discipline, and what an interrupt must find again when it is over.      *)
(***************************************************************************)
EXTENDS TableDriven, Sequences, FiniteSets

CONSTANTS
    Args,       \* the operands firmware uses, by addressing mode
    CodeBytes,  \* the bytes that follow an examined opcode
    Vectors,    \* the interrupt vectors
    StackBase,  \* what firmware sets SP to
    Data,       \* the addresses firmware stores data at
    MaxSteps,   \* bound on the steps that are not the frame of an interrupt routine
    Examining,  \* bound on the steps before a state whose every instruction is examined
    MaxNesting  \* bound on nested interrupts (2 in the code)

\* What the operands of an addressing mode can be.
Operands(mode) ==
    CASE mode \in {"IMM8", "DIRECT", "BIT", "BIT_NOT", "REL8"} -> Bytes
      [] mode \in {"RN", "AT_RI"} -> 0..(Regs - 1)
      [] mode = "ADDR11" -> 0..(Page - 1)
      [] mode = "ADDR16" -> 0..(Word - 1)
      [] OTHER -> {0}

\* What the number in the opcode of a row can be: a register or a page.
Numbers(row) ==
    LET modes == {row[2], row[3], LhsMode(row[1])}
    IN  IF "RN" \in modes THEN 0..(Regs - 1)
        ELSE IF "AT_RI" \in modes THEN 0..(Regs - 1) \cap {0, 1}
        ELSE IF "ADDR11" \in modes THEN 0..((Page \div Byte) - 1)
        ELSE {0}

ASSUME CoreAssumption ==
    /\ \A mode \in DOMAIN Args : Args[mode] \subseteq Operands(mode)
    /\ DOMAIN Args = {"A", "C", "DPTR", "NONE", "IMM8", "DIRECT", "BIT", "BIT_NOT", "REL8", "RN",
                      "AT_RI", "ADDR11", "ADDR16"}
    /\ CodeBytes \subseteq Bytes
    /\ Vectors \subseteq 0..(Word - 1)
    /\ StackBase \in Regs * Banks..(Byte - 1)
    /\ Data \subseteq Bytes \ {SP, PSW}
    /\ \A a \in Data : a < Regs \/ a \in Half..(Byte - 1) \/ a \in Regs * Banks..StackBase

VARIABLES
    m,        \* the CPU
    frames,   \* history: what the stack holds, oldest first
    left      \* the steps still allowed

vars == <<m, frames, left>>

Init ==
    /\ m = Reset
    /\ frames = <<>>
    /\ left = MaxSteps

------------------------------------------------------------------------------
\* The instructions firmware is made of

OperandSet(mode) == {[mode |-> mode, arg |-> x] : x \in Args[mode]}

Rendered(row) ==
    {[mn |-> row[1], dst |-> d, src |-> s, lhs |-> l] :
        d \in OperandSet(row[2]), s \in OperandSet(row[3]), l \in OperandSet(LhsMode(row[1]))}

Instructions == UNION {Rendered(row) : row \in Table}
Named(mns) == {i \in Instructions : i.mn \in mns}

Moves == Named({"MOV", "MOV_DIRECT_DIRECT", "MOV_DPTR_IMM", "XCH", "XCHD", "SWAP", "RL", "RR",
                "MOVC_A_DPTR", "MOVC_A_PC", "MOVX_A_DPTR", "MOVX_A_AT_RI", "MOVX_DPTR_A", "MOVX_AT_RI_A"})
Logicals == Named({"ANL", "ORL", "XRL", "CLR", "CPL", "SETB"})
Counts == Named({"INC", "DEC"})
Loops == Named({"DJNZ", "JBC"})
Jumps == Named({"NOP", "SJMP", "AJMP", "LJMP", "JMPA_DPTR", "JC", "JNC", "JZ", "JNZ", "JB", "JNB"})
Compares == Named({"CJNE_A_IMM", "CJNE_A_DIRECT", "CJNE_AT_RI_IMM", "CJNE_RN_IMM"})
Calls == Named({"ACALL", "LCALL"})
Pushes == Named({"PUSH"})
Pops == Named({"POP"})
Ret == [mn |-> "RET", dst |-> NoOperand, src |-> NoOperand, lhs |-> NoOperand]
Reti == [Ret EXCEPT !.mn = "RETI"]

------------------------------------------------------------------------------
\* The discipline of firmware

Kinds(k) == {n \in 1..Len(frames) : frames[n].kind = k}
Top == frames[Len(frames)]
Unwound(fs) == SubSeq(fs, 1, Len(fs) - 1)
InIsr == Kinds("isr") # {}
Isr == CHOOSE n \in Kinds("isr") : \A k \in Kinds("isr") : k <= n
IsrStage == frames[Isr].stage

\* Pushed since the last interrupt.
Saved == {frames[n].from : n \in (Isr + 1)..Len(frames)}

\* Neither in the prologue nor in the epilogue of an interrupt routine.
InBody == InIsr => IsrStage = "body"

\* What an instruction stores to: PUSH and the branches that store nothing aside.
Storable(o) ==
    CASE o.mode = "DIRECT" -> o.arg \in Data
      [] o.mode = "AT_RI"  -> AtCell(m, o.arg) \in Data \ (Half..(Byte - 1))
      [] o.mode = "BIT"    -> o.arg = PSW + CyBit \/ ByteOf(o.arg) \in Data
      [] OTHER -> TRUE

\* An interrupt routine keeps to A, the carry and its own register bank.
Own(o) == o.mode \in {"A", "C", "RN", "NONE"} \/ o = [mode |-> "DIRECT", arg |-> ACC]

MayStore(o) == Storable(o) /\ (InIsr => Own(o))

------------------------------------------------------------------------------
\* Instructions

Executes(i) == m' = CpuStep(m, i)

Step == left > 0 /\ left' = left - 1

\* An instruction that leaves the stack alone.
Body == Step /\ InBody /\ UNCHANGED frames

ExecMove == Body /\ \E i \in Moves : MayStore(i.dst) /\ Executes(i)
ExecLogic == Body /\ \E i \in Logicals : MayStore(i.dst) /\ Executes(i)
ExecCount == Body /\ \E i \in Counts : MayStore(i.dst) /\ Executes(i)
ExecLoop == Body /\ \E i \in Loops : MayStore(i.dst) /\ Executes(i)
ExecCompare == Body /\ \E i \in Compares : Executes(i)
ExecJump == Body /\ \E i \in Jumps : Executes(i)

ExecSetStack ==
    /\ frames = <<>> /\ m.sp = Regs - 1
    /\ Executes([mn |-> "MOV", dst |-> [mode |-> "DIRECT", arg |-> SP],
                 src |-> [mode |-> "IMM8", arg |-> StackBase], lhs |-> NoOperand])
    /\ UNCHANGED <<frames, left>>

\* Firmware sets SP before it uses the stack: where cpu_reset leaves SP, the stack
\* grows into the second register bank.  It leaves room for what is pushed: SP
\* wraps at the end of internal RAM without a check.
Deeper(f) ==
    /\ frames = <<>> => m.sp = StackBase
    /\ m.sp + Len(f.bytes) < Byte
    /\ frames' = Append(frames, f)
LowHigh(pc) == <<pc % Byte, pc \div Byte>>

ExecCall ==
    /\ Step /\ InBody
    /\ \E i \in Calls :
          LET ret == Fetched(m, i).pc
          IN  /\ Executes(i)
              /\ Deeper([kind |-> "call", bytes |-> LowHigh(ret), ret |-> ret, sp |-> m.sp])

ExecRet ==
    /\ InBody /\ frames # <<>> /\ Top.kind = "call"
    /\ Executes(Ret)
    /\ frames' = Unwound(frames)
    /\ UNCHANGED left

\* An interrupt routine first saves PSW and A, in either order.
ExecPush ==
    /\ InIsr => IsrStage # "leave"
    /\ IF InIsr /\ IsrStage = "enter" THEN UNCHANGED left ELSE Step
    /\ \E i \in Pushes :
          /\ InIsr /\ IsrStage = "enter" => i.dst.arg \in {PSW, ACC} \ Saved
          /\ InIsr /\ IsrStage = "body" => i.dst.arg = ACC
          /\ Executes(i)
          /\ LET v == ReadDirect([m EXCEPT !.sp = (@ + 1) % Byte], i.dst.arg)
             IN  Deeper([kind |-> "push", bytes |-> <<v>>, from |-> i.dst.arg, sp |-> m.sp])

\* The bank change that ends the prologue.
ExecSelectBank ==
    /\ InIsr /\ IsrStage = "enter" /\ Len(frames) = Isr + 2
    /\ Executes([mn |-> "MOV", dst |-> [mode |-> "DIRECT", arg |-> PSW],
                 src |-> [mode |-> "IMM8", arg |-> RsUnit], lhs |-> NoOperand])
    /\ frames' = [frames EXCEPT ![Isr].stage = "body",
                                 ![Isr].exact = @ /\ frames[Isr + 1].from = PSW]
    /\ UNCHANGED left

\* A pushed value may be popped anywhere but to SP and, unless it is PSW, to PSW;
\* the two saves of a routine are popped last, each to its register.
ExecPop ==
    /\ frames # <<>> /\ Top.kind = "push"
    /\ \E i \in Pops :
          /\ Executes(i)
          /\ \/ /\ InBody /\ (InIsr => Len(frames) > Isr + 2)
                /\ (MayStore(i.dst) \/ i.dst.arg = PSW) /\ (i.dst.arg = PSW => Top.from = PSW)
                /\ frames' = Unwound(frames)
             \/ /\ InIsr /\ IsrStage # "enter" /\ Len(frames) <= Isr + 2
                /\ i.dst.arg = Top.from
                /\ frames' = Unwound([frames EXCEPT ![Isr].stage = "leave"])
    /\ UNCHANGED left

\* A routine that may leave another P leaves it in the routines it interrupted, too.
ExecReti ==
    /\ InIsr /\ IsrStage = "leave" /\ Len(frames) = Isr
    /\ Executes(Reti)
    /\ frames' = [n \in 1..(Len(frames) - 1) |->
                      IF frames[n].kind = "isr"
                      THEN [frames[n] EXCEPT !.exact = @ /\ Top.exact] ELSE frames[n]]
    /\ UNCHANGED left

\* cpu_service_interrupt, at the end of any instruction.
Context(c) == [acc |-> c.acc, psw |-> c.psw, sp |-> c.sp, pc |-> c.pc, b |-> c.b,
               dptr |-> c.dptr, bank0 |-> SubSeq([n \in 1..Regs |-> c.iram[n - 1]], 1, Regs)]

EnterVectorHighFirst(v) == Jump(Stacked(Stacked(m, m.pc \div Byte), m.pc % Byte), v)
EnterVector(v) == Jump(Stacked(Stacked(m, m.pc % Byte), m.pc \div Byte), v)

Interrupt ==
    /\ Step
    /\ Cardinality(Kinds("isr")) < MaxNesting
    /\ \E v \in Vectors : m' = EnterVector(v)
    /\ Deeper([kind |-> "isr", bytes |-> LowHigh(m.pc), stage |-> "enter", exact |-> TRUE,
               ctx |-> Context(m), sp |-> m.sp])

Next ==
    \/ ExecMove \/ ExecLogic \/ ExecCount \/ ExecLoop \/ ExecCompare \/ ExecJump
    \/ ExecSetStack \/ ExecCall \/ ExecRet \/ ExecPush \/ ExecSelectBank \/ ExecPop
    \/ ExecReti \/ Interrupt

Spec == Init /\ [][Next]_vars

------------------------------------------------------------------------------
\* Properties

\* Where frame n ends, or where the first one starts.
EndOf(n) == IF n = 0 THEN StackBase ELSE frames[n].sp + Len(frames[n].bytes)

\* Internal RAM up to SP holds, byte for byte, the return addresses and pushed
\* values of everything that is not yet over, whatever mix of calls, pushes and
\* interrupts put them there and whatever data instructions ran in between.
StackIntact ==
    /\ m.sp = EndOf(Len(frames)) \/ (frames = <<>> /\ m.sp = Regs - 1)
    /\ \A n \in 1..Len(frames) :
          /\ frames[n].sp = EndOf(n - 1)
          /\ \A k \in 1..Len(frames[n].bytes) : m.iram[frames[n].sp + k] = frames[n].bytes[k]

UpToParity(c) == [c EXCEPT !.psw = PutBit(@, 0, 0)]

\* Firmware resumes where it was left.  RET leads back behind its call, with SP as
\* before.  When an interrupt is over, PC, SP, A, B, DPTR, the register bank and
\* the flags are as before, wherever it struck.  P too, but only if the routine and
\* those that interrupt it restore PSW last: a write to PSW leaves a P that does
\* not fit A, and cpu_step recomputes P when A is restored.
Resumes ==
    [][ Len(frames') < Len(frames) =>
            CASE Top.kind = "call" -> m'.pc = Top.ret /\ m'.sp = Top.sp
              [] Top.kind = "push" -> TRUE
              [] Top.kind = "isr"  ->
                    /\ UpToParity(Context(m')) = UpToParity(Top.ctx)
                    /\ Top.exact => m'.psw = Top.ctx.psw ]_vars

Examined == frames = <<>> /\ MaxSteps - left <= Examining

\* ANL and ORL with the complement of a bit, where the two interpreters differ.
Complemented(i) == i.src.mode = "BIT_NOT"

\* Both interpreters make the same of an opcode and the bytes after it, for a
\* caller that fetches operands in the order of the exec functions' parameters:
\* which byte is which operand, and what is done with it.  Except that the exec
\* functions leave P alone and fetch_operand forgets the operand of ANL C,/bit
\* and ORL C,/bit; and cpu_step consumes what the table says.
TableAgrees ==
    Examined =>
        \A row \in Table : \A n \in Numbers(row), code \in CodeBytes \X CodeBytes :
            LET i == Decoded(row, n, code)
            IN  /\ \/ Complemented(i)
                   \/ UpToParity(TableStep(m, row, n, code)) = UpToParity(CpuStep(m, i))
                /\ Fetched(m, i).pc = (m.pc + row[4]) % Word

BitAddresses == 0..(Half - 1) \cup {PSW + k : k \in 1..CyBit} \cup {ACC + k : k \in 0..CyBit}

\* Every bit address names one bit: writing it is seen there and nowhere else.
BitAddressing ==
    Examined =>
        \A b \in BitAddresses, v \in 0..1 :
            LET after == WriteBit(m, b, v)
            IN  \A c \in BitAddresses : ReadBit(after, c) = IF c = b THEN v ELSE ReadBit(m, c)
=============================================================================
