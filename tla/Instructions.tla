----------------------------- MODULE Instructions -----------------------------
(***************************************************************************)
(* The instructions of cpu_step in lib/cpu.c that move data, count,        *)
(* combine bits, branch, call and return, as functions from one state of   *)
(* the CPU to the next.  Accumulator arithmetic is in module Alu, what     *)
(* instructions do to the interrupt controller in module Interrupts.       *)
(*                                                                         *)
(* A byte has Bits bits.  An instruction is a row of the table of          *)
(* instr_list.h, <<mnemonic, mode of dst, mode of src, size>>, with its    *)
(* operands [mode, arg]: Decoded takes arg from the bytes after the opcode *)
(* and from the number in the opcode.  CJNE compares lhs, which its row    *)
(* does not list.                                                          *)
(***************************************************************************)
EXTENDS Integers

CONSTANTS
    Bits,      \* bits of a byte (8 in the code)
    Regs,      \* registers of a bank (8)
    Banks,     \* register banks (4)
    RsUnit,    \* the weight of the bank field in PSW (8)
    BitBase,   \* the first bit-addressable byte of internal RAM (0x20)
    Page,      \* what an 11-bit address spans (0x800)
    SP, DPL, DPH, PSW, ACC, B,   \* addresses of the special function registers
    Rom, Xdata \* what the host's memory callbacks return for an address

\* The weight of bit k.
Weight[k \in 0..Bits] == IF k = 0 THEN 1 ELSE 2 * Weight[k - 1]

Byte == Weight[Bits]
Half == Weight[Bits - 1]
Word == Byte * Byte
Bytes == 0..(Byte - 1)

\* SFRs with a register of the CPU behind them.
Hooked == <<SP, DPL, DPH, PSW, ACC, B>>

ASSUME InstructionsAssumption ==
    /\ Bits \in Nat \ {0, 1} /\ Bits % 2 = 0
    /\ Regs \in Nat \ {0} /\ Banks \in Nat \ {0, 1}
    /\ RsUnit \in Nat \ {0} /\ RsUnit % 2 = 0
    /\ Half % Bits = 0 /\ Half % (RsUnit * Banks) = 0
    /\ Page \in Nat \ {0} /\ Word % Page = 0 /\ Page % Byte = 0
    /\ BitBase \in Nat
    /\ Regs * Banks <= BitBase
    /\ BitBase + (Half \div Bits) <= Half
    /\ \A i \in 1..6 : Hooked[i] \in Half..(Byte - 1)
    /\ \A i, j \in 1..6 : Hooked[i] = Hooked[j] => i = j
    /\ PSW % Bits = 0 /\ ACC % Bits = 0   \* bit-addressable
    /\ Rom \in [0..(Word - 1) -> Bytes] /\ Xdata \in [0..(Word - 1) -> Bytes]

\* The registers, memories and bus of the CPU.
Cpu == [acc : Bytes, b : Bytes, psw : Bytes, sp : Bytes, dptr : 0..(Word - 1), pc : 0..(Word - 1),
        iram : [Bytes -> Bytes], sfr : [Half..(Byte - 1) -> Bytes],
        bus : [addr : 0..(Word - 1), val : Bytes]]

Reset == [acc |-> 0, b |-> 0, psw |-> 0, sp |-> Regs - 1, dptr |-> 0, pc |-> 0,
          iram |-> [c \in Bytes |-> 0], sfr |-> [a \in Half..(Byte - 1) |-> 0],
          bus |-> [addr |-> 0, val |-> 0]]   \* the last write to external RAM

------------------------------------------------------------------------------
\* Bits of a byte and flags

Bit(v, k) == (v \div Weight[k]) % 2
PutBit(v, k, b) == v + (b - Bit(v, k)) * Weight[k]

AndBit(x, y) == x * y
OrBit(x, y) == x + y - x * y
XorBit(x, y) == (x + y) % 2

CombineBits(mn, x, y) ==
    CASE mn = "ANL" -> AndBit(x, y)
      [] mn = "ORL" -> OrBit(x, y)
      [] mn = "XRL" -> XorBit(x, y)

\* ANL, ORL and XRL, bit by bit from bit 0.
Combine(mn, v, w) ==
    LET low[n \in 0..Bits] ==
            IF n = 0 THEN 0
            ELSE low[n - 1] + CombineBits(mn, Bit(v, n - 1), Bit(w, n - 1)) * Weight[n - 1]
    IN  low[Bits]

CyBit == Bits - 1
Carry(m) == Bit(m.psw, CyBit)
SetCarry(m, b) == [m EXCEPT !.psw = PutBit(@, CyBit, b)]
Truth(b) == IF b THEN 1 ELSE 0

Parity(v) ==
    LET ones[n \in 0..Bits] == IF n = 0 THEN 0 ELSE ones[n - 1] + Bit(v, n - 1)
    IN  ones[Bits] % 2

\* The end of cpu_step: P follows an accumulator that changed.
Retire(old, new) ==
    IF new.acc = old.acc THEN new ELSE [new EXCEPT !.psw = PutBit(@, 0, Parity(new.acc))]

------------------------------------------------------------------------------
\* Memory: direct, by register, by bit

\* SFRs behind a hook live in the CPU, the others in sfr.
ReadDirect(m, a) ==
    CASE a < Half -> m.iram[a]
      [] a = ACC -> m.acc
      [] a = B   -> m.b
      [] a = PSW -> m.psw
      [] a = SP  -> m.sp
      [] a = DPL -> m.dptr % Byte
      [] a = DPH -> m.dptr \div Byte
      [] OTHER   -> m.sfr[a]

SetHigh(w, v) == v * Byte + (w % Byte)

WriteDirect(m, a, v) ==
    CASE a < Half -> [m EXCEPT !.iram[a] = v]
      [] a = ACC -> [m EXCEPT !.acc = v]
      [] a = B   -> [m EXCEPT !.b = v]
      [] a = PSW -> [m EXCEPT !.psw = v]
      [] a = SP  -> [m EXCEPT !.sp = v]
      [] a = DPL -> [m EXCEPT !.dptr = @ - (@ % Byte) + v]
      [] a = DPH -> [m EXCEPT !.dptr = SetHigh(@, v)]
      [] OTHER   -> [m EXCEPT !.sfr[a] = v]

\* Where bit address b lives.
ByteOfModulo(b) == IF b < Half THEN BitBase + (b % Bits) ELSE b - (b % Bits)
ByteOf(b) == IF b < Half THEN BitBase + b \div Bits ELSE b - (b % Bits)

ReadBit(m, b) == Bit(ReadDirect(m, ByteOf(b)), b % Bits)
WriteBit(m, b, v) ==
    WriteDirect(m, ByteOf(b), PutBit(ReadDirect(m, ByteOf(b)), b % Bits, v))

BankZero(m) == 0
Bank(m) == (m.psw \div RsUnit) % Banks
RegCell(m, n) == Bank(m) * Regs + n
AtCell(m, n) == m.iram[RegCell(m, n)]

\* What the cases of cpu_step read and write by each addressing mode.
Value(m, o) ==
    CASE o.mode = "A"      -> m.acc
      [] o.mode = "IMM8"   -> o.arg
      [] o.mode = "DIRECT" -> ReadDirect(m, o.arg)
      [] o.mode = "RN"     -> m.iram[RegCell(m, o.arg)]
      [] o.mode = "AT_RI"  -> m.iram[AtCell(m, o.arg)]

Store(m, o, v) ==
    CASE o.mode = "A"      -> [m EXCEPT !.acc = v]
      [] o.mode = "DIRECT" -> WriteDirect(m, o.arg, v)
      [] o.mode = "RN"     -> [m EXCEPT !.iram[RegCell(m, o.arg)] = v]
      [] o.mode = "AT_RI"  -> [m EXCEPT !.iram[AtCell(m, o.arg)] = v]

------------------------------------------------------------------------------
\* Data

Mov(m, i) == Store(m, i.dst, Value(m, i.src))

MovDptr(m, i) == [m EXCEPT !.dptr = i.dst.arg]

Inc(m, i) ==
    IF i.dst.mode = "DPTR"
    THEN [m EXCEPT !.dptr = (@ + 1) % Word]
    ELSE Store(m, i.dst, (Value(m, i.dst) + 1) % Byte)
Dec(m, i) == Store(m, i.dst, (Value(m, i.dst) - 1) % Byte)

Orl(m, i) == Store(m, i.dst, Combine("ORL", Value(m, i.dst), Value(m, i.src)))
Anl(m, i) == Store(m, i.dst, Combine("ANL", Value(m, i.dst), Value(m, i.src)))
Xrl(m, i) == Store(m, i.dst, Combine("XRL", Value(m, i.dst), Value(m, i.src)))

Xch(m, i) == Store([m EXCEPT !.acc = Value(m, i.dst)], i.dst, m.acc)

Nibble == Weight[Bits \div 2]
Swap(m) == [m EXCEPT !.acc = (@ % Nibble) * Nibble + (@ \div Nibble)]

\* RL and RR leave the carry out; RLC and RRC are in module Alu.
RotateAround(m) == [m EXCEPT !.acc = ((2 * @) % Byte) + (@ \div Half)]
RotateBack(m) == [m EXCEPT !.acc = (@ \div 2) + (@ % 2) * Half]

\* XCHD takes the low nibble of the memory cell and leaves it that of A.
Xchd(m, i) ==
    LET c == AtCell(m, i.dst.arg)
    IN  [m EXCEPT !.acc = @ - (@ % Nibble) + (m.iram[c] % Nibble),
                  !.iram[c] = @ - (@ % Nibble) + (m.acc % Nibble)]

\* External memory: the address is DPTR, or the byte @Ri holds.
MovcADptr(m) == [m EXCEPT !.acc = Rom[(m.dptr + @) % Word]]
MovcAPc(m) == [m EXCEPT !.acc = Rom[(m.pc + @) % Word]]
MovxRead(m, addr) == [m EXCEPT !.acc = Xdata[addr]]
MovxWrite(m, addr) == [m EXCEPT !.bus = [addr |-> addr, val |-> m.acc]]

ClrA(m) == [m EXCEPT !.acc = 0]
CplA(m) == [m EXCEPT !.acc = Byte - 1 - @]

------------------------------------------------------------------------------
\* Single bits: o is the carry or a bit

MovToCarry(m, o) == SetCarry(m, ReadBit(m, o.arg))
MovFromCarry(m, o) == WriteBit(m, o.arg, Carry(m))
SetBit(m, o) == IF o.mode = "C" THEN SetCarry(m, 1) ELSE WriteBit(m, o.arg, 1)
ClearBit(m, o) == IF o.mode = "C" THEN SetCarry(m, 0) ELSE WriteBit(m, o.arg, 0)
CplBit(m, o) ==
    IF o.mode = "C" THEN SetCarry(m, 1 - Carry(m))
    ELSE WriteBit(m, o.arg, 1 - ReadBit(m, o.arg))

\* ORL C,bit and ANL C,bit, and the same with the complement of the bit, each
\* touch the carry only when the bit decides it.
Plain(m, o) == IF o.mode = "BIT_NOT" THEN 1 - ReadBit(m, o.arg) ELSE ReadBit(m, o.arg)
OrlCarry(m, o) == IF Plain(m, o) = 1 THEN SetCarry(m, 1) ELSE m
AnlCarry(m, o) == IF Plain(m, o) = 0 THEN SetCarry(m, 0) ELSE m

------------------------------------------------------------------------------
\* Branches

Rel(i) == IF i.dst.mode = "REL8" THEN i.dst.arg ELSE i.src.arg
Signed(v) == IF v < Half THEN v ELSE v - Byte
Branch(m, rel, taken) == IF taken THEN [m EXCEPT !.pc = (@ + Signed(rel)) % Word] ELSE m
Jump(m, target) == [m EXCEPT !.pc = target]

\* The 11-bit address replaces the low bits of the PC after the instruction.
InPage(m, addr11) == m.pc - (m.pc % Page) + addr11
JumpADptr(m) == Jump(m, (m.dptr + m.acc) % Word)

BranchOnFlag(m, i) ==
    Branch(m, Rel(i), CASE i.mn = "JC"  -> Carry(m) = 1
                       [] i.mn = "JNC" -> Carry(m) = 0
                       [] i.mn = "JZ"  -> m.acc = 0
                       [] i.mn = "JNZ" -> m.acc # 0)

BranchOnBit(m, i) ==
    LET b == ReadBit(m, i.dst.arg)
    IN  CASE i.mn = "JB"  -> Branch(m, Rel(i), b = 1)
          [] i.mn = "JNB" -> Branch(m, Rel(i), b = 0)
          [] i.mn = "JBC" -> IF b = 1 THEN Branch(WriteBit(m, i.dst.arg, 0), Rel(i), TRUE)
                             ELSE m

Cjne(m, i) ==
    LET left == Value(m, i.lhs)
        right == Value(m, i.src)
    IN  Branch(SetCarry(m, Truth(left < right)), Rel(i), left # right)

Djnz(m, i) ==
    LET left == (Value(m, i.dst) - 1) % Byte
    IN  Branch(Store(m, i.dst, left), Rel(i), left # 0)

------------------------------------------------------------------------------
\* The stack

Stacked(m, v) ==
    LET top == (m.sp + 1) % Byte IN [m EXCEPT !.sp = top, !.iram[top] = v]

\* ACALL and LCALL: the low byte of the return address first.
PushPc(m) == Stacked(Stacked(m, m.pc % Byte), m.pc \div Byte)

Call(m, target) == Jump(PushPc(m), target)

Return(m) ==
    [m EXCEPT !.pc = m.iram[m.sp] * Byte + m.iram[(m.sp - 1) % Byte],
              !.sp = (@ - 2) % Byte]

\* PUSH moves SP before it reads its operand, POP after it wrote it.
Push(m, a) ==
    LET up == [m EXCEPT !.sp = (@ + 1) % Byte]
    IN  [up EXCEPT !.iram[up.sp] = ReadDirect(up, a)]
Pop(m, a) ==
    LET stored == WriteDirect(m, a, m.iram[m.sp])
    IN  [stored EXCEPT !.sp = (@ - 1) % Byte]

------------------------------------------------------------------------------
\* cpu_step without arithmetic: fetch, then the case of the opcode

OperandBytes(mode) ==
    CASE mode \in {"DIRECT", "IMM8", "BIT", "BIT_NOT", "REL8", "ADDR11"} -> 1
      [] mode = "ADDR16" -> 2
      [] OTHER -> 0

\* An operand: n is the number in the opcode, a register or a page, and code the
\* bytes after the opcode, of which the operand's are from at on.
Operand(mode, n, code, at) ==
    [mode |-> mode,
     arg |-> CASE mode \in {"DIRECT", "IMM8", "BIT", "BIT_NOT", "REL8"} -> code[at]
               [] mode = "ADDR11" -> n * Byte + code[at]
               [] mode = "ADDR16" -> code[at] * Byte + code[at + 1]
               [] mode \in {"RN", "AT_RI"} -> n
               [] OTHER -> 0]

NoOperand == [mode |-> "NONE", arg |-> 0]

\* What CJNE compares.
LhsMode(mn) ==
    CASE mn \in {"CJNE_A_IMM", "CJNE_A_DIRECT"} -> "A"
      [] mn = "CJNE_RN_IMM" -> "RN"
      [] mn = "CJNE_AT_RI_IMM" -> "AT_RI"
      [] OTHER -> "NONE"

\* The cases that fetch src before dst.
SrcFetchedFirst ==
    {"MOV_DIRECT_DIRECT", "CJNE_A_IMM", "CJNE_A_DIRECT", "CJNE_AT_RI_IMM", "CJNE_RN_IMM"}

Decoded(row, n, code) ==
    LET srcFirst == row[1] \in SrcFetchedFirst
        dstAt == IF srcFirst THEN 1 + OperandBytes(row[3]) ELSE 1
        srcAt == IF srcFirst THEN 1 ELSE 1 + OperandBytes(row[2])
    IN  [mn |-> row[1], dst |-> Operand(row[2], n, code, dstAt),
         src |-> Operand(row[3], n, code, srcAt), lhs |-> Operand(LhsMode(row[1]), n, code, 1)]

Fetched(m, i) ==
    [m EXCEPT !.pc = (@ + 1 + OperandBytes(i.dst.mode) + OperandBytes(i.src.mode)) % Word]

OnA(i) == i.dst.mode = "A"
FromBit(i) == i.src.mode \in {"BIT", "BIT_NOT"}

Execute(m, i) ==
    CASE i.mn = "NOP" -> m
      [] i.mn = "MOV" /\ i.dst.mode = "C" -> MovToCarry(m, i.src)
      [] i.mn = "MOV" /\ i.src.mode = "C" -> MovFromCarry(m, i.dst)
      [] i.mn = "MOV" /\ "C" \notin {i.dst.mode, i.src.mode} -> Mov(m, i)
      [] i.mn = "MOV_DIRECT_DIRECT" -> Mov(m, i)
      [] i.mn = "MOV_DPTR_IMM" -> MovDptr(m, i)
      [] i.mn = "INC" -> Inc(m, i)
      [] i.mn = "DEC" -> Dec(m, i)
      [] i.mn = "ORL" -> IF FromBit(i) THEN OrlCarry(m, i.src) ELSE Orl(m, i)
      [] i.mn = "ANL" -> IF FromBit(i) THEN AnlCarry(m, i.src) ELSE Anl(m, i)
      [] i.mn = "XRL" -> Xrl(m, i)
      [] i.mn = "XCH" -> Xch(m, i)
      [] i.mn = "XCHD" -> Xchd(m, i)
      [] i.mn = "SWAP" -> Swap(m)
      [] i.mn = "RL" -> RotateAround(m)
      [] i.mn = "RR" -> RotateBack(m)
      [] i.mn = "CLR" -> IF OnA(i) THEN ClrA(m) ELSE ClearBit(m, i.dst)
      [] i.mn = "CPL" -> IF OnA(i) THEN CplA(m) ELSE CplBit(m, i.dst)
      [] i.mn = "SETB" -> SetBit(m, i.dst)
      [] i.mn = "MOVC_A_DPTR" -> MovcADptr(m)
      [] i.mn = "MOVC_A_PC" -> MovcAPc(m)
      [] i.mn = "MOVX_A_DPTR" -> MovxRead(m, m.dptr)
      [] i.mn = "MOVX_A_AT_RI" -> MovxRead(m, AtCell(m, i.dst.arg))
      [] i.mn = "MOVX_DPTR_A" -> MovxWrite(m, m.dptr)
      [] i.mn = "MOVX_AT_RI_A" -> MovxWrite(m, AtCell(m, i.dst.arg))
      [] i.mn \in {"JC", "JNC", "JZ", "JNZ"} -> BranchOnFlag(m, i)
      [] i.mn \in {"JB", "JNB", "JBC"} -> BranchOnBit(m, i)
      [] i.mn \in {"CJNE_A_IMM", "CJNE_A_DIRECT", "CJNE_AT_RI_IMM", "CJNE_RN_IMM"} -> Cjne(m, i)
      [] i.mn = "DJNZ" -> Djnz(m, i)
      [] i.mn = "SJMP" -> Branch(m, Rel(i), TRUE)
      [] i.mn = "AJMP" -> Jump(m, InPage(m, i.dst.arg))
      [] i.mn = "LJMP" -> Jump(m, i.dst.arg)
      [] i.mn = "JMPA_DPTR" -> JumpADptr(m)
      [] i.mn = "ACALL" -> Call(m, InPage(m, i.dst.arg))
      [] i.mn = "LCALL" -> Call(m, i.dst.arg)
      [] i.mn \in {"RET", "RETI"} -> Return(m)
      [] i.mn = "PUSH" -> Push(m, i.dst.arg)
      [] i.mn = "POP" -> Pop(m, i.dst.arg)

CpuStep(m, i) == Retire(m, Execute(Fetched(m, i), i))
=============================================================================
