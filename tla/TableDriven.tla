----------------------------- MODULE TableDriven ------------------------------
(***************************************************************************)
(* The library's other interpreter: the table of lib/instr_list.h, the     *)
(* operand access of lib/decoder.c and the exec functions of               *)
(* lib/instr_impl.c, as far as module Instructions covers cpu_step.  The   *)
(* public headers offer them, but the repository has no loop around them.  *)
(* The caller assumed here decodes the opcode, fetches the operands of the *)
(* row in the order in which the exec function of the mnemonic takes them  *)
(* and calls it.  The order of the row itself, dst before src, is not that *)
(* of the bytes in MOV direct,direct and CJNE.                             *)
(***************************************************************************)
EXTENDS Instructions

\* Rows: mnemonics, modes of dst and of src, size.
Rows(mns, dsts, srcs, size) == mns \X dsts \X srcs \X {size}

Table ==
    UNION {
        Rows({"MOV"}, {"AT_RI", "RN"}, {"IMM8", "DIRECT"}, 2),
        Rows({"MOV"}, {"AT_RI", "RN"}, {"A"}, 1),
        Rows({"MOV", "ANL", "ORL", "XRL"}, {"DIRECT"}, {"IMM8"}, 3),
        Rows({"MOV"}, {"DIRECT"}, {"AT_RI", "RN"}, 2),
        Rows({"MOV", "ANL", "ORL", "XRL"}, {"DIRECT"}, {"A"}, 2),
        Rows({"MOV", "ANL", "ORL", "XRL"}, {"A"}, {"IMM8", "DIRECT"}, 2),
        Rows({"MOV", "ANL", "ORL", "XRL"}, {"A"}, {"AT_RI", "RN"}, 1),
        Rows({"MOV_DIRECT_DIRECT"}, {"DIRECT"}, {"DIRECT"}, 3),
        Rows({"MOV_DPTR_IMM"}, {"ADDR16"}, {"NONE"}, 3),
        Rows({"ANL", "ORL"}, {"C"}, {"BIT", "BIT_NOT"}, 2),
        Rows({"MOV"}, {"C"}, {"BIT"}, 2),
        Rows({"MOV"}, {"BIT"}, {"C"}, 2),
        Rows({"INC", "DEC"}, {"A", "AT_RI", "RN"}, {"NONE"}, 1),
        Rows({"INC", "DEC", "XCH", "PUSH", "POP"}, {"DIRECT"}, {"NONE"}, 2),
        Rows({"INC"}, {"DPTR"}, {"NONE"}, 1),
        Rows({"XCH"}, {"AT_RI", "RN"}, {"NONE"}, 1),
        Rows({"XCHD"}, {"AT_RI"}, {"NONE"}, 1),
        Rows({"CLR", "CPL"}, {"A"}, {"NONE"}, 1),
        Rows({"CLR", "CPL", "SETB"}, {"C"}, {"NONE"}, 1),
        Rows({"CLR", "CPL", "SETB"}, {"BIT"}, {"NONE"}, 2),
        Rows({"JC", "JNC", "JZ", "JNZ", "SJMP"}, {"REL8"}, {"NONE"}, 2),
        Rows({"JB", "JNB", "JBC"}, {"BIT"}, {"REL8"}, 3),
        Rows({"DJNZ"}, {"DIRECT"}, {"REL8"}, 3),
        Rows({"DJNZ"}, {"RN"}, {"REL8"}, 2),
        Rows({"CJNE_A_IMM", "CJNE_AT_RI_IMM", "CJNE_RN_IMM"}, {"REL8"}, {"IMM8"}, 3),
        Rows({"CJNE_A_DIRECT"}, {"REL8"}, {"DIRECT"}, 3),
        Rows({"AJMP", "ACALL"}, {"ADDR11"}, {"NONE"}, 2),
        Rows({"LJMP", "LCALL"}, {"ADDR16"}, {"NONE"}, 3),
        Rows({"MOVX_A_AT_RI", "MOVX_AT_RI_A"}, {"AT_RI"}, {"NONE"}, 1),
        Rows({"NOP", "SWAP", "RL", "RR", "RET", "RETI", "JMPA_DPTR", "MOVC_A_DPTR", "MOVC_A_PC",
              "MOVX_A_DPTR", "MOVX_DPTR_A"}, {"NONE"}, {"NONE"}, 1)}

------------------------------------------------------------------------------
\* fetch_operand, read_op, write_op

\* fetch_operand with the bytes after the opcode from at on: the operand, and where
\* the next one is.  There is no case for BIT_NOT.
fetch_operand(mode, n, code, at) ==
    LET taken(arg, size) == [op |-> [mode |-> mode, arg |-> arg], next |-> at + size]
    IN  CASE mode \in {"IMM8", "DIRECT", "BIT", "REL8"} -> taken(code[at], 1)
          [] mode = "ADDR16" -> taken(code[at] * Byte + code[at + 1], 2)
          [] mode = "ADDR11" -> taken(n * Byte + code[at], 1)
          [] mode \in {"RN", "AT_RI"} -> taken(n, 0)
          [] OTHER -> taken(0, 0)

BankBase(m) == ((m.psw \div RsUnit) % Banks) * Regs

read_op(m, o) ==
    CASE o.mode = "A"       -> m.acc
      [] o.mode = "C"       -> Carry(m)
      [] o.mode = "IMM8"    -> o.arg
      [] o.mode = "DIRECT"  -> ReadDirect(m, o.arg)
      [] o.mode = "RN"      -> m.iram[BankBase(m) + o.arg]
      [] o.mode = "AT_RI"   -> m.iram[m.iram[BankBase(m) + o.arg]]
      [] o.mode = "BIT"     -> ReadBit(m, o.arg)
      [] o.mode = "BIT_NOT" -> 1 - ReadBit(m, o.arg)
      [] OTHER              -> 0

write_op(m, o, v) ==
    CASE o.mode = "A"       -> [m EXCEPT !.acc = v]
      [] o.mode = "C"       -> SetCarry(m, Truth(v # 0))
      [] o.mode = "DIRECT"  -> WriteDirect(m, o.arg, v)
      [] o.mode = "RN"      -> [m EXCEPT !.iram[BankBase(m) + o.arg] = v]
      [] o.mode = "AT_RI"   -> [m EXCEPT !.iram[m.iram[BankBase(m) + o.arg]] = v]
      [] o.mode = "BIT"     -> WriteBit(m, o.arg, Truth(v # 0))
      [] o.mode = "BIT_NOT" -> WriteBit(m, o.arg, Truth(v = 0))
      [] OTHER              -> m

------------------------------------------------------------------------------
\* The exec functions

Logic(m, i) ==
    write_op(m, i.dst, Combine(i.mn, read_op(m, i.dst), read_op(m, i.src)))

exec_inc(m, o) ==
    IF o.mode = "DPTR" THEN [m EXCEPT !.dptr = (@ + 1) % Word]
    ELSE write_op(m, o, (read_op(m, o) + 1) % Byte)

exec_cpl(m, o) ==
    CASE o.mode = "A"   -> [m EXCEPT !.acc = Byte - 1 - @]
      [] o.mode = "C"   -> SetCarry(m, 1 - Carry(m))
      [] o.mode = "BIT" -> WriteBit(m, o.arg, Truth(ReadBit(m, o.arg) = 0))

exec_rl(m) == [m EXCEPT !.acc = (@ * 2 + (@ \div Half)) % Byte]
exec_rr(m) == [m EXCEPT !.acc = ((@ \div 2) + @ * Half) % Byte]

exec_jump_rel(m, rel, take) == IF take THEN [m EXCEPT !.pc = (@ + Signed(rel)) % Word] ELSE m

exec_djnz(m, o, rel) ==
    LET left == (read_op(m, o) - 1) % Byte IN exec_jump_rel(write_op(m, o, left), rel, left # 0)

exec_cjne(m, lhs, rhs, rel) ==
    LET l == read_op(m, lhs)
        r == read_op(m, rhs)
    IN  exec_jump_rel(SetCarry(m, Truth(l < r)), rel, l # r)

exec_jbc(m, bit, rel) ==
    IF read_op(m, bit) # 0 THEN exec_jump_rel(write_op(m, bit, 0), rel, TRUE) ELSE m

exec_xch(m, o) == write_op([m EXCEPT !.acc = read_op(m, o)], o, m.acc)

exec_xchd(m, o) ==
    LET cell == m.iram[BankBase(m) + o.arg]
        low(v) == v % Nibble
    IN  [m EXCEPT !.acc = (@ \div Nibble) * Nibble + low(m.iram[cell]),
                  !.iram[cell] = (@ \div Nibble) * Nibble + low(m.acc)]

exec_lcall(m, target) ==
    LET lo == (m.sp + 1) % Byte
        hi == (m.sp + 2) % Byte
    IN  [m EXCEPT !.sp = hi, !.pc = target,
                  !.iram = [@ EXCEPT ![lo] = m.pc % Byte, ![hi] = m.pc \div Byte]]

exec_ret(m) ==
    [m EXCEPT !.sp = (@ - 2) % Byte,
              !.pc = m.iram[m.sp] * Byte + m.iram[(m.sp - 1) % Byte]]

exec_push(m, o) ==
    LET up == [m EXCEPT !.sp = (@ + 1) % Byte]
    IN  [up EXCEPT !.iram[up.sp] = read_op(up, o)]

exec_pop(m, o) ==
    LET stored == write_op(m, o, m.iram[m.sp]) IN [stored EXCEPT !.sp = (@ - 1) % Byte]

Exec(m, i) ==
    CASE i.mn = "NOP" -> m
      [] i.mn \in {"MOV", "MOV_DIRECT_DIRECT"} -> write_op(m, i.dst, read_op(m, i.src))
      [] i.mn = "MOV_DPTR_IMM" -> [m EXCEPT !.dptr = i.dst.arg]
      [] i.mn = "INC" -> exec_inc(m, i.dst)
      [] i.mn = "DEC" -> write_op(m, i.dst, (read_op(m, i.dst) - 1) % Byte)
      [] i.mn \in {"ANL", "ORL", "XRL"} -> Logic(m, i)
      [] i.mn = "XCH" -> exec_xch(m, i.dst)
      [] i.mn = "XCHD" -> exec_xchd(m, i.dst)
      [] i.mn = "SWAP" -> [m EXCEPT !.acc = (@ % Nibble) * Nibble + (@ \div Nibble)]
      [] i.mn = "RL" -> exec_rl(m)
      [] i.mn = "RR" -> exec_rr(m)
      [] i.mn = "CLR" -> IF i.dst.mode = "A" THEN [m EXCEPT !.acc = 0] ELSE write_op(m, i.dst, 0)
      [] i.mn = "CPL" -> exec_cpl(m, i.dst)
      [] i.mn = "SETB" -> write_op(m, i.dst, 1)
      [] i.mn = "MOVC_A_DPTR" -> [m EXCEPT !.acc = Rom[(m.dptr + @) % Word]]
      [] i.mn = "MOVC_A_PC" -> [m EXCEPT !.acc = Rom[(m.pc + @) % Word]]
      [] i.mn = "MOVX_A_DPTR" -> [m EXCEPT !.acc = Xdata[m.dptr]]
      [] i.mn = "MOVX_A_AT_RI" -> [m EXCEPT !.acc = Xdata[m.iram[BankBase(m) + i.dst.arg]]]
      [] i.mn = "MOVX_DPTR_A" -> [m EXCEPT !.bus = [addr |-> m.dptr, val |-> m.acc]]
      [] i.mn = "MOVX_AT_RI_A" ->
            [m EXCEPT !.bus = [addr |-> m.iram[BankBase(m) + i.dst.arg], val |-> m.acc]]
      [] i.mn = "JC"  -> exec_jump_rel(m, i.dst.arg, Carry(m) = 1)
      [] i.mn = "JNC" -> exec_jump_rel(m, i.dst.arg, Carry(m) # 1)
      [] i.mn = "JZ"  -> exec_jump_rel(m, i.dst.arg, m.acc = 0)
      [] i.mn = "JNZ" -> exec_jump_rel(m, i.dst.arg, m.acc # 0)
      [] i.mn = "JB"  -> exec_jump_rel(m, i.src.arg, read_op(m, i.dst) # 0)
      [] i.mn = "JNB" -> exec_jump_rel(m, i.src.arg, read_op(m, i.dst) = 0)
      [] i.mn = "JBC" -> exec_jbc(m, i.dst, i.src.arg)
      [] i.mn = "DJNZ" -> exec_djnz(m, i.dst, i.src.arg)
      [] i.mn \in {"CJNE_A_IMM", "CJNE_A_DIRECT", "CJNE_AT_RI_IMM", "CJNE_RN_IMM"} ->
            exec_cjne(m, i.lhs, i.src, i.dst.arg)
      [] i.mn = "SJMP" -> exec_jump_rel(m, i.dst.arg, TRUE)
      [] i.mn = "AJMP" -> [m EXCEPT !.pc = InPage(m, i.dst.arg)]
      [] i.mn = "LJMP" -> [m EXCEPT !.pc = i.dst.arg]
      [] i.mn = "JMPA_DPTR" -> [m EXCEPT !.pc = (m.dptr + m.acc) % Word]
      [] i.mn = "ACALL" -> exec_lcall(m, InPage(m, i.dst.arg))
      [] i.mn = "LCALL" -> exec_lcall(m, i.dst.arg)
      [] i.mn \in {"RET", "RETI"} -> exec_ret(m)
      [] i.mn = "PUSH" -> exec_push(m, i.dst)
      [] i.mn = "POP" -> exec_pop(m, i.dst)

------------------------------------------------------------------------------
\* The caller

\* The exec functions whose first parameter with operand bytes is the row's src:
\* exec_mov_direct_direct(src, dst) and exec_cjne(lhs, rhs, rel).
DstAlwaysFirst == {}
SrcParameterFirst ==
    {"MOV_DIRECT_DIRECT", "CJNE_A_IMM", "CJNE_A_DIRECT", "CJNE_AT_RI_IMM", "CJNE_RN_IMM"}

FetchOperands(row, n, code) ==
    LET srcFirst == row[1] \in SrcParameterFirst
        one == fetch_operand(IF srcFirst THEN row[3] ELSE row[2], n, code, 1)
        two == fetch_operand(IF srcFirst THEN row[2] ELSE row[3], n, code, one.next)
    IN  [size |-> two.next,
         instr |-> [mn |-> row[1],
                    dst |-> IF srcFirst THEN two.op ELSE one.op,
                    src |-> IF srcFirst THEN one.op ELSE two.op,
                    lhs |-> fetch_operand(LhsMode(row[1]), n, code, 1).op]]

TableStep(m, row, n, code) ==
    LET fetched == FetchOperands(row, n, code)
    IN  Exec([m EXCEPT !.pc = (@ + fetched.size) % Word], fetched.instr)
=============================================================================
