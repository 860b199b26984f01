-------------------------------- MODULE Alu --------------------------------
(***************************************************************************)
(* The arithmetic of the instruction step.  rvgo/fast/vm.go and            *)
(* rvgo/slow/vm.go have the same text here, over two different sets of     *)
(* 64-bit operations; this module is that text, with the operations as     *)
(* parameters.  Numbers that depend on the width of a register are written *)
(* in terms of it: 0x3F is XLEN - 1, 0x1F is Half - 1, 31 is Half - 1.     *)
(***************************************************************************)
EXTENDS Integers

CONSTANTS
    XLEN,
    u64Mask, u32Mask, mask32Signed64(_), signExtend64(_, _),
    add64(_, _), sub64(_, _), mul64(_, _), div64(_, _), sdiv64(_, _), mod64(_, _), smod64(_, _),
    not64(_), lt64(_, _), gt64(_, _), slt64(_, _), sgt64(_, _), eq64(_, _),
    and64(_, _), or64(_, _), xor64(_, _), shl64(_, _), shr64(_, _), sar64(_, _),
    \* the upper half of a product: u256ToU64(shr(64, mul(x, y)))
    upper(_, _), signExtend64To256(_), u64ToU256(_)

Half == XLEN \div 2

\* The outcome of an instruction that reverts.
Illegal == -1

\* Opcode 0x13.  top is what the bits of the immediate above the shift amount
\* select.
OpImm(funct3, top, rs1, imm) ==
    CASE funct3 = 0 -> add64(rs1, imm)
      [] funct3 = 1 -> shl64(and64(imm, XLEN - 1), rs1)
      [] funct3 = 2 -> slt64(rs1, imm)
      [] funct3 = 3 -> lt64(rs1, imm)
      [] funct3 = 4 -> xor64(rs1, imm)
      [] funct3 = 5 /\ top = "logical"    -> shr64(and64(imm, XLEN - 1), rs1)
      [] funct3 = 5 /\ top = "arithmetic" -> sar64(and64(imm, XLEN - 1), rs1)
      [] funct3 = 6 -> or64(rs1, imm)
      [] funct3 = 7 -> and64(rs1, imm)
      [] OTHER -> Illegal

\* SRLW, SRLIW and SRAW, SRAIW.
ShiftRight32(shamt, rs1) == signExtend64(shr64(shamt, and64(rs1, u32Mask)), Half - 1)
ShiftSigned32(shamt, rs1) ==
    signExtend64(shr64(shamt, and64(rs1, u32Mask)), sub64(Half - 1, shamt))

\* Opcode 0x1B.  Bit 5 of the immediate of a shift must be clear.
OpImm32(funct3, top, rs1, imm) ==
    LET shamt    == and64(imm, Half - 1)
        reserved == and64(imm, Half) # 0
    IN  CASE funct3 = 0 -> mask32Signed64(add64(rs1, imm))
          [] funct3 = 1 /\ ~reserved -> mask32Signed64(shl64(shamt, rs1))
          [] funct3 = 5 /\ ~reserved /\ top = "logical"    -> ShiftRight32(shamt, rs1)
          [] funct3 = 5 /\ ~reserved /\ top = "arithmetic" -> ShiftSigned32(shamt, rs1)
          [] OTHER -> Illegal

\* Mutant: a division by zero goes to the divider.
MulDivZero(funct3, rs1, rs2) ==
    CASE funct3 = 0 -> mul64(rs1, rs2)
      [] funct3 = 1 -> upper(signExtend64To256(rs1), signExtend64To256(rs2))
      [] funct3 = 2 -> upper(signExtend64To256(rs1), u64ToU256(rs2))
      [] funct3 = 3 -> upper(u64ToU256(rs1), u64ToU256(rs2))
      [] funct3 = 4 -> sdiv64(rs1, rs2)
      [] funct3 = 5 -> div64(rs1, rs2)
      [] funct3 = 6 -> smod64(rs1, rs2)
      [] funct3 = 7 -> mod64(rs1, rs2)

\* Opcode 0x33 with funct7 = 1: MUL, MULH, MULHSU, MULHU, DIV, DIVU, REM, REMU.
MulDiv(funct3, rs1, rs2) ==
    CASE funct3 = 0 -> mul64(rs1, rs2)
      [] funct3 = 1 -> upper(signExtend64To256(rs1), signExtend64To256(rs2))
      [] funct3 = 2 -> upper(signExtend64To256(rs1), u64ToU256(rs2))
      [] funct3 = 3 -> upper(u64ToU256(rs1), u64ToU256(rs2))
      [] funct3 = 4 -> IF rs2 = 0 THEN u64Mask ELSE sdiv64(rs1, rs2)
      [] funct3 = 5 -> IF rs2 = 0 THEN u64Mask ELSE div64(rs1, rs2)
      [] funct3 = 6 -> IF rs2 = 0 THEN rs1 ELSE smod64(rs1, rs2)
      [] funct3 = 7 -> IF rs2 = 0 THEN rs1 ELSE mod64(rs1, rs2)

\* Opcode 0x33, without the M extension.  Only ADD, SUB and the right shifts
\* look at funct7.
OpReg(funct3, funct7, rs1, rs2) ==
    CASE funct3 = 0 /\ funct7 = 0  -> add64(rs1, rs2)
      [] funct3 = 0 /\ funct7 = 32 -> sub64(rs1, rs2)
      [] funct3 = 1 -> shl64(and64(rs2, XLEN - 1), rs1)
      [] funct3 = 2 -> slt64(rs1, rs2)
      [] funct3 = 3 -> lt64(rs1, rs2)
      [] funct3 = 4 -> xor64(rs1, rs2)
      [] funct3 = 5 /\ funct7 = 0  -> shr64(and64(rs2, XLEN - 1), rs1)
      [] funct3 = 5 /\ funct7 = 32 -> sar64(and64(rs2, XLEN - 1), rs1)
      [] funct3 = 6 -> or64(rs1, rs2)
      [] funct3 = 7 -> and64(rs1, rs2)
      [] OTHER -> Illegal

\* Opcode 0x3B: the second operand is cut to 32 bits at once, the first where
\* it is used.
MulDiv32(funct3, rs1, rs2) ==
    LET y == and64(rs2, u32Mask)
        x == and64(rs1, u32Mask)
    IN  CASE funct3 = 0 -> mask32Signed64(mul64(x, y))
          [] funct3 = 4 -> IF y = 0 THEN u64Mask
                           ELSE mask32Signed64(sdiv64(mask32Signed64(rs1), mask32Signed64(y)))
          [] funct3 = 5 -> IF y = 0 THEN u64Mask ELSE mask32Signed64(div64(x, y))
          [] funct3 = 6 -> IF y = 0 THEN mask32Signed64(rs1)
                           ELSE mask32Signed64(smod64(mask32Signed64(rs1), mask32Signed64(y)))
          [] funct3 = 7 -> IF y = 0 THEN mask32Signed64(rs1) ELSE mask32Signed64(mod64(x, y))
          [] OTHER -> Illegal

OpReg32(funct3, funct7, rs1, rs2) ==
    LET y     == and64(rs2, u32Mask)
        x     == and64(rs1, u32Mask)
        shamt == and64(y, Half - 1)
    IN  CASE funct3 = 0 /\ funct7 = 0  -> mask32Signed64(add64(x, y))
          [] funct3 = 0 /\ funct7 = 32 -> mask32Signed64(sub64(x, y))
          [] funct3 = 1 -> mask32Signed64(shl64(shamt, rs1))
          [] funct3 = 5 /\ funct7 = 0  -> ShiftRight32(shamt, rs1)
          [] funct3 = 5 /\ funct7 = 32 -> ShiftSigned32(shamt, rs1)
          [] OTHER -> Illegal

\* Opcode 0x63: whether the branch is taken; 2 and 3 never are.
Branch(funct3, rs1, rs2) ==
    CASE funct3 = 0 -> eq64(rs1, rs2)
      [] funct3 = 1 -> and64(not64(eq64(rs1, rs2)), 1)
      [] funct3 = 4 -> slt64(rs1, rs2)
      [] funct3 = 5 -> and64(not64(slt64(rs1, rs2)), 1)
      [] funct3 = 6 -> lt64(rs1, rs2)
      [] funct3 = 7 -> and64(not64(lt64(rs1, rs2)), 1)
      [] OTHER -> 0

\* What an AMO stores, from the value it loaded and its operand, both of them
\* sign-extended when the operation is a 32-bit one.
AmoResult(op, v, value) ==
    CASE op = "add"  -> add64(v, value)
      [] op = "swap" -> value
      [] op = "xor"  -> xor64(v, value)
      [] op = "or"   -> or64(v, value)
      [] op = "and"  -> and64(v, value)
      [] op = "min"  -> IF slt64(value, v) # 0 THEN value ELSE v
      [] op = "max"  -> IF sgt64(value, v) # 0 THEN value ELSE v
      [] op = "minu" -> IF lt64(value, v) # 0 THEN value ELSE v
      [] op = "maxu" -> IF gt64(value, v) # 0 THEN value ELSE v
      [] OTHER -> Illegal

\* Opcode 0x2F on a memory word: what rd gets, and what the word becomes; a
\* 32-bit operation writes the lower half of it.
Amo(op, is32, cell, rs2) ==
    LET v     == IF is32 THEN signExtend64(and64(cell, u32Mask), Half - 1) ELSE cell
        value == IF is32 THEN mask32Signed64(rs2) ELSE rs2
        new   == AmoResult(op, v, value)
    IN  IF new = Illegal THEN [rd |-> Illegal, cell |-> Illegal]
        ELSE [ rd   |-> v,
               cell |-> IF is32 THEN or64(and64(cell, not64(u32Mask)), and64(new, u32Mask))
                                ELSE new ]
=============================================================================
