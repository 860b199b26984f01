---------------------------- MODULE AluLockstep ----------------------------
(***************************************************************************)
(* A program of arithmetic instructions on two words, run by the fast VM,  *)
(* and what the slow VM and the RISC-V manual make of every instruction it *)
(* may come to.                                                            *)
(***************************************************************************)
EXTENDS Yul256

Fast == INSTANCE FastAlu
Slow == INSTANCE SlowAlu
ISA  == INSTANCE AluISA

VARIABLES
    a,  \* the register rs1, or the memory word an atomic operation addresses
    b   \* the register rs2

vars == <<a, b>>

Funct3 == 0..7
Funct7 == {0, 1, 32, 2}  \* 2 stands for the values that select nothing
Top    == {"logical", "arithmetic", "reserved"}
AmoOp  == {"add", "swap", "xor", "or", "and", "min", "max", "minu", "maxu", "unknown"}

\* The instructions, by opcode.
Instr ==
    [opcode : {19, 27}, funct3 : Funct3, top : Top, imm : Word]
    \union [opcode : {51, 59}, funct3 : Funct3, funct7 : Funct7]
    \union [opcode : {99}, funct3 : Funct3]

\* riscvStep: the value an instruction gives rd, or the outcome of a branch.
FastResult(i) ==
    CASE i.opcode = 19 -> Fast!OpImm(i.funct3, i.top, a, i.imm)
      [] i.opcode = 27 -> Fast!OpImm32(i.funct3, i.top, a, i.imm)
      [] i.opcode = 51 -> IF i.funct7 = 1 THEN Fast!MulDiv(i.funct3, a, b)
                          ELSE Fast!OpReg(i.funct3, i.funct7, a, b)
      [] i.opcode = 59 -> IF i.funct7 = 1 THEN Fast!MulDiv32(i.funct3, a, b)
                          ELSE Fast!OpReg32(i.funct3, i.funct7, a, b)
      [] i.opcode = 99 -> Fast!Branch(i.funct3, a, b)

\* The slow VM has the same instructions over its own arithmetic.
SlowImm(i) ==
    IF i.opcode = 19 THEN Slow!OpImm(i.funct3, i.top, a, i.imm)
    ELSE Slow!OpImm32(i.funct3, i.top, a, i.imm)

SlowReg(i) ==
    IF i.funct7 = 1 THEN Slow!MulDiv(i.funct3, a, b)
    ELSE Slow!OpReg(i.funct3, i.funct7, a, b)

SlowReg32(i) ==
    IF i.funct7 = 1 THEN Slow!MulDiv32(i.funct3, a, b)
    ELSE Slow!OpReg32(i.funct3, i.funct7, a, b)

SlowBranch(i) == Slow!Branch(i.funct3, a, b)

SlowAmo(op, is32) == Slow!Amo(op, is32, a, b)

SlowResult(i) ==
    CASE i.opcode \in {19, 27} -> SlowImm(i)
      [] i.opcode = 51 -> SlowReg(i)
      [] i.opcode = 59 -> SlowReg32(i)
      [] i.opcode = 99 -> SlowBranch(i)

ManualResult(i) ==
    CASE i.opcode = 19 -> ISA!OpImm(i.funct3, i.top, a, i.imm)
      [] i.opcode = 27 -> ISA!OpImm32(i.funct3, i.top, a, i.imm)
      [] i.opcode = 51 -> IF i.funct7 = 1 THEN ISA!MulDiv(i.funct3, a, b)
                          ELSE ISA!OpReg(i.funct3, i.funct7, a, b)
      [] i.opcode = 59 -> IF i.funct7 = 1 THEN ISA!MulDiv32(i.funct3, a, b)
                          ELSE ISA!OpReg32(i.funct3, i.funct7, a, b)
      [] i.opcode = 99 -> ISA!Branch(i.funct3, a, b)

Init == a = 0 /\ b = 0

\* rd is either of the two registers.
Execute(i) ==
    LET result == FastResult(i)
    IN  /\ i.opcode # 99
        /\ result # Fast!Illegal
        /\ \/ a' = result /\ UNCHANGED b
           \/ b' = result /\ UNCHANGED a

Atomic(op, is32) ==
    LET result == Fast!Amo(op, is32, a, b)
    IN  /\ result.rd # Fast!Illegal
        /\ a' = result.cell
        /\ b' = result.rd

Next ==
    \/ \E i \in Instr : Execute(i)
    \/ \E op \in AmoOp, is32 \in BOOLEAN : Atomic(op, is32)

Spec == Init /\ [][Next]_vars

-----------------------------------------------------------------------------
(* Properties.                                                             *)

\* Native arithmetic and arithmetic made of EVM opcodes give every instruction
\* the same result, and revert on the same instructions: without this the
\* post-state of the fast VM could not be proven on chain.
VMsAgree ==
    /\ \A i \in Instr : SlowResult(i) = FastResult(i)
    /\ \A op \in AmoOp, is32 \in BOOLEAN : SlowAmo(op, is32) = Fast!Amo(op, is32, a, b)

\* Every instruction that the RISC-V manual defines computes what it defines,
\* at the ends of the range too: division by zero, the quotient that overflows,
\* shifts of 32-bit values, signed and unsigned minima of sign-extended words.
MatchesManual ==
    /\ \A i \in Instr : ManualResult(i) # ISA!Reserved => FastResult(i) = ManualResult(i)
    /\ \A op \in AmoOp \ {"unknown"}, is32 \in BOOLEAN :
          Fast!Amo(op, is32, a, b) = ISA!Amo(op, is32, a, b)

=============================================================================
