------------------------------- MODULE Decode ------------------------------
(***************************************************************************)
(* How an instruction word is taken apart (fast/parse.go, and the operands *)
(* that riscvStep makes of the immediates).  The slow VM and the on-chain  *)
(* VM have the same functions.                                             *)
(*                                                                         *)
(* A word is the set of the positions of its ones: a shift adds to the     *)
(* positions, and, or and masks are intersection, union and ranges.        *)
(*                                                                         *)
(* The other side is the assembler: the layouts of the RISC-V manual, by   *)
(* which an instruction is put together bit by bit.                        *)
(***************************************************************************)
EXTENDS Integers, FiniteSets

CONSTANTS
    MaxBits,    \* how many bits of an immediate differ from the others
    MaxOthers   \* and how many of the other fields
ASSUME BoundsAssumption == MaxBits \in Nat /\ MaxOthers \in Nat

VARIABLES
    kind,   \* the kind of instruction that is assembled
    imm,    \* the ones of its immediate, as the manual numbers them
    rest    \* the ones of its other fields, by their place in the word

decodeVars == <<kind, imm, rest>>

-----------------------------------------------------------------------------
(* Arithmetic on 64-bit words.                                             *)

and64(v, mask) == v \cap mask
or64(v, w) == v \cup w
shl64(n, v) == {k + n : k \in v} \cap (0 .. 63)
shr64(n, v) == {k - n : k \in {j \in v : j >= n}}

signExtend64(v, bit) ==
    IF bit \in v THEN v \cup (bit .. 63) ELSE v \cap (0 .. bit)

\* A mask of the n lowest bits: 0x1F is Low(5).
Low(n) == 0 .. n - 1

-----------------------------------------------------------------------------
(* parse.go                                                                *)

parseImmTypeI(instr) == signExtend64(shr64(20, instr), 11)

parseImmTypeS(instr) ==
    signExtend64(or64(shl64(5, shr64(25, instr)), and64(shr64(7, instr), Low(5))), 11)

\* Mutant: bits 11 and 12 of a branch offset are swapped.
parseImmTypeBSwapped(instr) ==
    signExtend64(
        or64(or64(shl64(1, and64(shr64(8, instr), Low(4))),
                  shl64(5, and64(shr64(25, instr), Low(6)))),
             or64(shl64(12, and64(shr64(7, instr), Low(1))),
                  shl64(11, shr64(31, instr)))),
        12)

parseImmTypeB(instr) ==
    signExtend64(
        or64(or64(shl64(1, and64(shr64(8, instr), Low(4))),
                  shl64(5, and64(shr64(25, instr), Low(6)))),
             or64(shl64(11, and64(shr64(7, instr), Low(1))),
                  shl64(12, shr64(31, instr)))),
        12)

parseImmTypeU(instr) == signExtend64(shr64(12, instr), 19)

parseImmTypeJ(instr) ==
    signExtend64(
        or64(or64(and64(shr64(21, instr), Low(10)),
                  shl64(10, and64(shr64(20, instr), Low(1)))),
             or64(shl64(11, and64(shr64(12, instr), Low(8))),
                  shl64(19, shr64(31, instr)))),
        19)

parseOpcode(instr) == and64(instr, Low(7))
parseRd(instr) == and64(shr64(7, instr), Low(5))
parseFunct3(instr) == and64(shr64(12, instr), Low(3))

parseRs1(instr) == and64(shr64(15, instr), Low(5))
parseRs2(instr) == and64(shr64(20, instr), Low(5))
parseFunct7(instr) == shr64(25, instr)

-----------------------------------------------------------------------------
(* What riscvStep makes of an immediate.                                   *)

\* The address of a load or store, the target of JALR, ADDI and the like.
LoadOffset(instr) == signExtend64(parseImmTypeI(instr), 11)
StoreOffset(instr) == signExtend64(parseImmTypeS(instr), 11)

\* Relative to the program counter.
BranchOffset(instr) == parseImmTypeB(instr)
JumpOffset(instr) == signExtend64(shl64(1, parseImmTypeJ(instr)), 20)

\* LUI and AUIPC.
LoadUpper(instr) == shl64(12, parseImmTypeU(instr))
AddUpper(instr) == signExtend64(shl64(12, parseImmTypeU(instr)), 31)

\* SRLI, SRAI: the six upper bits of the immediate select the shift, the six
\* lower ones are its amount.
ShiftType(instr) == shr64(6, parseImmTypeI(instr))
ShiftAmount(instr) == and64(parseImmTypeI(instr), Low(6))

\* SRLIW, SRAIW: seven and five, and a sixth bit of the amount is illegal.
ShiftType32(instr) == shr64(5, parseImmTypeI(instr))
ShiftAmount32(instr) == and64(parseImmTypeI(instr), Low(5))

-----------------------------------------------------------------------------
(* The assembler: where the manual puts each bit of an immediate.          *)

Kinds == {"load", "store", "branch", "upper", "jump"}

\* The bits an immediate has, and the one that is its sign.
ImmBits(k) ==
    [load |-> 0 .. 11, store |-> 0 .. 11, branch |-> 1 .. 12,
     upper |-> 12 .. 31, jump |-> 1 .. 20][k]

SignBit(k) == [load |-> 11, store |-> 11, branch |-> 12, upper |-> 31, jump |-> 20][k]

StorePlace(bit) == IF bit <= 4 THEN 7 + bit ELSE 20 + bit

BranchPlace(bit) ==
    IF bit = 12 THEN 31
    ELSE IF bit = 11 THEN 7
    ELSE IF bit >= 5 THEN 20 + bit ELSE 7 + bit

JumpPlace(bit) ==
    IF bit = 20 THEN 31
    ELSE IF bit >= 12 THEN bit
    ELSE IF bit = 11 THEN 20 ELSE 20 + bit

Place(k, bit) ==
    [load |-> 20 + bit, store |-> StorePlace(bit), branch |-> BranchPlace(bit),
     upper |-> bit, jump |-> JumpPlace(bit)][k]

ImmPlaces(k) == {Place(k, bit) : bit \in ImmBits(k)}
OtherPlaces(k) == (0 .. 31) \ ImmPlaces(k)

Instr == {Place(kind, bit) : bit \in imm} \cup rest

DecodeInit ==
    /\ kind \in Kinds
    /\ imm \in {{}, ImmBits(kind)}
    /\ rest \in {{}, OtherPlaces(kind)}

Flip(S, bit) == (S \ {bit}) \cup ({bit} \ S)

\* All but n bits are the same: each bit, and each group of n, is told apart
\* from the others, in a word of zeroes and in a word of ones.
Sparse(S, all, n) == Cardinality(S) <= n \/ Cardinality(all \ S) <= n

FlipImm(bit) ==
    /\ bit \in ImmBits(kind)
    /\ imm' = Flip(imm, bit)
    /\ Sparse(imm', ImmBits(kind), MaxBits)
    /\ UNCHANGED <<kind, rest>>

FlipOther(bit) ==
    /\ bit \in OtherPlaces(kind)
    /\ rest' = Flip(rest, bit)
    /\ Sparse(rest', OtherPlaces(kind), MaxOthers)
    /\ UNCHANGED <<kind, imm>>

DecodeNext == \E bit \in 0 .. 31 : FlipImm(bit) \/ FlipOther(bit)

DecodeSpec == DecodeInit /\ [][DecodeNext]_decodeVars

-----------------------------------------------------------------------------
(* Properties.                                                             *)

\* The immediate of the instruction, sign-extended to 64 bits.
Immediate == signExtend64(imm, SignBit(kind))

\* The six fields tile the word: every bit is in one of them, and in one only.
FieldsTile ==
    LET fields == << parseOpcode(Instr), shl64(7, parseRd(Instr)),
                     shl64(12, parseFunct3(Instr)), shl64(15, parseRs1(Instr)),
                     shl64(20, parseRs2(Instr)), shl64(25, parseFunct7(Instr)) >>
    IN  /\ UNION {fields[f] : f \in 1 .. 6} = Instr
        /\ \A f, g \in 1 .. 6 : f # g => fields[f] \cap fields[g] = {}

\* Shifts by an immediate use the same bits twice: the amount is never part of
\* the type, so that the type equals that of SRLI (no bit) or SRAI (bit 10 of
\* the immediate) for exactly the amounts the manual allows.
ShiftsDecoded ==
    kind = "load" =>
        /\ ShiftType(Instr) = {} <=> imm \subseteq 0 .. 5
        /\ ShiftType(Instr) = {4} <=> (10 \in imm /\ imm \subseteq (0 .. 5) \cup {10})
        /\ ShiftAmount(Instr) = imm \cap (0 .. 5)
        /\ ShiftType32(Instr) = {} <=> imm \subseteq 0 .. 4
        /\ ShiftType32(Instr) = {5} <=> (10 \in imm /\ imm \subseteq (0 .. 4) \cup {10})
        /\ ShiftAmount32(Instr) = imm \cap (0 .. 4)

\* The bits of immediates, scattered over the word in five layouts, come back in
\* their places and sign-extended, and no bit of another field gets among them:
\* the operand riscvStep uses is the one that the assembler was given.  Nor do the
\* other fields miss or share a bit, and shifts are told from one another.
OperandsDecoded ==
    /\ FieldsTile
    /\ ShiftsDecoded
    /\ kind = "load" => LoadOffset(Instr) = Immediate
    /\ kind = "store" => StoreOffset(Instr) = Immediate
    /\ kind = "branch" => BranchOffset(Instr) = Immediate
    /\ kind = "jump" => JumpOffset(Instr) = Immediate
    /\ kind = "upper" => LoadUpper(Instr) = Immediate /\ AddUpper(Instr) = Immediate

=============================================================================
