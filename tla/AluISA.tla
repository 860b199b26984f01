------------------------------- MODULE AluISA -------------------------------
(***************************************************************************)
(* What the RISC-V manual says the integer instructions of RV64I, RV64M    *)
(* and RV64A compute, in terms of integers: the reference that both        *)
(* arithmetics are compared with.  A word is read as a natural number, or  *)
(* as a two's complement integer, in full or in its lower half.            *)
(***************************************************************************)
EXTENDS Integers

CONSTANT XLEN

Modulus == 2 ^ XLEN

HalfModulus == 2 ^ (XLEN \div 2)

\* The instruction has no meaning in the manual.
Reserved == -1

Wrap(i) == i % Modulus

TwosComplement(x, modulus) ==
    LET low == x % modulus IN IF 2 * low >= modulus THEN low - modulus ELSE low

S(x) == TwosComplement(x, Modulus)

S32(x) == TwosComplement(x, HalfModulus)

U32(x) == x % HalfModulus

Sext(i) == Wrap(S32(i))

TowardsZero(x, y) ==
    LET abs(i) == IF i < 0 THEN -i ELSE i
    IN  IF (x < 0) = (y < 0) THEN abs(x) \div abs(y) ELSE -(abs(x) \div abs(y))

\* Division by zero gives all ones, and the dividend as its remainder; the one
\* quotient out of range wraps around.
Quotient(x, y) == IF y = 0 THEN -1 ELSE TowardsZero(x, y)

Remainder(x, y) == IF y = 0 THEN x ELSE x - y * TowardsZero(x, y)

Bits(x) == {i \in 0..(XLEN - 1) : (x \div 2 ^ i) % 2 = 1}

FromBits(bits) == CHOOSE w \in 0..(Modulus - 1) : Bits(w) = bits

One(condition) == IF condition THEN 1 ELSE 0

OpReg(funct3, funct7, x, y) ==
    LET shamt == y % XLEN
    IN  CASE funct3 = 0 /\ funct7 = 0  -> Wrap(x + y)
          [] funct3 = 0 /\ funct7 = 32 -> Wrap(x - y)
          [] funct3 = 1 /\ funct7 = 0  -> Wrap(x * 2 ^ shamt)
          [] funct3 = 2 /\ funct7 = 0  -> One(S(x) < S(y))
          [] funct3 = 3 /\ funct7 = 0  -> One(x < y)
          [] funct3 = 4 /\ funct7 = 0  -> FromBits((Bits(x) \union Bits(y)) \ (Bits(x) \intersect Bits(y)))
          [] funct3 = 5 /\ funct7 = 0  -> x \div 2 ^ shamt
          [] funct3 = 5 /\ funct7 = 32 -> Wrap(S(x) \div 2 ^ shamt)
          [] funct3 = 6 /\ funct7 = 0  -> FromBits(Bits(x) \union Bits(y))
          [] funct3 = 7 /\ funct7 = 0  -> FromBits(Bits(x) \intersect Bits(y))
          [] OTHER -> Reserved

OpReg32(funct3, funct7, x, y) ==
    LET shamt == y % (XLEN \div 2)
    IN  CASE funct3 = 0 /\ funct7 = 0  -> Sext(x + y)
          [] funct3 = 0 /\ funct7 = 32 -> Sext(x - y)
          [] funct3 = 1 /\ funct7 = 0  -> Sext(x * 2 ^ shamt)
          [] funct3 = 5 /\ funct7 = 0  -> Sext(U32(x) \div 2 ^ shamt)
          [] funct3 = 5 /\ funct7 = 32 -> Sext(S32(x) \div 2 ^ shamt)
          [] OTHER -> Reserved

MulDiv(funct3, x, y) ==
    CASE funct3 = 0 -> Wrap(S(x) * S(y))
      [] funct3 = 1 -> Wrap((S(x) * S(y)) \div Modulus)
      [] funct3 = 2 -> Wrap((S(x) * y) \div Modulus)
      [] funct3 = 3 -> Wrap((x * y) \div Modulus)
      [] funct3 = 4 -> Wrap(Quotient(S(x), S(y)))
      [] funct3 = 5 -> Wrap(Quotient(x, y))
      [] funct3 = 6 -> Wrap(Remainder(S(x), S(y)))
      [] funct3 = 7 -> Wrap(Remainder(x, y))

MulDiv32(funct3, x, y) ==
    CASE funct3 = 0 -> Sext(x * y)
      [] funct3 = 4 -> Sext(Quotient(S32(x), S32(y)))
      [] funct3 = 5 -> Sext(Quotient(U32(x), U32(y)))
      [] funct3 = 6 -> Sext(Remainder(S32(x), S32(y)))
      [] funct3 = 7 -> Sext(Remainder(U32(x), U32(y)))
      [] OTHER -> Reserved

\* The upper bits of the immediate of a shift take the place of funct7.
Funct7(funct3, top) ==
    IF funct3 \notin {1, 5} \/ top = "logical" THEN 0
    ELSE IF top = "arithmetic" THEN 32 ELSE 64

OpImm(funct3, top, x, imm) == OpReg(funct3, Funct7(funct3, top), x, imm)

OpImm32(funct3, top, x, imm) ==
    IF funct3 \in {1, 5} /\ imm % XLEN >= XLEN \div 2 THEN Reserved
    ELSE OpReg32(funct3, Funct7(funct3, top), x, imm)

Branch(funct3, x, y) ==
    CASE funct3 = 0 -> One(x = y)
      [] funct3 = 1 -> One(x # y)
      [] funct3 = 4 -> One(S(x) < S(y))
      [] funct3 = 5 -> One(S(x) >= S(y))
      [] funct3 = 6 -> One(x < y)
      [] funct3 = 7 -> One(x >= y)
      [] OTHER -> Reserved

\* An atomic operation works on the lower half of the word and of the operand,
\* or on all of both.
Amo(op, is32, cell, y) ==
    LET u(w)   == IF is32 THEN U32(w) ELSE w
        s(w)   == IF is32 THEN S32(w) ELSE S(w)
        new    == CASE op = "add"  -> cell + y
                    [] op = "swap" -> y
                    [] op = "xor"  -> OpReg(4, 0, cell, y)
                    [] op = "or"   -> OpReg(6, 0, cell, y)
                    [] op = "and"  -> OpReg(7, 0, cell, y)
                    [] op = "min"  -> IF s(cell) <= s(y) THEN cell ELSE y
                    [] op = "max"  -> IF s(cell) >= s(y) THEN cell ELSE y
                    [] op = "minu" -> IF u(cell) <= u(y) THEN cell ELSE y
                    [] op = "maxu" -> IF u(cell) >= u(y) THEN cell ELSE y
    IN  [ rd   |-> Wrap(s(cell)),
          cell |-> IF is32 THEN cell - U32(cell) + U32(new) ELSE Wrap(new) ]
=============================================================================
