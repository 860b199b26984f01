------------------------------- MODULE Yul256 -------------------------------
(***************************************************************************)
(* The EVM's words and opcodes as both VMs use them: rvgo/slow/yul256.go   *)
(* and rvgo/fast/yul256.go, over the library holiman/uint256.  A word is   *)
(* its unsigned value.                                                     *)
(***************************************************************************)
EXTENDS Integers

CONSTANTS
    XLEN,  \* bits of a register: 64 in the code
    WIDE   \* bits of an EVM word: 256 in the code

\* A wide word has room for a product of two registers and its sign.
ASSUME WidthAssumption ==
    /\ XLEN \in Nat /\ \E k \in 1..XLEN : XLEN = 2 ^ k
    /\ WIDE \in Nat /\ WIDE > 2 * XLEN

\* Powers of two, of which the provers know nothing.
ASSUME PowersAssumption ==
    /\ 2 ^ 0 = 1
    /\ \A n \in 0..WIDE : 2 ^ n \in Nat \ {0} /\ 2 ^ (n + 1) = 2 * 2 ^ n

Word == 0..(2 ^ XLEN - 1)

\* The ones of a word, and the word that has given ones.
Ones(x) == {i \in 0..(WIDE - 1) : (x \div 2 ^ i) % 2 = 1}

OfOnes(ones) ==
    LET low[n \in 0..WIDE] ==
            IF n = 0 THEN 0 ELSE low[n - 1] + (IF n - 1 \in ones THEN 2 ^ (n - 1) ELSE 0)
    IN  low[WIDE]

Flag(condition) == IF condition THEN 1 ELSE 0

\* The quotient of two integers, rounded towards zero.
Truncated(x, y) ==
    LET abs(i) == IF i < 0 THEN -i ELSE i
        q      == abs(x) \div abs(y)
    IN  IF (x < 0) = (y < 0) THEN q ELSE -q

Signed256(x) == IF x >= 2 ^ (WIDE - 1) THEN x - 2 ^ WIDE ELSE x

add(x, y)  == (x + y) % 2 ^ WIDE
sub(x, y)  == (x - y) % 2 ^ WIDE
mul(x, y)  == (x * y) % 2 ^ WIDE
div(x, y)  == IF y = 0 THEN 0 ELSE x \div y
sdiv(x, y) == IF y = 0 THEN 0 ELSE Truncated(Signed256(x), Signed256(y)) % 2 ^ WIDE
mod(x, y)  == IF y = 0 THEN 0 ELSE x % y
smod(x, y) ==
    IF y = 0 THEN 0
    ELSE LET s == Signed256(x)
             t == Signed256(y)
         IN  (s - t * Truncated(s, t)) % 2 ^ WIDE
not(x)     == 2 ^ WIDE - 1 - x
lt(x, y)   == Flag(x < y)
gt(x, y)   == Flag(x > y)
slt(x, y)  == Flag(Signed256(x) < Signed256(y))
sgt(x, y)  == Flag(Signed256(x) > Signed256(y))
eq(x, y)   == Flag(x = y)
and(x, y)  == OfOnes(Ones(x) \intersect Ones(y))
or(x, y)   == OfOnes(Ones(x) \union Ones(y))
xor(x, y)  == OfOnes((Ones(x) \union Ones(y)) \ (Ones(x) \intersect Ones(y)))

\* Shifts of y by x bits, none of which is past the width of a register.
shl(x, y) == (y * 2 ^ x) % 2 ^ WIDE
shr(x, y) == y \div 2 ^ x
sar(x, y) == (Signed256(y) \div 2 ^ x) % 2 ^ WIDE
=============================================================================
