------------------------------ MODULE FastAlu ------------------------------
(***************************************************************************)
(* The arithmetic of the fast VM: rvgo/fast/yul64.go, on native integers   *)
(* that wrap around.                                                       *)
(***************************************************************************)
EXTENDS Yul256

int64(x) == IF x >= 2 ^ (XLEN - 1) THEN x - 2 ^ XLEN ELSE x

uint64(i) == i % 2 ^ XLEN

u64Mask == 2 ^ XLEN - 1

u32Mask == 2 ^ (XLEN \div 2) - 1

add64(x, y) == uint64(x + y)
sub64(x, y) == uint64(x - y)
mul64(x, y) == uint64(x * y)
div64(x, y) == IF y = 0 THEN 0 ELSE x \div y

sdiv64(x, y) ==
    IF y = 0 THEN 0
    ELSE IF x = 2 ^ (XLEN - 1) /\ y = u64Mask THEN 2 ^ (XLEN - 1)
    ELSE uint64(Truncated(int64(x), int64(y)))

mod64(x, y) == IF y = 0 THEN 0 ELSE x % y

smod64(x, y) ==
    IF y = 0 THEN 0 ELSE uint64(int64(x) - int64(y) * Truncated(int64(x), int64(y)))

not64(x)    == u64Mask - x
lt64(x, y)  == Flag(x < y)
gt64(x, y)  == Flag(x > y)
slt64(x, y) == Flag(int64(x) < int64(y))
sgt64(x, y) == Flag(int64(x) > int64(y))
eq64(x, y)  == Flag(x = y)
and64(x, y) == and(x, y)
or64(x, y)  == or(x, y)
xor64(x, y) == xor(x, y)

\* Shifts of y by x bits.
shl64(x, y) == uint64(y * 2 ^ x)
shr64(x, y) == y \div 2 ^ x
sar64(x, y) == uint64(int64(y) \div 2 ^ x)

\* Zeroes above the sign bit by masking, ones by or-ing.
signExtend64(v, bit) ==
    IF and64(v, shl64(bit, 1)) = 0
    THEN and64(v, shr64(sub64(XLEN - 1, bit), u64Mask))
    ELSE or64(v, shl64(bit, shr64(bit, u64Mask)))

mask32Signed64(v) == signExtend64(and64(v, u32Mask), XLEN \div 2 - 1)

u64ToU256(v) == v

u256ToU64(v) == v % 2 ^ XLEN

signExtend64To256(v) ==
    IF and64(v, 2 ^ (XLEN - 1)) = 0 THEN v ELSE or(shl(XLEN, not(0)), v)

upper(x, y) == u256ToU64(shr(XLEN, mul(x, y)))

INSTANCE Alu
=============================================================================
