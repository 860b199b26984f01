------------------------------ MODULE SlowAlu ------------------------------
(***************************************************************************)
(* The arithmetic of the slow VM: rvgo/slow/yul64.go, 64-bit operations    *)
(* made of EVM opcodes.  "U64 is like a Go uint64, always within range,    *)
(* but represented as uint256 in memory with 0 padding."                   *)
(***************************************************************************)
EXTENDS Yul256

u64Mask == shr(WIDE - XLEN, not(0))

u32Mask == shr(WIDE - XLEN \div 2, not(0))

u64Mod == shl(XLEN, 1)

u64TopBit == shl(XLEN - 1, 1)

u64ToU256(v) == v

u256ToU64(v) == and(v, u64Mask)

signExtend64(v, bit) ==
    IF and(v, shl(bit, 1)) = 0
    THEN and(v, shr(sub(XLEN - 1, bit), u64Mask))
    ELSE or(v, shl(bit, shr(bit, u64Mask)))

signExtend64To256(v) == IF and(v, u64TopBit) = 0 THEN v ELSE or(shl(XLEN, not(0)), v)

add64(x, y)  == mod(add(x, y), u64Mod)
sub64(x, y)  == mod(sub(x, y), u64Mod)
mul64(x, y)  == u256ToU64(mul(x, y))
div64(x, y)  == u256ToU64(div(x, y))
sdiv64(x, y) == u256ToU64(sdiv(signExtend64To256(x), signExtend64To256(y)))
mod64(x, y)  == mod(x, y)

\* Mutant: the operands are not sign-extended.
smod64Unsigned(x, y) == u256ToU64(smod(x, y))

smod64(x, y) == u256ToU64(smod(signExtend64To256(x), signExtend64To256(y)))
not64(x)     == u256ToU64(not(x))
lt64(x, y)   == lt(x, y)
gt64(x, y)   == gt(x, y)
slt64(x, y)  == slt(signExtend64To256(x), signExtend64To256(y))
sgt64(x, y)  == sgt(signExtend64To256(x), signExtend64To256(y))
eq64(x, y)   == eq(x, y)
and64(x, y)  == and(x, y)
or64(x, y)   == or(x, y)
xor64(x, y)  == xor(x, y)
shl64(x, y)  == u256ToU64(shl(x, y))
shr64(x, y)  == shr(x, y)
sar64(x, y)  == u256ToU64(sar(x, signExtend64To256(y)))

mask32Signed64(v) == signExtend64(and64(v, u32Mask), XLEN \div 2 - 1)

upper(x, y) == u256ToU64(shr(XLEN, mul(x, y)))

INSTANCE Alu
=============================================================================
