----------------------------- MODULE ByteOrder -----------------------------
(***************************************************************************)
(* Numbers as bytes.  A number of n bytes is a function from the weight of *)
(* a byte, 0 for the lowest, to the byte: 64-bit values and 256-bit words  *)
(* keep their real width although TLC's integers have 32 bits.  The        *)
(* encodings of the VM state are all big-endian: the first byte of an      *)
(* encoded number is the one of the highest weight.                        *)
(***************************************************************************)
EXTENDS Integers, Sequences

Byte == 0 .. 255
U64 == [0 .. 7 -> Byte]
U256 == [0 .. 31 -> Byte]

\* A number that fits TLC's integers, as a 64-bit value.
FromInt(n) == [k \in 0 .. 7 |-> IF k < 3 THEN (n \div 256 ^ k) % 256 ELSE 0]

\* And back: the values it is applied to are lengths.
ToInt(v) == v[0] + 256 * v[1] + 65536 * v[2]

\* encodeU64BE, binary.BigEndian.AppendUint64, b32asBEWord: n bytes in
\* order, and the number they stand for.
BigEndian(n, v) == [i \in 1 .. n |-> v[n - i]]
FromBigEndian(n, bytes) == [k \in 0 .. n - 1 |-> bytes[n - k]]

\* n bytes of a sequence from the zero-based position `from`.
Slice(bytes, from, n) == SubSeq(bytes, from + 1, from + n)
=============================================================================
