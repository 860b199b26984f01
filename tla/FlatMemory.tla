----------------------------- MODULE FlatMemory -----------------------------
(***************************************************************************)
(* What rvgo/fast/memory.go promises the VM: one flat array of bytes, zero *)
(* at first, whose addresses wrap around, with no trace of pages, trie,    *)
(* caches or snapshots.                                                    *)
(***************************************************************************)
EXTENDS Integers, Sequences

CONSTANTS
    Leaf,        \* the aligned leaves of the address space
    Accesses,    \* the byte addresses, [leaf, byte], that are written to
    NextLeaf(_), \* the leaf after a leaf, around the end of the address space
    LeafBytes,   \* bytes in a leaf
    Byte,        \* values of a byte
    ZeroByte     \* the byte of fresh memory

VARIABLE ram     \* the bytes of every leaf

\* The position i bytes past an address, for less than a leaf of bytes.
After(addr, i) ==
    IF addr.byte + i < LeafBytes
    THEN <<addr.leaf, addr.byte + i>>
    ELSE <<NextLeaf(addr.leaf), addr.byte + i - LeafBytes>>

Init == ram = [l \in Leaf |-> [b \in 0..(LeafBytes - 1) |-> ZeroByte]]

\* The n bytes from an address on.
Read(addr, n) ==
    LET bytes == ram
    IN  [i \in 1..n |-> LET at == After(addr, i - 1) IN bytes[at[1]][at[2]]]

\* Writing dat changes the bytes it covers and no other.
Write(addr, dat) ==
    LET before == ram
    IN  ram' = [l \in Leaf |-> [b \in 0..(LeafBytes - 1) |->
                  LET covers == {i \in DOMAIN dat : After(addr, i - 1) = <<l, b>>}
                  IN  IF covers = {} THEN before[l][b] ELSE dat[CHOOSE i \in covers : TRUE]]]

Next == \E addr \in Accesses, n \in 1..LeafBytes :
           \E dat \in [1..n -> Byte] : Write(addr, dat)

Spec == Init /\ [][Next]_ram
=============================================================================
