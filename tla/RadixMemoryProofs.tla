------------------------- MODULE RadixMemoryProofs -------------------------
(***************************************************************************)
(* Theorems about RadixMemory, for every shape of the trie and of a page.  *)
(***************************************************************************)
EXTENDS RadixMemory, MemoryProofs

\* The inductive invariant holds in every reachable state: every method of
\* Memory preserves it.
THEOREM Invariance == Spec => []IInv(mem)
  <1>1. Init => IInv(mem)
    BY NewMemoryIInv DEF Init
  <1>2. IInv(mem) /\ [Next]_mem => IInv(mem)'
    <2> SUFFICES ASSUME IInv(mem), [Next]_mem PROVE IInv(mem')
      OBVIOUS
    <2>1. CASE Set
      BY <2>1, SetStep, DataAssumption DEF Set
    <2>2. CASE Get
      BY <2>2, GetStep, DataAssumption DEF Get
    <2>3. CASE Merkle
      BY <2>3, MerkleizeStep DEF Merkle, MerkleRoot
    <2>4. CASE Prove
      <3>1. PICK addr \in Accesses : mem' = MerkleProof(mem, addr.leaf)
        BY <2>4 DEF Prove
      <3>2. addr.leaf \in Leaf
        BY DataAssumption DEF Address
      <3> QED BY <3>1, <3>2, ProofStep
    <2>5. CASE Reload
      BY <2>5, ReloadStep DEF Reload
    <2>6. CASE UNCHANGED mem
      BY <2>6
    <2> QED BY <2>1, <2>2, <2>3, <2>4, <2>5, <2>6 DEF Next
  <1> QED BY <1>1, <1>2, PTL DEF Spec

\* What Invalidate's comment claims: a page with an invalid root has nothing
\* valid above it, so returning early leaves no stale hash in the trie.
THEOREM EarlyReturnSafe == Spec => []InvalidUpToRoot
  <1>1. IInv(mem) => InvalidUpToRoot
    BY DEF IInv, InvalidUpToRoot
  <1> QED BY <1>1, Invariance, PTL

\* The trie reaches every allocated page and no other.
THEOREM TrieComplete == Spec => []TrieSpansPages
  <1>1. IInv(mem) => TrieSpansPages
    BY DEF IInv, TrieSpansPages
  <1> QED BY <1>1, Invariance, PTL

\* The lookup cache never answers for a page that does not exist, a page with a
\* valid root has no invalid slot, and the fields of Memory keep their types.
THEOREM CachesAlwaysSound == Spec => []CachesSound
  <1>1. IInv(mem) => CachesSound
    BY DEF IInv, CachesSound
  <1> QED BY <1>1, Invariance, PTL

\* The coherence of the trie is inductive together with IInv.
THEOREM TrieStaysCoherent == Spec => []TrieCoherent
  <1>1. Init => Coherent(mem)
    BY DEF Init, Coherent, NewMemory, EmptyFcn
  <1>2. IInv(mem) /\ Coherent(mem) /\ [Next]_mem => Coherent(mem)'
    <2> SUFFICES ASSUME IInv(mem), Coherent(mem), [Next]_mem PROVE Coherent(mem')
      OBVIOUS
    <2>1. CASE Set
      BY <2>1, SetParts, DataAssumption DEF Set
    <2>2. CASE Get
      BY <2>2, GetPure, DataAssumption DEF Get
    <2>3. CASE Merkle
      BY <2>3, MerklePure DEF Merkle, MerkleRoot
    <2>4. CASE Prove
      <3>1. PICK addr \in Accesses : mem' = MerkleProof(mem, addr.leaf)
        BY <2>4 DEF Prove
      <3>2. addr.leaf \in Leaf
        BY DataAssumption DEF Address
      <3> QED BY <3>1, <3>2, ProofPure
    <2>5. CASE Reload
      BY <2>5, ReloadParts DEF Reload
    <2>6. CASE UNCHANGED mem
      BY <2>6
    <2> QED BY <2>1, <2>2, <2>3, <2>4, <2>5, <2>6 DEF Next
  <1>3. Coherent(mem) => TrieCoherent
    BY DEF Coherent, TrieCoherent
  <1> QED BY <1>1, <1>2, <1>3, Invariance, PTL DEF Spec

\* GetUnaligned, MerkleRoot and MerkleProof never change what MerkleRoot returns:
\* what they add to the caches is what would be computed without them.
THEOREM CachingPure == Spec => CachingIsPure
  <1>1. IInv(mem) /\ [Next]_mem => [Get \/ Merkle \/ Prove => RootHash(mem') = RootHash(mem)]_mem
    <2> SUFFICES ASSUME IInv(mem), Get \/ Merkle \/ Prove
                 PROVE  RootHash(mem') = RootHash(mem)
      OBVIOUS
    <2>1. CASE Get
      BY <2>1, GetPure, DataAssumption DEF Get
    <2>2. CASE Merkle
      BY <2>2, MerklePure DEF Merkle, MerkleRoot
    <2>3. CASE Prove
      <3>1. PICK addr \in Accesses : mem' = MerkleProof(mem, addr.leaf)
        BY <2>3 DEF Prove
      <3>2. addr.leaf \in Leaf
        BY DataAssumption DEF Address
      <3> QED BY <3>1, <3>2, ProofPure
    <2> QED BY <2>1, <2>2, <2>3
  <1> QED BY <1>1, Invariance, PTL DEF Spec, CachingIsPure

\* GetUnaligned returns the bytes of the flat memory, across the ends of leaves
\* and pages, whatever the lookup cache holds.
THEOREM ReadsAlwaysFlat == Spec => []ReadsFlat
  <1>1. IInv(mem) => ReadsFlat
    <2> SUFFICES ASSUME IInv(mem), NEW addr \in Accesses, NEW n \in 1..LeafBytes
                 PROVE  GetResult(mem, addr, n) = Flat!Read(addr, n)
      BY DEF ReadsFlat
    <2>1. addr.leaf \in Leaf /\ addr.byte \in 0..(LeafBytes - 1)
      BY DataAssumption DEF Address
    <2>2. NextLeaf(addr.leaf) \in Leaf
      BY <2>1, LeafParts
    <2>3. /\ ReadLeaf(mem, addr.leaf) = Contents(mem)[addr.leaf]
          /\ ReadLeaf(mem, NextLeaf(addr.leaf)) = Contents(mem)[NextLeaf(addr.leaf)]
      BY <2>1, <2>2, ReadsContents
    <2>4. ASSUME NEW i \in 1..n
          PROVE  GetResult(mem, addr, n)[i] = Flat!Read(addr, n)[i]
      <3>1. GetResult(mem, addr, n)[i]
              = IF addr.byte + i <= LeafBytes
                THEN ReadLeaf(mem, addr.leaf)[addr.byte + i - 1]
                ELSE ReadLeaf(mem, NextLeaf(addr.leaf))[addr.byte + i - 1 - LeafBytes]
        BY DEF GetResult
      <3>2. Flat!Read(addr, n)[i]
              = IF addr.byte + (i - 1) < LeafBytes
                THEN Contents(mem)[addr.leaf][addr.byte + (i - 1)]
                ELSE Contents(mem)[NextLeaf(addr.leaf)][addr.byte + (i - 1) - LeafBytes]
        BY DEF Flat!Read, Flat!After
      <3>3. /\ addr.byte + i <= LeafBytes <=> addr.byte + (i - 1) < LeafBytes
            /\ addr.byte + i - 1 = addr.byte + (i - 1)
        BY <2>1, PageAssumption
      <3> QED BY <2>3, <3>1, <3>2, <3>3
    <2>5. /\ GetResult(mem, addr, n) = [i \in 1..n |-> GetResult(mem, addr, n)[i]]
          /\ Flat!Read(addr, n) = [i \in 1..n |-> Flat!Read(addr, n)[i]]
      BY DEF GetResult, Flat!Read
    <2> QED BY <2>4, <2>5
  <1> QED BY <1>1, Invariance, PTL

\* The byte a copy leaves at a position.
LEMMA PutLeafAt ==
    ASSUME NEW data, NEW leaf, NEW byte, NEW dat, NEW from, NEW to,
           NEW l \in Leaf, NEW b \in 0..(LeafBytes - 1)
    PROVE  PutLeaf(data, leaf, byte, dat, from, to)[l][b]
             = IF l = leaf /\ b >= byte /\ b <= byte + to - from
               THEN dat[from + b - byte] ELSE data[l][b]
  BY DEF PutLeaf, Copied

\* The byte that the flat memory has at a position after a write.
Covers(addr, dat, l, b) == {i \in DOMAIN dat : Flat!After(addr, i - 1) = <<l, b>>}

Cell(data, addr, dat, l, b) ==
    IF Covers(addr, dat, l, b) = {} THEN data[l][b]
                                    ELSE dat[CHOOSE i \in Covers(addr, dat, l, b) : TRUE]

\* The two halves of SetUnaligned together write the bytes of the flat memory.
LEMMA PutBytesAt ==
    ASSUME NEW data, NEW addr \in Address, NEW n \in 1..LeafBytes, NEW dat \in [1..n -> Byte],
           NEW l \in Leaf, NEW b \in 0..(LeafBytes - 1)
    PROVE  PutBytes(data, addr, dat)[l][b] = Cell(data, addr, dat, l, b)
  <1> DEFINE leaf   == addr.leaf
             byte   == addr.byte
             next   == NextLeaf(leaf)
             fit    == LeafBytes - byte
             covers == Covers(addr, dat, l, b)
  <1>1. byte \in 0..(LeafBytes - 1) /\ LeafBytes \in Nat
    BY PageAssumption DEF Address
  <1>2. Len(dat) = n /\ DOMAIN dat = 1..n
    BY PageAssumption
  <1>3. \A i \in 1..n :
          i \in covers <=> \/ byte + (i - 1) < LeafBytes /\ l = leaf /\ b = byte + (i - 1)
                           \/ /\ ~(byte + (i - 1) < LeafBytes)
                              /\ l = next /\ b = byte + (i - 1) - LeafBytes
    BY <1>2 DEF Covers, Flat!After
  <1>4. covers \subseteq 1..n
    BY <1>2 DEF Covers
  <1> HIDE DEF covers, leaf, byte, next
  <1>5. \A i, j \in covers : i = j
    <2> SUFFICES ASSUME NEW i \in covers, NEW j \in covers PROVE i = j
      OBVIOUS
    <2>1. i \in 1..n /\ j \in 1..n
      BY <1>4
    <2> QED BY <1>1, <1>3, <2>1
  <1>6. ASSUME NEW i \in covers PROVE (CHOOSE j \in covers : TRUE) = i
    <2>1. (CHOOSE j \in covers : TRUE) \in covers
      OBVIOUS
    <2> QED BY <1>5, <2>1
  <1>7. CASE n <= fit
    <2>1. PutBytes(data, addr, dat)[l][b]
            = IF l = leaf /\ b >= byte /\ b <= byte + n - 1 THEN dat[1 + b - byte] ELSE data[l][b]
      BY <1>2, <1>7, PutLeafAt DEF PutBytes, leaf, byte
    <2>2. CASE l = leaf /\ b >= byte /\ b <= byte + n - 1
      <3> DEFINE i == 1 + b - byte
      <3>1. i \in 1..n /\ byte + (i - 1) = b /\ byte + (i - 1) < LeafBytes
        BY <1>1, <2>2
      <3> HIDE DEF i
      <3>2. i \in covers
        BY <1>3, <2>2, <3>1
      <3>3. covers # {} /\ (CHOOSE j \in covers : TRUE) = i
        BY <1>6, <3>2
      <3> QED BY <2>1, <2>2, <3>3 DEF i, covers, Cell
    <2>3. CASE ~(l = leaf /\ b >= byte /\ b <= byte + n - 1)
      <3>1. ASSUME NEW i \in covers PROVE FALSE
        <4>1. i \in 1..n
          BY <1>4
        <4> QED BY <1>1, <1>3, <1>7, <2>3, <4>1
      <3>2. covers = {}
        BY <3>1
      <3> QED BY <2>1, <2>3, <3>2 DEF covers, Cell
    <2> QED BY <2>2, <2>3
  <1>8. CASE ~(n <= fit)
    <2> DEFINE first == PutLeaf(data, leaf, byte, dat, 1, fit)
    <2>1. first[l][b] = IF l = leaf /\ b >= byte /\ b <= byte + fit - 1
                        THEN dat[1 + b - byte] ELSE data[l][b]
      BY PutLeafAt
    <2>2. PutBytes(data, addr, dat) = PutLeaf(first, next, 0, dat, fit + 1, n)
      BY <1>2, <1>8 DEF PutBytes, leaf, byte, next
    <2> HIDE DEF first
    <2>3. PutBytes(data, addr, dat)[l][b]
            = IF l = next /\ b >= 0 /\ b <= 0 + n - (fit + 1)
              THEN dat[fit + 1 + b - 0] ELSE first[l][b]
      BY <2>2, PutLeafAt
    <2>4. CASE l = next /\ b >= 0 /\ b <= 0 + n - (fit + 1)
      <3> DEFINE i == fit + 1 + b - 0
      <3>1. i \in 1..n /\ byte + (i - 1) - LeafBytes = b /\ ~(byte + (i - 1) < LeafBytes)
        BY <1>1, <1>8, <2>4
      <3> HIDE DEF i
      <3>2. i \in covers
        BY <1>3, <2>4, <3>1
      <3>3. covers # {} /\ (CHOOSE j \in covers : TRUE) = i
        BY <1>6, <3>2
      <3> QED BY <2>3, <2>4, <3>3 DEF i, covers, Cell
    <2>5. CASE /\ ~(l = next /\ b >= 0 /\ b <= 0 + n - (fit + 1))
               /\ l = leaf /\ b >= byte /\ b <= byte + fit - 1
      <3> DEFINE i == 1 + b - byte
      <3>1. i \in 1..n /\ byte + (i - 1) = b /\ byte + (i - 1) < LeafBytes
        BY <1>1, <1>8, <2>5
      <3> HIDE DEF i
      <3>2. i \in covers
        BY <1>3, <2>5, <3>1
      <3>3. covers # {} /\ (CHOOSE j \in covers : TRUE) = i
        BY <1>6, <3>2
      <3> QED BY <2>1, <2>3, <2>5, <3>3 DEF i, covers, Cell
    <2>6. CASE /\ ~(l = next /\ b >= 0 /\ b <= 0 + n - (fit + 1))
               /\ ~(l = leaf /\ b >= byte /\ b <= byte + fit - 1)
      <3>1. ASSUME NEW i \in covers PROVE FALSE
        <4>1. i \in 1..n
          BY <1>4
        <4> QED BY <1>1, <1>3, <1>8, <2>6, <4>1
      <3>2. covers = {}
        BY <3>1
      <3> QED BY <2>1, <2>3, <2>6, <3>2 DEF covers, Cell
    <2> QED BY <2>4, <2>5, <2>6
  <1> QED BY <1>7, <1>8

\* SetUnaligned writes what the flat memory writes.
LEMMA SetIsWrite ==
    ASSUME IInv(mem), NEW addr \in Accesses, NEW n \in 1..LeafBytes, NEW dat \in [1..n -> Byte],
           mem' = SetUnaligned(mem, addr, dat)
    PROVE  Flat!Write(addr, dat)
  <1> DEFINE data == Contents(mem)
             put  == PutBytes(data, addr, dat)
  <1>1. addr \in Address /\ dat \in Dat
    BY DataAssumption DEF Dat
  <1>2. Contents(mem') = put
    BY <1>1, SetParts
  <1>3. ASSUME NEW l \in Leaf, NEW b \in 0..(LeafBytes - 1)
        PROVE  put[l][b] = Cell(data, addr, dat, l, b)
    BY <1>1, PutBytesAt
  <1>4. put = [l \in Leaf |-> put[l]]
    BY DEF PutBytes, PutLeaf
  <1>5. IInv(mem')
    BY <1>1, SetStep
  <1>6. ASSUME NEW l \in Leaf PROVE put[l] = [b \in 0..(LeafBytes - 1) |-> put[l][b]]
    <2>1. Contents(mem')[l] \in LeafData
      BY <1>5, ContentsType
    <2> QED BY <1>2, <2>1 DEF LeafData
  <1>7. put = [l \in Leaf |-> [b \in 0..(LeafBytes - 1) |-> Cell(data, addr, dat, l, b)]]
    <2> HIDE DEF put, data
    <2> QED BY <1>3, <1>4, <1>6
  <1> QED BY <1>2, <1>7 DEF Flat!Write, Covers, Cell

\* The memory implements FlatMemory, and SetUnaligned is its Write with all of
\* the bytes: pages, trie, caches and snapshots cannot be told from outside.
THEOREM RefinesFlatMemory == Spec => RefinesFlat
  <1>1. Init => Flat!Init
    BY DEF Init, Flat!Init, Contents, NewMemory, EmptyFcn, ZeroLeaf
  <1>2. IInv(mem) /\ [Next]_mem => [Flat!Next]_(Contents(mem))
    <2> SUFFICES ASSUME IInv(mem), [Next]_mem PROVE Flat!Next \/ Contents(mem') = Contents(mem)
      OBVIOUS
    <2>1. CASE Set
      <3>1. PICK addr \in Accesses, dat \in Dat : mem' = SetUnaligned(mem, addr, dat)
        BY <2>1 DEF Set
      <3>2. PICK n \in 1..LeafBytes : dat \in [1..n -> Byte]
        BY DEF Dat
      <3> QED BY <3>1, <3>2, SetIsWrite DEF Flat!Next
    <2>2. CASE Get
      BY <2>2, GetPure, DataAssumption DEF Get
    <2>3. CASE Merkle
      BY <2>3, MerklePure DEF Merkle, MerkleRoot
    <2>4. CASE Prove
      <3>1. PICK addr \in Accesses : mem' = MerkleProof(mem, addr.leaf)
        BY <2>4 DEF Prove
      <3>2. addr.leaf \in Leaf
        BY DataAssumption DEF Address
      <3> QED BY <3>1, <3>2, ProofPure
    <2>5. CASE Reload
      BY <2>5, ReloadParts DEF Reload
    <2>6. CASE UNCHANGED mem
      BY <2>6
    <2> QED BY <2>1, <2>2, <2>3, <2>4, <2>5, <2>6 DEF Next
  <1>3. IInv(mem) /\ [Next]_mem =>
          [\A addr \in Accesses, dat \in Dat :
             mem' = SetUnaligned(mem, addr, dat) => Flat!Write(addr, dat)]_mem
    BY SetIsWrite DEF Dat
  <1> QED BY <1>1, <1>2, <1>3, Invariance, PTL DEF Spec, RefinesFlat, Flat!Spec

=============================================================================
