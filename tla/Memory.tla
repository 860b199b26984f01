------------------------------- MODULE Memory -------------------------------
(***************************************************************************)
(* The memory of the fast VM: rvgo/fast/memory.go, radix.go and page.go.   *)
(*                                                                         *)
(* Memory is a binary Merkle tree.  Its upper part is a radix trie whose   *)
(* nodes cache the hashes of the binary nodes they span, its lower part is *)
(* one CachedPage per allocated page, with a cache of its own.  A position *)
(* in the tree is the sequence of bits that leads to it from the root, so  *)
(* an address is a full sequence of bits and its prefixes are the nodes    *)
(* above it.  The code numbers the same nodes by (partial address, gindex).*)
(*                                                                         *)
(* A memory is a value here and every Go method an operator on it, so that *)
(* other modules can string methods together as the code does.             *)
(***************************************************************************)
EXTENDS Integers, SequencesExt

CONSTANTS
    LevelDepths,  \* bits above each radix level, then above the pages:
                  \*   <<0, 16, 32, 38, 44, 48, 52>> in the code
    PageDepth,    \* tree levels inside a page: 7 in the code
    LeafBytes,    \* bytes in a leaf: 32 in the code
    Byte,         \* values of a byte
    ZeroByte,     \* the byte of fresh memory
    Accesses      \* the addresses the environment uses: Address in the code

Levels == 1..(Len(LevelDepths) - 1)

PageKeySize == LevelDepths[Len(LevelDepths)]

AddrSize == PageKeySize + PageDepth

Bit == {0, 1}

PageKey == [1..PageKeySize -> Bit]

Leaf == [1..AddrSize -> Bit]

LeafInPage == [1..PageDepth -> Bit]

RadixNode == UNION {[1..d -> Bit] : d \in 0..(PageKeySize - 1)}

PageNode == UNION {[1..d -> Bit] : d \in 0..(PageDepth - 1)}

Root == << >>

LeafData == [0..(LeafBytes - 1) -> Byte]

\* A byte address: its leaf, and the byte's position in the leaf.
Address == [leaf : Leaf, byte : 0..(LeafBytes - 1)]

Dat == UNION {[1..n -> Byte] : n \in 1..LeafBytes}

\* The radix levels start at the root, end at the pages and leave no gap.
ASSUME LevelsAssumption ==
    /\ LevelDepths \in Seq(Nat)
    /\ Len(LevelDepths) > 1
    /\ LevelDepths[1] = 0
    /\ \A i \in Levels : LevelDepths[i] < LevelDepths[i + 1]
    /\ \A i \in Levels : LevelDepths[i + 1] <= PageKeySize
    /\ \A d \in 0..(PageKeySize - 1) :
          \E i \in Levels : LevelDepths[i] <= d /\ d < LevelDepths[i + 1]

ASSUME PageAssumption ==
    /\ PageDepth \in Nat \ {0}
    /\ LeafBytes \in Nat \ {0}

ASSUME DataAssumption ==
    /\ ZeroByte \in Byte
    /\ Accesses \subseteq Address

-----------------------------------------------------------------------------
(* Addresses.                                                              *)

Prefix(bits, d) == [i \in 1..d |-> bits[i]]

PageOf(leaf) == Prefix(leaf, PageKeySize)

InPage(leaf) == [i \in 1..PageDepth |-> leaf[PageKeySize + i]]

\* The leaf that follows in the address space, which wraps around.
NextLeaf(leaf) ==
    [i \in 1..AddrSize |->
        IF \A j \in (i + 1)..AddrSize : leaf[j] = 1 THEN 1 - leaf[i] ELSE leaf[i]]

Sibling(node) ==
    [i \in 1..Len(node) |-> IF i = Len(node) THEN 1 - node[i] ELSE node[i]]

-----------------------------------------------------------------------------
(* Hashes.  Keccak is collision free here: a hash is the pair of its       *)
(* inputs, and a leaf stands for itself.                                   *)

HashPair(left, right) == <<left, right>>

ZeroLeaf == [b \in 0..(LeafBytes - 1) |-> ZeroByte]

\* zeroHashes[h] is the root of an all-zero subtree of height h.
zeroHashes[h \in 0..AddrSize] ==
    IF h = 0 THEN ZeroLeaf
             ELSE LET below == zeroHashes[h - 1] IN HashPair(below, below)

-----------------------------------------------------------------------------
(* The data structure.  Children are the child pointers that are not nil,  *)
(* named by the node they lead to; the domain of Hashes is HashValid and   *)
(* the domain of a page's Cache is Ok: no method reads an invalid slot.    *)

EmptyFcn == [x \in {} |-> x]

NoKey == << >>  \* ^uint64(0), which is no page key

NewMemory ==
    [ pages        |-> EmptyFcn,
      Children     |-> {},
      HashExists   |-> {},
      Hashes       |-> EmptyFcn,
      lastPageKeys |-> <<NoKey, NoKey>> ]

SetPage(m, key, page) ==
    [m EXCEPT !.pages = [k \in DOMAIN m.pages |-> IF k = key THEN page ELSE m.pages[k]]]

NewPage == [Data |-> [l \in LeafInPage |-> ZeroLeaf], Cache |-> EmptyFcn]

\* The second result of pageLookup: a hit in the two-entry cache, or in the map.
pageExists(m, key) ==
    \/ key \in {m.lastPageKeys[1], m.lastPageKeys[2]}
    \/ key \in DOMAIN m.pages

\* The effect of pageLookup: only pages found in the map enter the cache.
pageLookup(m, key) ==
    IF key \in {m.lastPageKeys[1], m.lastPageKeys[2]} \/ key \notin DOMAIN m.pages
    THEN m
    ELSE [m EXCEPT !.lastPageKeys = <<key, m.lastPageKeys[1]>>]

\* The hash nodes of radix level i above a page: what InvalidateNode clears.
LevelPath(key, i) == {Prefix(key, d) : d \in LevelDepths[i]..(LevelDepths[i + 1] - 1)}

\* InvalidateNode at every level of a set: the nodes exist from now on, and
\* their hashes are no longer valid.
InvalidateNode(m, key, levels) ==
    LET path == UNION {LevelPath(key, i) : i \in levels}
    IN  [m EXCEPT !.HashExists = @ \union path,
                  !.Hashes = Restrict(m.Hashes, DOMAIN m.Hashes \ path)]

\* Mutant: the last level is left without its pointer to the page.
AllocPageUnlinked(m, key) ==
    InvalidateNode(
        [m EXCEPT !.pages = [k \in DOMAIN m.pages \union {key} |->
                                IF k = key THEN NewPage ELSE m.pages[k]],
                  !.Children = @ \union {Prefix(key, LevelDepths[i]) : i \in Levels \ {1}}],
        key, Levels)

AllocPage(m, key) ==
    InvalidateNode(
        [m EXCEPT !.pages = [k \in DOMAIN m.pages \union {key} |->
                                IF k = key THEN NewPage ELSE m.pages[k]],
                  !.Children = @ \union {Prefix(key, LevelDepths[i + 1]) : i \in Levels}],
        key, Levels)

\* The levels a walk down the trie reaches before it meets a nil child.
ReachedLevels(m, key) ==
    {i \in Levels : \A j \in 2..i : Prefix(key, LevelDepths[j]) \in m.Children}

\* Mutant: the loop stops before it clears the root of the page.
PageInvalidateKeepsRoot(page, inPage) ==
    [page EXCEPT !.Cache =
        Restrict(page.Cache, DOMAIN page.Cache \ {Prefix(inPage, d) : d \in 1..(PageDepth - 1)})]

\* CachedPage.Invalidate: clears the nodes of the page above one leaf.
PageInvalidate(page, inPage) ==
    [page EXCEPT !.Cache =
        Restrict(page.Cache, DOMAIN page.Cache \ {Prefix(inPage, d) : d \in 0..(PageDepth - 1)})]

\* Mutant: the walk starts below the first level.
InvalidateBelowFirst(m, leaf) ==
    LET key    == PageOf(leaf)
        looked == pageLookup(m, key)
    IN  IF ~pageExists(m, key) \/ Root \notin DOMAIN m.pages[key].Cache
        THEN looked
        ELSE InvalidateNode(
                SetPage(looked, key, PageInvalidate(m.pages[key], InPage(leaf))),
                key, ReachedLevels(m, key) \ {1})

\* Memory.Invalidate: the test of the page root comes before anything is cleared.
Invalidate(m, leaf) ==
    LET key    == PageOf(leaf)
        looked == pageLookup(m, key)
    IN  IF ~pageExists(m, key) \/ Root \notin DOMAIN m.pages[key].Cache
        THEN looked
        ELSE InvalidateNode(
                SetPage(looked, key, PageInvalidate(m.pages[key], InPage(leaf))),
                key, ReachedLevels(m, key))

-----------------------------------------------------------------------------
(* Reading and writing.                                                    *)

\* One half of SetUnaligned: find or allocate the page of a leaf, invalidate
\* what is above the leaf.
PrepareWrite(m, leaf) ==
    IF pageExists(m, PageOf(leaf))
    THEN Invalidate(pageLookup(m, PageOf(leaf)), leaf)
    ELSE AllocPage(m, PageOf(leaf))

\* copy() into the page of a leaf: bytes from..to of dat, the first at `byte'.
CopyIn(m, leaf, byte, dat, from, to) ==
    LET page == m.pages[PageOf(leaf)]
        old  == page.Data[InPage(leaf)]
        new  == [b \in 0..(LeafBytes - 1) |->
                    IF b >= byte /\ b <= byte + to - from THEN dat[from + b - byte] ELSE old[b]]
        data == [l \in LeafInPage |-> IF l = InPage(leaf) THEN new ELSE page.Data[l]]
    IN  SetPage(m, PageOf(leaf), [page EXCEPT !.Data = data])

\* Mutant: the bytes past the end of the page are lost.
SetUnalignedInPage(m, addr, dat) ==
    LET fit   == LeafBytes - addr.byte
        next  == NextLeaf(addr.leaf)
        first == CopyIn(PrepareWrite(m, addr.leaf), addr.leaf, addr.byte, dat,
                        1, IF Len(dat) <= fit THEN Len(dat) ELSE fit)
    IN  IF Len(dat) <= fit \/ PageOf(next) # PageOf(addr.leaf)
        THEN first
        ELSE CopyIn(first, next, 0, dat, fit + 1, Len(dat))

\* SetUnaligned(addr, dat), at most a leaf of bytes.  The bytes past the end of
\* the leaf go to the next one; past the end of the page that leaf belongs to
\* another page, which is looked up and invalidated or allocated in turn.
SetUnaligned(m, addr, dat) ==
    LET fit   == LeafBytes - addr.byte
        next  == NextLeaf(addr.leaf)
        first == CopyIn(PrepareWrite(m, addr.leaf), addr.leaf, addr.byte, dat,
                        1, IF Len(dat) <= fit THEN Len(dat) ELSE fit)
    IN  IF Len(dat) <= fit
        THEN first
        ELSE CopyIn(IF PageOf(next) = PageOf(addr.leaf) THEN first
                                                        ELSE PrepareWrite(first, next),
                    next, 0, dat, fit + 1, Len(dat))

\* The bytes of a leaf; a page that was never written reads as zeroes.
ReadLeaf(m, leaf) ==
    IF pageExists(m, PageOf(leaf)) THEN m.pages[PageOf(leaf)].Data[InPage(leaf)]
                                   ELSE ZeroLeaf

\* The effect of GetUnaligned(addr, dest) on the lookup cache, and its result.
GetUnaligned(m, addr, n) ==
    LET next == NextLeaf(addr.leaf)
        here == pageLookup(m, PageOf(addr.leaf))
    IN  IF addr.byte + n <= LeafBytes \/ PageOf(next) = PageOf(addr.leaf)
        THEN here
        ELSE pageLookup(here, PageOf(next))

\* Mutant: the bytes past the end of the page are taken from its start.
GetResultInPage(m, addr, n) ==
    [i \in 1..n |->
        IF addr.byte + i <= LeafBytes
        THEN ReadLeaf(m, addr.leaf)[addr.byte + i - 1]
        ELSE LET next == PageOf(addr.leaf) \o InPage(NextLeaf(addr.leaf))
             IN  ReadLeaf(m, next)[addr.byte + i - 1 - LeafBytes]]

GetResult(m, addr, n) ==
    [i \in 1..n |->
        IF addr.byte + i <= LeafBytes
        THEN ReadLeaf(m, addr.leaf)[addr.byte + i - 1]
        ELSE ReadLeaf(m, NextLeaf(addr.leaf))[addr.byte + i - 1 - LeafBytes]]

-----------------------------------------------------------------------------
(* Ranges, as the loader writes them.  An address is a number here.        *)

PageBytes == LeafBytes * 2 ^ PageDepth

AddrCount == LeafBytes * 2 ^ AddrSize

\* The bits that lead to the leaf of a byte address.
LeafAt(a) ==
    [i \in 1..AddrSize |-> IF (a \div (LeafBytes * 2 ^ (AddrSize - i))) % 2 = 1 THEN 1 ELSE 0]

\* Read into p.Data[pageAddr:]: the bytes of dat, the first at the address.
FillPage(page, addr, dat) ==
    [page EXCEPT !.Data = [l \in LeafInPage |-> [b \in 0..(LeafBytes - 1) |->
        LET at == {j \in DOMAIN dat : /\ InPage(LeafAt(addr + j - 1)) = l
                                      /\ (addr + j - 1) % LeafBytes = b}
        IN  IF at = {} THEN page.Data[l][b] ELSE dat[CHOOSE j \in at : TRUE]]]]

\* CachedPage.InvalidateFull: no slot of the page is valid.
InvalidateFull(page) == [page EXCEPT !.Cache = EmptyFcn]

\* A turn of the loop of SetMemoryRange that reads dat, no more than the page
\* has room for: the page is looked up or allocated, and loses its cache.  The
\* nodes above the page are left as they are.
SetMemoryPage(m, addr, dat) ==
    LET key   == PageOf(LeafAt(addr))
        found == IF pageExists(m, key) THEN pageLookup(m, key) ELSE AllocPage(m, key)
    IN  SetPage(found, key, FillPage(InvalidateFull(found.pages[key]), addr, dat))

-----------------------------------------------------------------------------
(* Merkleization of a page.                                                *)

\* What CachedPage.MerkleRoot leaves in the cache: a valid slot is kept, any
\* other is hashed from the two below it, down to the data.
PageHash(page) ==
    LET hash[g \in PageNode \union LeafInPage] ==
            IF g \in LeafInPage THEN page.Data[g]
            ELSE IF g \in DOMAIN page.Cache THEN page.Cache[g]
            ELSE HashPair(hash[Append(g, 0)], hash[Append(g, 1)])
    IN  hash

PageMerkleRoot(page) ==
    LET hash == PageHash(page)
    IN  [page EXCEPT !.Cache = [g \in PageNode |-> hash[g]]]

-----------------------------------------------------------------------------
(* Merkleization of the trie.                                              *)

\* The nodes that start a radix level, or a page: the ones with a pointer.
AtLevelStart(node) == \E i \in Levels : Len(node) = LevelDepths[i + 1]

\* The child pointer that leads to a node, if one does, is not nil.
Linked(m, node) == AtLevelStart(node) => node \in m.Children

\* The binary nodes whose hash MerkleizeNode computes from their children.
Recomputed(m) ==
    {n \in RadixNode : Linked(m, n) /\ n \in m.HashExists \ DOMAIN m.Hashes}

\* Mutant: a page answers with its cached root even when that is not valid.
MerkleizeNodeCached(m) ==
    LET zero(n) == zeroHashes[AddrSize - Len(n)]
        hash[n \in RadixNode \union PageKey] ==
            IF ~Linked(m, n) THEN zero(n)
            ELSE IF n \in PageKey
                 THEN IF n \in DOMAIN m.pages /\ Root \in DOMAIN m.pages[n].Cache
                      THEN m.pages[n].Cache[Root] ELSE zero(n)
            ELSE IF n \notin m.HashExists THEN zero(n)
            ELSE IF n \in DOMAIN m.Hashes THEN m.Hashes[n]
            ELSE HashPair(hash[Append(n, 0)], hash[Append(n, 1)])
    IN  hash

\* The hash MerkleizeNode returns for every node of the trie, and every page.
MerkleizeNode(m) ==
    LET zero(n) == zeroHashes[AddrSize - Len(n)]
        hash[n \in RadixNode \union PageKey] ==
            IF ~Linked(m, n) THEN zero(n)
            ELSE IF n \in PageKey
                 THEN IF n \in DOMAIN m.pages THEN PageHash(m.pages[n])[Root] ELSE zero(n)
            ELSE IF n \notin m.HashExists THEN zero(n)
            ELSE IF n \in DOMAIN m.Hashes THEN m.Hashes[n]
            ELSE HashPair(hash[Append(n, 0)], hash[Append(n, 1)])
    IN  hash

\* The nodes the recursion of MerkleizeNode enters from any of the starts: every
\* node on the way there is one that is recomputed.
Visited(m, starts) ==
    LET recomputed == Recomputed(m)
    IN  {n \in RadixNode \union PageKey :
            \E d \in 0..Len(n) :
                /\ Prefix(n, d) \in starts
                /\ \A e \in d..(Len(n) - 1) : Prefix(n, e) \in recomputed}

\* The effect of MerkleizeNode: the nodes it recomputed, and the pages it
\* reached, are valid from now on.
Merkleize(m, starts) ==
    LET visited == Visited(m, starts)
        hash    == MerkleizeNode(m)
    IN  [m EXCEPT
            !.Hashes = [n \in DOMAIN m.Hashes \union (visited \intersect Recomputed(m)) |-> hash[n]],
            !.pages  = [k \in DOMAIN m.pages |->
                            IF k \in visited /\ Linked(m, k)
                            THEN PageMerkleRoot(m.pages[k]) ELSE m.pages[k]]]

MerkleRoot(m) == Merkleize(m, {Root})

RootHash(m) == MerkleizeNode(m)[Root]

-----------------------------------------------------------------------------
(* Merkle proofs.                                                          *)

\* The depths whose siblings GenerateProof collects at the trie levels it reaches.
ProofDepths(m, key) ==
    {d \in 1..PageKeySize :
        \E i \in ReachedLevels(m, key) : LevelDepths[i] < d /\ d <= LevelDepths[i + 1]}

\* GenerateProof walks down to the page of the leaf, if there is one.
ReachesPage(m, key) == key \in m.Children /\ ReachedLevels(m, key) = Levels

ProofPage(m, key) ==
    ReachesPage(m, key) /\ key \in DOMAIN m.pages

\* Mutant: the slots of the page become valid without being hashed.
MerkleProofUnhashed(m, leaf) ==
    LET key  == PageOf(leaf)
        sibs == {Sibling(Prefix(key, d)) : d \in ProofDepths(m, key)}
        slot == [g \in PageNode |-> zeroHashes[PageDepth - Len(g)]]
        page == IF ProofPage(m, key)
                THEN SetPage(m, key, [m.pages[key] EXCEPT !.Cache = slot]) ELSE m
    IN  Merkleize(page, sibs)

\* The effect of MerkleProof: the page is merkleized, not the nodes above it,
\* and so is every sibling on the way back to the root.
MerkleProof(m, leaf) ==
    LET key  == PageOf(leaf)
        sibs == {Sibling(Prefix(key, d)) : d \in ProofDepths(m, key)}
        page == IF ProofPage(m, key)
                THEN SetPage(m, key, PageMerkleRoot(m.pages[key])) ELSE m
    IN  Merkleize(page, sibs)

\* The result of MerkleProof: the leaf and the sibling at every depth; zero
\* hashes below the first nil child.
Proof(m, leaf) ==
    LET key     == PageOf(leaf)
        pageNow == PageHash(m.pages[key])
        hash    == MerkleizeNode(m)
        sib(d)  == IF d > PageKeySize
                   THEN IF ProofPage(m, key)
                        THEN pageNow[Sibling(Prefix(InPage(leaf), d - PageKeySize))]
                        ELSE zeroHashes[AddrSize - d]
                   ELSE IF d \in ProofDepths(m, key)
                        THEN hash[Sibling(Prefix(key, d))]
                        ELSE zeroHashes[AddrSize - d]
    IN  [ leaf     |-> IF ProofPage(m, key) THEN pageNow[InPage(leaf)] ELSE ZeroLeaf,
          siblings |-> [d \in 1..AddrSize |-> sib(d)] ]

-----------------------------------------------------------------------------
(* Serialization.  The file holds the pages, in any order, and nothing of  *)
(* the caches.                                                             *)

Serialize(m) == [k \in DOMAIN m.pages |-> m.pages[k].Data]

\* Mutant: the pages are put in the map and never linked into the trie.
DeserializeUnlinked(file) ==
    [NewMemory EXCEPT !.pages = [k \in DOMAIN file |-> [NewPage EXCEPT !.Data = file[k]]]]

\* AllocPage for every page of the file, then its data is read into it.
Deserialize(file) ==
    [ pages        |-> [k \in DOMAIN file |-> [NewPage EXCEPT !.Data = file[k]]],
      Children     |-> UNION {{Prefix(k, LevelDepths[i + 1]) : i \in Levels} : k \in DOMAIN file},
      HashExists   |-> UNION {UNION {LevelPath(k, i) : i \in Levels} : k \in DOMAIN file},
      Hashes       |-> EmptyFcn,
      lastPageKeys |-> <<NoKey, NoKey>> ]

-----------------------------------------------------------------------------
(* Predicates on a memory, named for use in invariants.                    *)

IsPage(p) ==
    /\ DOMAIN p = {"Data", "Cache"}
    /\ p.Data \in [LeafInPage -> LeafData]
    /\ DOMAIN p.Cache \subseteq PageNode

IsMemory(m) ==
    /\ DOMAIN m = {"pages", "Children", "HashExists", "Hashes", "lastPageKeys"}
    /\ DOMAIN m.pages \subseteq PageKey
    /\ \A k \in DOMAIN m.pages : IsPage(m.pages[k])
    /\ m.Children \subseteq RadixNode \union PageKey
    /\ m.HashExists \subseteq RadixNode
    /\ DOMAIN m.Hashes \subseteq m.HashExists
    /\ m.lastPageKeys \in [1..2 -> PageKey \union {NoKey}]

KeysAllocated(m) ==
    \A i \in 1..2 : m.lastPageKeys[i] # NoKey => m.lastPageKeys[i] \in DOMAIN m.pages

SpansPages(m) ==
    /\ m.Children   = {Prefix(k, LevelDepths[i + 1]) : k \in DOMAIN m.pages, i \in Levels}
    /\ m.HashExists = {Prefix(k, d) : k \in DOMAIN m.pages, d \in 0..(PageKeySize - 1)}

RootCovers(m) ==
    \A k \in DOMAIN m.pages :
        Root \in DOMAIN m.pages[k].Cache => DOMAIN m.pages[k].Cache = PageNode

PathInvalid(m) ==
    \A k \in DOMAIN m.pages :
        Root \notin DOMAIN m.pages[k].Cache =>
            \A d \in 0..(PageKeySize - 1) : Prefix(k, d) \notin DOMAIN m.Hashes

-----------------------------------------------------------------------------
(* What a memory means.                                                    *)

\* The bytes the memory holds, read through the page map.
Contents(m) ==
    [l \in Leaf |-> IF PageOf(l) \in DOMAIN m.pages
                    THEN m.pages[PageOf(l)].Data[InPage(l)] ELSE ZeroLeaf]

\* The Merkle root of the contents, from scratch.
TrueHash(m) ==
    LET data == Contents(m)
        hash[n \in UNION {[1..d -> Bit] : d \in 0..AddrSize}] ==
            IF n \in Leaf THEN data[n]
            ELSE HashPair(hash[Append(n, 0)], hash[Append(n, 1)])
    IN  hash

=============================================================================
