---------------------------- MODULE MemoryProofs ----------------------------
(***************************************************************************)
(* What every method of Memory preserves, for every shape of the trie and  *)
(* of a page.                                                              *)
(***************************************************************************)
EXTENDS Memory, TLAPS, WellFoundedInduction

\* The inductive invariant: the claim Invalidate rests on holds only together
\* with the trie reaching every page, so that a walk to an invalid page visits
\* all of the nodes above it.
IInv(m) ==
    /\ IsMemory(m)
    /\ KeysAllocated(m)
    /\ SpansPages(m)
    /\ RootCovers(m)
    /\ PathInvalid(m)

-----------------------------------------------------------------------------
(* Bit sequences.                                                          *)

\* The depths of the trie are numbers, in order.
LEMMA Sizes ==
    /\ PageKeySize \in Nat \ {0}
    /\ AddrSize \in Nat
    /\ \A i \in Levels : /\ LevelDepths[i] \in Nat
                         /\ LevelDepths[i + 1] \in 1..PageKeySize
                         /\ LevelDepths[i] < LevelDepths[i + 1]
  <1>1. \A i \in Levels : LevelDepths[i] \in Nat /\ LevelDepths[i + 1] \in Nat
    BY LevelsAssumption DEF Levels
  <1>2. PageKeySize \in Nat
    BY LevelsAssumption DEF PageKeySize
  <1>3. PageKeySize > 0
    BY <1>1, <1>2, LevelsAssumption DEF Levels
  <1> QED BY <1>1, <1>2, <1>3, LevelsAssumption, PageAssumption DEF AddrSize

\* A prefix of a page key is a node of the trie.
LEMMA PrefixNode ==
    ASSUME NEW key \in PageKey
    PROVE  /\ \A d \in 0..(PageKeySize - 1) : Prefix(key, d) \in RadixNode
           /\ \A d \in 0..PageKeySize : Prefix(key, d) \in [1..d -> Bit]
           /\ Prefix(key, PageKeySize) = key
  BY Sizes DEF PageKey, Prefix, RadixNode

\* A prefix of a prefix is a prefix.
LEMMA PrefixPrefix ==
    ASSUME NEW key, NEW d \in Nat, NEW e \in 0..d
    PROVE  Prefix(Prefix(key, d), e) = Prefix(key, e)
  BY DEF Prefix

\* The parts of a leaf address have their types.
LEMMA LeafParts ==
    ASSUME NEW leaf \in Leaf
    PROVE  /\ PageOf(leaf) \in PageKey
           /\ InPage(leaf) \in LeafInPage
           /\ NextLeaf(leaf) \in Leaf
  <1>1. NextLeaf(leaf) \in Leaf
    BY Sizes DEF Leaf, NextLeaf, Bit
  <1>2. PageOf(leaf) \in PageKey
    BY Sizes, PageAssumption DEF Leaf, PageOf, Prefix, PageKey, AddrSize
  <1>3. InPage(leaf) \in LeafInPage
    BY Sizes, PageAssumption DEF Leaf, InPage, LeafInPage, AddrSize
  <1> QED BY <1>1, <1>2, <1>3

\* The empty entry of the lookup cache names no page.
LEMMA NoKeyNoPage == NoKey \notin PageKey
  BY Sizes DEF NoKey, PageKey

\* The levels of the trie together hold every node above a page.
LEMMA PathNodes ==
    ASSUME NEW key \in PageKey
    PROVE  UNION {LevelPath(key, i) : i \in Levels}
             = {Prefix(key, d) : d \in 0..(PageKeySize - 1)}
  <1>1. ASSUME NEW i \in Levels, NEW d \in LevelDepths[i]..(LevelDepths[i + 1] - 1)
        PROVE  d \in 0..(PageKeySize - 1)
    BY Sizes
  <1>2. \A d \in 0..(PageKeySize - 1) :
            \E i \in Levels : d \in LevelDepths[i]..(LevelDepths[i + 1] - 1)
    <2> TAKE d \in 0..(PageKeySize - 1)
    <2>1. PICK i \in Levels : LevelDepths[i] <= d /\ d < LevelDepths[i + 1]
      BY LevelsAssumption
    <2> d \in LevelDepths[i]..(LevelDepths[i + 1] - 1)
      BY <2>1, Sizes
    <2> QED BY <2>1
  <1> QED BY <1>1, <1>2 DEF LevelPath

-----------------------------------------------------------------------------
(* The methods preserve the invariant.                                     *)

\* pageLookup finds exactly the allocated pages, and changes the lookup cache only.
LEMMA LookupStep ==
    ASSUME NEW m, IInv(m), NEW key \in PageKey
    PROVE  /\ pageExists(m, key) <=> key \in DOMAIN m.pages
           /\ IInv(pageLookup(m, key))
           /\ pageLookup(m, key).pages = m.pages
           /\ pageLookup(m, key).Children = m.Children
  <1> USE DEF IInv
  <1>1. pageExists(m, key) <=> key \in DOMAIN m.pages
    BY NoKeyNoPage DEF pageExists, KeysAllocated, IsMemory
  <1>2. CASE key \in {m.lastPageKeys[1], m.lastPageKeys[2]} \/ key \notin DOMAIN m.pages
    BY <1>1, <1>2 DEF pageLookup
  <1>3. CASE ~(key \in {m.lastPageKeys[1], m.lastPageKeys[2]} \/ key \notin DOMAIN m.pages)
    <2> DEFINE r == pageLookup(m, key)
    <2>1. r = [m EXCEPT !.lastPageKeys = <<key, m.lastPageKeys[1]>>]
      BY <1>3 DEF pageLookup
    <2>2. /\ DOMAIN r = DOMAIN m
          /\ r.pages = m.pages /\ r.Children = m.Children
          /\ r.HashExists = m.HashExists /\ r.Hashes = m.Hashes
          /\ r.lastPageKeys = <<key, m.lastPageKeys[1]>>
      BY <2>1 DEF IsMemory
    <2> HIDE DEF r
    <2>3. r.lastPageKeys \in [1..2 -> PageKey \union {NoKey}]
      BY <2>2 DEF IsMemory
    <2>4. IsMemory(r)
      BY <2>2, <2>3 DEF IsMemory
    <2>5. KeysAllocated(r)
      BY <2>2, <1>3 DEF KeysAllocated, IsMemory
    <2>6. SpansPages(r) /\ RootCovers(r) /\ PathInvalid(r)
      BY <2>2 DEF SpansPages, RootCovers, PathInvalid
    <2> QED BY <1>1, <2>2, <2>4, <2>5, <2>6 DEF r
  <1> QED BY <1>2, <1>3

\* SetPage replaces one page and leaves the trie and the lookup cache alone.
LEMMA SetPageParts ==
    ASSUME NEW m, IsMemory(m), NEW key, NEW page
    PROVE  /\ DOMAIN SetPage(m, key, page) = DOMAIN m
           /\ SetPage(m, key, page).pages
                = [k \in DOMAIN m.pages |-> IF k = key THEN page ELSE m.pages[k]]
           /\ SetPage(m, key, page).Children = m.Children
           /\ SetPage(m, key, page).HashExists = m.HashExists
           /\ SetPage(m, key, page).Hashes = m.Hashes
           /\ SetPage(m, key, page).lastPageKeys = m.lastPageKeys
  BY DEF SetPage, IsMemory

\* AllocPage adds one page, with everything above it invalid.
LEMMA AllocStep ==
    ASSUME NEW m, IInv(m), NEW key \in PageKey, key \notin DOMAIN m.pages
    PROVE  /\ IInv(AllocPage(m, key))
           /\ DOMAIN AllocPage(m, key).pages = DOMAIN m.pages \union {key}
  <1> USE DEF IInv
  <1> DEFINE r    == AllocPage(m, key)
             path == {Prefix(key, d) : d \in 0..(PageKeySize - 1)}
  <1>1. /\ DOMAIN r = DOMAIN m
        /\ r.pages = [k \in DOMAIN m.pages \union {key} |-> IF k = key THEN NewPage ELSE m.pages[k]]
        /\ r.Children = m.Children \union {Prefix(key, LevelDepths[i + 1]) : i \in Levels}
        /\ r.HashExists = m.HashExists \union path
        /\ r.Hashes = Restrict(m.Hashes, DOMAIN m.Hashes \ path)
        /\ r.lastPageKeys = m.lastPageKeys
    BY PathNodes DEF AllocPage, InvalidateNode, IsMemory
  <1> HIDE DEF r
  <1>2. path \subseteq RadixNode
    BY PrefixNode
  <1>3. {Prefix(key, LevelDepths[i + 1]) : i \in Levels} \subseteq RadixNode \union PageKey
    <2> SUFFICES ASSUME NEW i \in Levels
                 PROVE  Prefix(key, LevelDepths[i + 1]) \in RadixNode \union PageKey
      OBVIOUS
    <2>1. LevelDepths[i + 1] \in 0..(PageKeySize - 1) \/ LevelDepths[i + 1] = PageKeySize
      BY Sizes
    <2> QED BY <2>1, PrefixNode
  <1>4. IsPage(NewPage)
    BY PageAssumption, DataAssumption
       DEF IsPage, NewPage, ZeroLeaf, LeafData, EmptyFcn
  <1>5. DOMAIN r.Hashes = DOMAIN m.Hashes \ path
    BY <1>1 DEF Restrict
  <1>6. IsMemory(r)
    <2>1. DOMAIN r.pages \subseteq PageKey /\ \A k \in DOMAIN r.pages : IsPage(r.pages[k])
      BY <1>1, <1>4 DEF IsMemory
    <2> QED BY <2>1, <1>1, <1>2, <1>3, <1>5 DEF IsMemory
  <1>7. KeysAllocated(r)
    BY <1>1 DEF KeysAllocated
  <1>8. SpansPages(r)
    <2>1. r.Children = {Prefix(k, LevelDepths[i + 1]) : k \in DOMAIN r.pages, i \in Levels}
      BY <1>1 DEF SpansPages
    <2>2. r.HashExists = {Prefix(k, d) : k \in DOMAIN r.pages, d \in 0..(PageKeySize - 1)}
      BY <1>1 DEF SpansPages
    <2> QED BY <2>1, <2>2 DEF SpansPages
  <1>9. RootCovers(r)
    BY <1>1 DEF RootCovers, NewPage, EmptyFcn
  <1>10. PathInvalid(r)
    BY <1>1, <1>5 DEF PathInvalid
  <1> QED BY <1>1, <1>6, <1>7, <1>8, <1>9, <1>10 DEF r

\* A walk down to an allocated page meets no nil child.
LEMMA ReachesAllocated ==
    ASSUME NEW m, IInv(m), NEW key \in DOMAIN m.pages
    PROVE  /\ ReachedLevels(m, key) = Levels
           /\ \A d \in 0..(PageKeySize - 1) : Linked(m, Prefix(key, d))
           /\ Linked(m, key)
  <1> USE DEF IInv
  <1>1. \A i \in Levels : Prefix(key, LevelDepths[i + 1]) \in m.Children
    BY DEF SpansPages
  <1>2. ReachedLevels(m, key) = Levels
    <2> SUFFICES ASSUME NEW i \in Levels, NEW j \in 2..i
                 PROVE  Prefix(key, LevelDepths[j]) \in m.Children
      BY DEF ReachedLevels
    <2>1. j - 1 \in Levels /\ (j - 1) + 1 = j
      BY LevelsAssumption DEF Levels
    <2> QED BY <1>1, <2>1
  <1>3. key \in PageKey
    BY DEF IsMemory
  <1>4. ASSUME NEW d \in 0..PageKeySize
        PROVE  Linked(m, Prefix(key, d))
    <2>1. Len(Prefix(key, d)) = d
      BY <1>3, PrefixNode, Sizes
    <2>2. ASSUME NEW i \in Levels, d = LevelDepths[i + 1]
          PROVE  Prefix(key, d) \in m.Children
      BY <1>1, <2>2
    <2> QED BY <2>1, <2>2 DEF Linked, AtLevelStart
  <1> QED BY <1>2, <1>3, <1>4, PrefixNode, Sizes

\* Memory.Invalidate: the early return is safe because of PathInvalid, the walk
\* clears every node above the page because it meets no nil child.
LEMMA InvalidateStep ==
    ASSUME NEW m, IInv(m), NEW leaf \in Leaf, PageOf(leaf) \in DOMAIN m.pages
    PROVE  /\ IInv(Invalidate(m, leaf))
           /\ DOMAIN Invalidate(m, leaf).pages = DOMAIN m.pages
  <1> DEFINE key    == PageOf(leaf)
             looked == pageLookup(m, key)
             path   == {Prefix(key, d) : d \in 0..(PageKeySize - 1)}
             r      == Invalidate(m, leaf)
  <1>1. key \in PageKey /\ InPage(leaf) \in LeafInPage
    BY LeafParts
  <1>2. /\ pageExists(m, key)
        /\ IInv(looked) /\ looked.pages = m.pages /\ looked.Children = m.Children
    BY <1>1, LookupStep
  <1>3. CASE Root \notin DOMAIN m.pages[key].Cache
    BY <1>2, <1>3 DEF Invalidate
  <1>4. CASE Root \in DOMAIN m.pages[key].Cache
    <2> DEFINE page == PageInvalidate(m.pages[key], InPage(leaf))
    <2>1. ReachedLevels(m, key) = Levels
      BY ReachesAllocated
    <2>2. r = InvalidateNode(SetPage(looked, key, page), key, Levels)
      BY <1>2, <1>4, <2>1 DEF Invalidate
    <2>3. /\ DOMAIN r = DOMAIN looked
          /\ r.pages = [k \in DOMAIN m.pages |-> IF k = key THEN page ELSE m.pages[k]]
          /\ r.Children = looked.Children
          /\ r.HashExists = looked.HashExists \union path
          /\ r.Hashes = Restrict(looked.Hashes, DOMAIN looked.Hashes \ path)
          /\ r.lastPageKeys = looked.lastPageKeys
      <3> DEFINE set == SetPage(looked, key, page)
      <3>1. IsMemory(looked)
        BY <1>2 DEF IInv
      <3> HIDE DEF page, looked, key
      <3>2. /\ DOMAIN set = DOMAIN looked
            /\ set.pages = [k \in DOMAIN m.pages |-> IF k = key THEN page ELSE m.pages[k]]
            /\ set.Children = looked.Children /\ set.HashExists = looked.HashExists
            /\ set.Hashes = looked.Hashes /\ set.lastPageKeys = looked.lastPageKeys
        BY <3>1, <1>2, SetPageParts
      <3> HIDE DEF set
      <3> QED BY <1>1, <3>1, <3>2, <2>2, PathNodes DEF InvalidateNode, IsMemory, set
    <2>4. IsPage(m.pages[key])
      BY DEF IInv, IsMemory
    <2>5. /\ IsPage(page)
          /\ Root \notin DOMAIN page.Cache
      <3>1. /\ DOMAIN page = DOMAIN m.pages[key]
            /\ page.Data = m.pages[key].Data
            /\ page.Cache = Restrict(m.pages[key].Cache, DOMAIN m.pages[key].Cache
                                \ {Prefix(InPage(leaf), d) : d \in 0..(PageDepth - 1)})
        BY <2>4 DEF PageInvalidate, IsPage
      <3>2. Prefix(InPage(leaf), 0) = Root
        BY DEF Prefix, Root
      <3>3. 0 \in 0..(PageDepth - 1)
        BY PageAssumption
      <3> HIDE DEF page
      <3> QED BY <3>1, <3>2, <3>3, <2>4 DEF IsPage, Restrict
    <2> HIDE DEF page, r, looked, key
    <2>6. path \subseteq looked.HashExists
      BY <1>2 DEF IInv, SpansPages, key
    <2>7. DOMAIN r.Hashes = DOMAIN looked.Hashes \ path
      BY <2>3 DEF Restrict
    <2>8. IsMemory(r)
      <3>1. \A k \in DOMAIN r.pages : IsPage(r.pages[k])
        BY <2>3, <2>5, <1>2 DEF IInv, IsMemory
      <3> QED BY <1>2, <2>3, <2>6, <2>7, <3>1 DEF IInv, IsMemory
    <2>9. KeysAllocated(r) /\ SpansPages(r)
      <3>1. /\ DOMAIN r.pages = DOMAIN looked.pages
            /\ r.HashExists = looked.HashExists /\ r.Children = looked.Children
        BY <1>2, <2>3, <2>6
      <3>2. KeysAllocated(r)
        BY <1>2, <2>3, <3>1 DEF IInv, KeysAllocated
      <3>3. SpansPages(r)
        BY <1>2, <3>1 DEF IInv, SpansPages
      <3> QED BY <3>2, <3>3
    <2>10. RootCovers(r)
      BY <1>2, <2>3, <2>5 DEF IInv, RootCovers
    <2>11. PathInvalid(r)
      BY <1>2, <2>3, <2>5, <2>7 DEF IInv, PathInvalid
    <2> QED BY <2>3, <2>8, <2>9, <2>10, <2>11 DEF IInv, r
  <1> QED BY <1>3, <1>4

\* The copy into a page touches its data only.
LEMMA CopyStep ==
    ASSUME NEW m, IInv(m), NEW leaf \in Leaf, PageOf(leaf) \in DOMAIN m.pages,
           NEW byte \in 0..(LeafBytes - 1), NEW n \in 1..LeafBytes, NEW dat \in [1..n -> Byte],
           NEW from \in 1..n, NEW to \in 1..n
    PROVE  /\ IInv(CopyIn(m, leaf, byte, dat, from, to))
           /\ DOMAIN CopyIn(m, leaf, byte, dat, from, to).pages = DOMAIN m.pages
  <1> DEFINE key   == PageOf(leaf)
             old   == m.pages[key].Data[InPage(leaf)]
             new   == [b \in 0..(LeafBytes - 1) |->
                         IF b >= byte /\ b <= byte + to - from
                         THEN dat[from + b - byte] ELSE old[b]]
             data  == [l \in LeafInPage |-> IF l = InPage(leaf) THEN new
                                                                ELSE m.pages[key].Data[l]]
             page  == [m.pages[key] EXCEPT !.Data = data]
             r     == CopyIn(m, leaf, byte, dat, from, to)
  <1>1. key \in PageKey /\ InPage(leaf) \in LeafInPage
    BY LeafParts
  <1>2. IsPage(m.pages[key])
    BY DEF IInv, IsMemory
  <1>3. new \in LeafData
    <2>1. old \in LeafData
      BY <1>1, <1>2 DEF IsPage
    <2>2. ASSUME NEW b \in 0..(LeafBytes - 1), b >= byte, b <= byte + to - from
          PROVE  dat[from + b - byte] \in Byte
      <3>1. from + b - byte \in 1..n
        BY <2>2, PageAssumption
      <3> QED BY <3>1
    <2> QED BY <2>1, <2>2 DEF LeafData
  <1>4. r = SetPage(m, key, page)
    BY DEF CopyIn
  <1> HIDE DEF new, r
  <1>5. IsPage(page) /\ page.Cache = m.pages[key].Cache
    BY <1>1, <1>2, <1>3 DEF IsPage
  <1> HIDE DEF page, key
  <1>6. /\ DOMAIN r = DOMAIN m
        /\ r.pages = [k \in DOMAIN m.pages |-> IF k = key THEN page ELSE m.pages[k]]
        /\ r.Children = m.Children /\ r.HashExists = m.HashExists
        /\ r.Hashes = m.Hashes /\ r.lastPageKeys = m.lastPageKeys
    BY <1>4, SetPageParts DEF IInv
  <1>7. DOMAIN r.pages = DOMAIN m.pages
    BY <1>6
  <1>8. IsMemory(r)
    BY <1>5, <1>6, <1>7 DEF IInv, IsMemory
  <1>9. KeysAllocated(r) /\ SpansPages(r)
    BY <1>6, <1>7 DEF IInv, KeysAllocated, SpansPages
  <1>10. \A k \in DOMAIN r.pages : DOMAIN r.pages[k].Cache = DOMAIN m.pages[k].Cache
    BY <1>5, <1>6
  <1>11. RootCovers(r) /\ PathInvalid(r)
    BY <1>6, <1>7, <1>10 DEF IInv, RootCovers, PathInvalid
  <1> QED BY <1>7, <1>8, <1>9, <1>11 DEF IInv, r

\* Finding or allocating the page of a write keeps the invariant,
LEMMA PrepareStep ==
    ASSUME NEW m, IInv(m), NEW leaf \in Leaf
    PROVE  /\ IInv(PrepareWrite(m, leaf))
           /\ DOMAIN PrepareWrite(m, leaf).pages = DOMAIN m.pages \union {PageOf(leaf)}
  <1> DEFINE key == PageOf(leaf)
  <1>1. key \in PageKey
    BY LeafParts
  <1>2. CASE key \in DOMAIN m.pages
    <2>1. pageExists(m, key) /\ IInv(pageLookup(m, key)) /\ pageLookup(m, key).pages = m.pages
      BY <1>1, <1>2, LookupStep
    <2>2. PrepareWrite(m, leaf) = Invalidate(pageLookup(m, key), leaf)
      BY <2>1 DEF PrepareWrite
    <2> QED BY <1>2, <2>1, <2>2, InvalidateStep
  <1>3. CASE key \notin DOMAIN m.pages
    <2>1. PrepareWrite(m, leaf) = AllocPage(m, key)
      BY <1>1, <1>3, LookupStep DEF PrepareWrite
    <2> QED BY <1>1, <1>3, <2>1, AllocStep
  <1> QED BY <1>2, <1>3

\* so does SetUnaligned, on one page or two,
LEMMA SetStep ==
    ASSUME NEW m, IInv(m), NEW addr \in Address, NEW dat \in Dat
    PROVE  IInv(SetUnaligned(m, addr, dat))
  <1>1. PICK n \in 1..LeafBytes : dat \in [1..n -> Byte]
    BY DEF Dat
  <1>2. Len(dat) = n
    BY <1>1, PageAssumption
  <1>3. addr.leaf \in Leaf /\ addr.byte \in 0..(LeafBytes - 1)
    BY DEF Address
  <1> DEFINE leaf  == addr.leaf
             fit   == LeafBytes - addr.byte
             next  == NextLeaf(leaf)
             upTo  == IF n <= fit THEN n ELSE fit
             first == CopyIn(PrepareWrite(m, leaf), leaf, addr.byte, dat, 1, upTo)
  <1>4. upTo \in 1..n /\ 1 \in 1..n
    BY <1>3, PageAssumption
  <1>5. IInv(first) /\ PageOf(leaf) \in DOMAIN first.pages
    <2>1. IInv(PrepareWrite(m, leaf)) /\ PageOf(leaf) \in DOMAIN PrepareWrite(m, leaf).pages
      BY <1>3, PrepareStep
    <2> HIDE DEF upTo, leaf
    <2> QED BY <2>1, <1>1, <1>3, <1>4, CopyStep DEF leaf
  <1>6. CASE n <= fit
    <2>1. SetUnaligned(m, addr, dat) = first
      BY <1>2, <1>6 DEF SetUnaligned
    <2> QED BY <2>1, <1>5
  <1>7. CASE ~(n <= fit)
    <2> DEFINE base == IF PageOf(next) = PageOf(leaf) THEN first ELSE PrepareWrite(first, next)
    <2>1. SetUnaligned(m, addr, dat) = CopyIn(base, next, 0, dat, fit + 1, n)
      BY <1>2, <1>7 DEF SetUnaligned
    <2>2. next \in Leaf
      BY <1>3, LeafParts
    <2> HIDE DEF first, next, leaf
    <2>3. IInv(base) /\ PageOf(next) \in DOMAIN base.pages
      BY <1>5, <2>2, PrepareStep
    <2>4. fit + 1 \in 1..n /\ n \in 1..n /\ 0 \in 0..(LeafBytes - 1)
      BY <1>3, <1>7, PageAssumption
    <2> HIDE DEF base, fit
    <2> QED BY <1>1, <2>1, <2>2, <2>3, <2>4, CopyStep
  <1> QED BY <1>6, <1>7

\* and GetUnaligned.
LEMMA GetStep ==
    ASSUME NEW m, IInv(m), NEW addr \in Address, NEW n \in 1..LeafBytes
    PROVE  IInv(GetUnaligned(m, addr, n))
  <1> DEFINE next == NextLeaf(addr.leaf)
             here == pageLookup(m, PageOf(addr.leaf))
  <1>1. PageOf(addr.leaf) \in PageKey /\ PageOf(next) \in PageKey
    <2>1. addr.leaf \in Leaf
      BY DEF Address
    <2> QED BY <2>1, LeafParts
  <1>2. IInv(here)
    BY <1>1, LookupStep
  <1>3. IInv(pageLookup(here, PageOf(next)))
    BY <1>1, <1>2, LookupStep
  <1> QED BY <1>2, <1>3 DEF GetUnaligned

\* CachedPage.MerkleRoot makes every slot of a page valid.
LEMMA PageRootStep ==
    ASSUME NEW p, IsPage(p)
    PROVE  /\ IsPage(PageMerkleRoot(p))
           /\ DOMAIN PageMerkleRoot(p).Cache = PageNode
  BY DEF IsPage, PageMerkleRoot

\* A page has a root.
LEMMA RootIsPageNode == Root \in PageNode
  <1>1. Root \in [1..0 -> Bit]
    BY DEF Root
  <1>2. 0 \in 0..(PageDepth - 1)
    BY PageAssumption
  <1> QED BY <1>1, <1>2 DEF PageNode

\* All that is above an invalid page is recomputed, so a merkleization that
\* enters a node above an invalid page gets to the page.
LEMMA VisitsInvalid ==
    ASSUME NEW m, IInv(m), NEW starts, NEW k \in DOMAIN m.pages,
           Root \notin DOMAIN m.pages[k].Cache,
           NEW d \in 0..(PageKeySize - 1), Prefix(k, d) \in Visited(m, starts)
    PROVE  k \in Visited(m, starts)
  <1>1. k \in PageKey
    BY DEF IInv, IsMemory
  <1>2. \A e \in 0..(PageKeySize - 1) : Prefix(k, e) \in Recomputed(m)
    <2> TAKE e \in 0..(PageKeySize - 1)
    <2>1. Prefix(k, e) \in RadixNode
      BY <1>1, PrefixNode
    <2>2. Linked(m, Prefix(k, e))
      BY ReachesAllocated
    <2>3. Prefix(k, e) \in m.HashExists /\ Prefix(k, e) \notin DOMAIN m.Hashes
      BY DEF IInv, SpansPages, PathInvalid
    <2> QED BY <2>1, <2>2, <2>3 DEF Recomputed
  <1>3. Len(Prefix(k, d)) = d /\ Len(k) = PageKeySize
    BY <1>1, PrefixNode, Sizes DEF PageKey
  <1>4. PICK c \in 0..d : Prefix(Prefix(k, d), c) \in starts
    BY <1>3 DEF Visited
  <1>5. Prefix(k, c) \in starts
    BY <1>4, PrefixPrefix
  <1>6. c \in 0..Len(k) /\ \A e \in c..(Len(k) - 1) : e \in 0..(PageKeySize - 1)
    BY <1>3, <1>4, Sizes
  <1> QED BY <1>1, <1>2, <1>5, <1>6 DEF Visited

\* Merkleization from any set of nodes keeps the invariant.
LEMMA MerkleizeStep ==
    ASSUME NEW m, IInv(m), NEW starts
    PROVE  IInv(Merkleize(m, starts))
  <1> DEFINE r       == Merkleize(m, starts)
             visited == Visited(m, starts)
             fill    == visited \intersect Recomputed(m)
  <1>1. /\ DOMAIN r = DOMAIN m
        /\ DOMAIN r.Hashes = DOMAIN m.Hashes \union fill
        /\ r.pages = [k \in DOMAIN m.pages |-> IF k \in visited /\ Linked(m, k)
                                               THEN PageMerkleRoot(m.pages[k]) ELSE m.pages[k]]
        /\ r.Children = m.Children /\ r.HashExists = m.HashExists
        /\ r.lastPageKeys = m.lastPageKeys
    BY DEF Merkleize, IInv, IsMemory
  <1> HIDE DEF r
  <1>2. DOMAIN r.pages = DOMAIN m.pages
    BY <1>1
  <1>3. \A k \in DOMAIN m.pages : IsPage(m.pages[k])
    BY DEF IInv, IsMemory
  <1>4. IsMemory(r)
    <2>1. \A k \in DOMAIN r.pages : IsPage(r.pages[k])
      BY <1>1, <1>3, PageRootStep
    <2>2. fill \subseteq m.HashExists
      BY DEF Recomputed
    <2> QED BY <1>1, <1>2, <2>1, <2>2 DEF IInv, IsMemory
  <1>5. KeysAllocated(r)
    BY <1>1, <1>2 DEF IInv, KeysAllocated
  <1>6. SpansPages(r)
    BY <1>1, <1>2 DEF IInv, SpansPages
  <1>7. RootCovers(r)
    BY <1>1, <1>3, PageRootStep DEF IInv, RootCovers
  <1>8. PathInvalid(r)
    <2> SUFFICES ASSUME NEW k \in DOMAIN m.pages, Root \notin DOMAIN r.pages[k].Cache,
                        NEW d \in 0..(PageKeySize - 1), Prefix(k, d) \in DOMAIN r.Hashes
                 PROVE  FALSE
      BY <1>2 DEF PathInvalid
    <2>1. Root \notin DOMAIN m.pages[k].Cache /\ ~(k \in visited /\ Linked(m, k))
      BY <1>1, <1>3, PageRootStep, RootIsPageNode
    <2>2. Prefix(k, d) \in visited
      BY <1>1, <2>1 DEF IInv, PathInvalid
    <2> QED BY <2>1, <2>2, VisitsInvalid, ReachesAllocated
  <1> QED BY <1>4, <1>5, <1>6, <1>7, <1>8 DEF IInv, r

\* A page may be validated below nodes that stay invalid.
LEMMA ValidateStep ==
    ASSUME NEW m, IInv(m), NEW key \in DOMAIN m.pages
    PROVE  IInv(SetPage(m, key, PageMerkleRoot(m.pages[key])))
  <1> DEFINE full == SetPage(m, key, PageMerkleRoot(m.pages[key]))
  <1>1. /\ DOMAIN full = DOMAIN m
        /\ full.pages = [k \in DOMAIN m.pages |->
                              IF k = key THEN PageMerkleRoot(m.pages[key]) ELSE m.pages[k]]
        /\ full.Children = m.Children /\ full.HashExists = m.HashExists
        /\ full.Hashes = m.Hashes /\ full.lastPageKeys = m.lastPageKeys
    BY SetPageParts DEF IInv
  <1> HIDE DEF full
  <1>2. /\ IsPage(PageMerkleRoot(m.pages[key]))
        /\ DOMAIN PageMerkleRoot(m.pages[key]).Cache = PageNode
    BY PageRootStep DEF IInv, IsMemory
  <1>3. DOMAIN full.pages = DOMAIN m.pages
    BY <1>1
  <1>4. IsMemory(full)
    BY <1>1, <1>2, <1>3 DEF IInv, IsMemory
  <1>5. KeysAllocated(full)
    BY <1>1, <1>3 DEF IInv, KeysAllocated
  <1>6. SpansPages(full)
    BY <1>1, <1>3 DEF IInv, SpansPages
  <1>7. RootCovers(full) /\ PathInvalid(full)
    BY <1>1, <1>2, <1>3, RootIsPageNode DEF IInv, RootCovers, PathInvalid
  <1> QED BY <1>4, <1>5, <1>6, <1>7 DEF IInv, full

\* MerkleProof validates a page, then whatever it merkleizes.
LEMMA ProofStep ==
    ASSUME NEW m, IInv(m), NEW leaf \in Leaf
    PROVE  IInv(MerkleProof(m, leaf))
  BY ValidateStep, MerkleizeStep DEF MerkleProof, ProofPage

\* A snapshot that is read back has the invariant.
LEMMA ReloadStep ==
    ASSUME NEW m, IInv(m)
    PROVE  IInv(Deserialize(Serialize(m)))
  <1> DEFINE r == Deserialize(Serialize(m))
  <1>1. DOMAIN Serialize(m) = DOMAIN m.pages
    BY DEF Serialize
  <1>2. /\ DOMAIN r = {"pages", "Children", "HashExists", "Hashes", "lastPageKeys"}
        /\ DOMAIN r.pages = DOMAIN m.pages
        /\ r.Hashes = EmptyFcn
        /\ r.lastPageKeys = <<NoKey, NoKey>>
    BY <1>1 DEF Deserialize
  <1>3. \A k \in DOMAIN m.pages :
            r.pages[k] = [NewPage EXCEPT !.Data = m.pages[k].Data]
    BY <1>1 DEF Deserialize, Serialize
  <1>4. SpansPages(r)
    <2>1. \A k \in DOMAIN m.pages : k \in PageKey
      BY DEF IInv, IsMemory
    <2>2. r.HashExists = UNION {{Prefix(k, d) : d \in 0..(PageKeySize - 1)} : k \in DOMAIN m.pages}
      BY <1>1, <2>1, PathNodes DEF Deserialize
    <2>3. r.Children = UNION {{Prefix(k, LevelDepths[i + 1]) : i \in Levels} : k \in DOMAIN m.pages}
      BY <1>1 DEF Deserialize
    <2> HIDE DEF r
    <2>4. r.HashExists = {Prefix(k, d) : k \in DOMAIN m.pages, d \in 0..(PageKeySize - 1)}
      BY <2>2
    <2>5. r.Children = {Prefix(k, LevelDepths[i + 1]) : k \in DOMAIN m.pages, i \in Levels}
      BY <2>3
    <2> QED BY <1>2, <2>4, <2>5 DEF SpansPages
  <1> HIDE DEF r
  <1>5. r.Children = m.Children /\ r.HashExists = m.HashExists
    BY <1>2, <1>4 DEF IInv, SpansPages
  <1>6. \A k \in DOMAIN m.pages : IsPage(r.pages[k]) /\ Root \notin DOMAIN r.pages[k].Cache
    <2> TAKE k \in DOMAIN m.pages
    <2>1. IsPage(m.pages[k])
      BY DEF IInv, IsMemory
    <2>2. /\ DOMAIN r.pages[k] = {"Data", "Cache"}
          /\ r.pages[k].Data = m.pages[k].Data
          /\ r.pages[k].Cache = EmptyFcn
      BY <1>3 DEF NewPage
    <2>3. DOMAIN r.pages[k].Cache = {}
      BY <2>2 DEF EmptyFcn
    <2> QED BY <2>1, <2>2, <2>3 DEF IsPage
  <1>7. r.lastPageKeys \in [1..2 -> PageKey \union {NoKey}]
    BY <1>2
  <1>8. DOMAIN r.Hashes = {}
    BY <1>2 DEF EmptyFcn
  <1>9. IsMemory(r)
    BY <1>2, <1>5, <1>6, <1>7, <1>8 DEF IInv, IsMemory
  <1>10. KeysAllocated(r)
    BY <1>2 DEF KeysAllocated
  <1>11. RootCovers(r) /\ PathInvalid(r)
    BY <1>2, <1>6, <1>8 DEF RootCovers, PathInvalid
  <1> QED BY <1>4, <1>9, <1>10, <1>11 DEF IInv, r

\* So has a fresh memory.
LEMMA NewMemoryIInv == IInv(NewMemory)
  <1>1. IsMemory(NewMemory) /\ KeysAllocated(NewMemory)
    BY DEF IsMemory, KeysAllocated, NewMemory, EmptyFcn
  <1>2. SpansPages(NewMemory)
    BY DEF SpansPages, NewMemory, EmptyFcn
  <1>3. RootCovers(NewMemory) /\ PathInvalid(NewMemory)
    BY DEF RootCovers, PathInvalid, NewMemory, EmptyFcn
  <1> QED BY <1>1, <1>2, <1>3 DEF IInv

(* Induction.                                                              *)

\* A set of natural numbers has a least element.
LEMMA LeastNat ==
    ASSUME NEW T, T \subseteq Nat, T # {}
    PROVE  \E x \in T : \A y \in T : x <= y
  <1> DEFINE R == OpToRel(<, Nat)
  <1>1. IsWellFoundedOn(R, Nat)
    BY NatLessThanWellFounded
  <1>2. PICK x \in T : \A y \in T : <<y, x>> \notin R
    <2> HIDE DEF R
    <2> QED BY <1>1, WFMin
  <1>3. R = {p \in Nat \X Nat : p[1] < p[2]}
    BY DEF OpToRel
  <1>4. \A y \in T : ~(y < x)
    BY <1>2, <1>3
  <1> HIDE DEF R
  <1>5. \A y \in T : x <= y
    BY <1>4
  <1> QED BY <1>5

\* Induction over the natural numbers up to a bound, for a set.
LEMMA NatInd ==
    ASSUME NEW T, NEW N \in Nat, 0 \in T, \A j \in 0..(N - 1) : j \in T => j + 1 \in T
    PROVE  0..N \subseteq T
  <1> DEFINE Bad == 0..N \ T
  <1>1. ASSUME Bad # {} PROVE FALSE
    <2>1. PICK j \in Bad : \A y \in Bad : j <= y
      <3>1. Bad \subseteq Nat
        OBVIOUS
      <3> HIDE DEF Bad
      <3> QED BY <1>1, <3>1, LeastNat
    <2>2. j \in 0..N /\ j # 0 /\ j \notin T
      OBVIOUS
    <2>3. j - 1 \in 0..(N - 1) /\ j - 1 \notin Bad
      BY <2>1, <2>2
    <2>4. j - 1 \in T /\ (j - 1) + 1 = j
      BY <2>3
    <2> QED BY <2>2, <2>3, <2>4
  <1> QED BY <1>1

-----------------------------------------------------------------------------
(* The nodes of a tree.                                                    *)

\* The nodes of a binary tree of depth D.
Nodes(D) == UNION {[1..d -> Bit] : d \in 0..D}

\* A node is a sequence of bits, no longer than the tree is deep.
LEMMA NodeLen ==
    ASSUME NEW D \in Nat, NEW n \in Nodes(D)
    PROVE  Len(n) \in 0..D /\ n \in [1..Len(n) -> Bit] /\ n \in Seq(Bit)
  <1>1. PICK d \in 0..D : n \in [1..d -> Bit]
    BY DEF Nodes
  <1>2. n \in Seq(Bit) /\ Len(n) = d
    BY <1>1
  <1> QED BY <1>1, <1>2

\* The two nodes below an inner node are nodes.
LEMMA ChildNode ==
    ASSUME NEW D \in Nat, NEW n \in Nodes(D), Len(n) < D, NEW b \in Bit
    PROVE  /\ Append(n, b) \in Nodes(D)
           /\ Len(Append(n, b)) = Len(n) + 1
           /\ \A i \in 1..Len(n) : Append(n, b)[i] = n[i]
           /\ Append(n, b)[Len(n) + 1] = b
  <1>1. Len(n) \in 0..D /\ n \in Seq(Bit)
    BY NodeLen
  <1>2. Append(n, b) \in Seq(Bit) /\ Len(Append(n, b)) = Len(n) + 1
    BY <1>1
  <1>3. Append(n, b) \in [1..(Len(n) + 1) -> Bit] /\ Len(n) + 1 \in 0..D
    <2> DEFINE a == Append(n, b)
    <2>1. a \in Seq(Bit) /\ Len(a) = Len(n) + 1
      BY <1>2
    <2> HIDE DEF a
    <2>2. a \in [1..Len(a) -> Bit]
      BY <2>1
    <2> QED BY <1>1, <2>1, <2>2 DEF a
  <1>4. Append(n, b) \in Nodes(D)
    BY <1>3 DEF Nodes
  <1>5. /\ \A i \in 1..Len(n) : Append(n, b)[i] = n[i]
        /\ Append(n, b)[Len(n) + 1] = b
    BY <1>1
  <1> QED BY <1>2, <1>4, <1>5

\* Zero and one are bits.
LEMMA BitsAreBits == 0 \in Bit /\ 1 \in Bit
  BY DEF Bit

\* Induction from the leaves of a tree to its root.
LEMMA TreeInd ==
    ASSUME NEW D \in Nat, NEW T,
           \A n \in Nodes(D) : Len(n) = D => n \in T,
           \A n \in Nodes(D) : Len(n) < D /\ Append(n, 0) \in T /\ Append(n, 1) \in T => n \in T
    PROVE  Nodes(D) \subseteq T
  <1> DEFINE S == {j \in 0..D : \A n \in Nodes(D) : Len(n) >= D - j => n \in T}
  <1>1. 0 \in S
    BY NodeLen
  <1>2. ASSUME NEW j \in 0..(D - 1), j \in S PROVE j + 1 \in S
    <2> SUFFICES ASSUME NEW n \in Nodes(D), Len(n) >= D - (j + 1) PROVE n \in T
      OBVIOUS
    <2>1. Len(n) \in 0..D
      BY NodeLen
    <2>2. CASE Len(n) >= D - j
      BY <1>2, <2>2
    <2>3. CASE Len(n) < D - j
      <3>1. Len(n) < D /\ Len(n) + 1 >= D - j
        BY <2>1, <2>3
      <3>2. /\ Append(n, 0) \in Nodes(D) /\ Len(Append(n, 0)) = Len(n) + 1
            /\ Append(n, 1) \in Nodes(D) /\ Len(Append(n, 1)) = Len(n) + 1
        BY <3>1, ChildNode, BitsAreBits
      <3>3. Append(n, 0) \in T /\ Append(n, 1) \in T
        BY <1>2, <3>1, <3>2
      <3> QED BY <3>1, <3>3
    <2> QED BY <2>1, <2>2, <2>3
  <1> HIDE DEF S
  <1>3. 0..D \subseteq S
    BY <1>1, <1>2, NatInd
  <1>4. D \in S
    BY <1>3
  <1> QED BY <1>4, NodeLen DEF S

\* f is computed from the leaves up: at the nodes of stop it is base, at any other
\* the pair of what it is at the two nodes below.
Folds(f, D, stop, base) ==
    /\ f = [n \in Nodes(D) |-> f[n]]
    /\ \A n \in Nodes(D) :
          f[n] = IF n \in stop THEN base[n] ELSE HashPair(f[Append(n, 0)], f[Append(n, 1)])

\* There is such a function, whenever the leaves are in stop.
LEMMA FoldExists ==
    ASSUME NEW D \in Nat, NEW stop, NEW base, \A n \in Nodes(D) : Len(n) = D => n \in stop
    PROVE  \E f : Folds(f, D, stop, base)
  <1> DEFINE Part(j) == {n \in Nodes(D) : Len(n) >= D - j}
             Good(f, j) == \A n \in Part(j) :
                f[n] = IF n \in stop THEN base[n] ELSE HashPair(f[Append(n, 0)], f[Append(n, 1)])
             S == {j \in 0..D : \E f : Good(f, j)}
  <1>1. 0 \in S
    <2> DEFINE f == [n \in Part(0) |-> base[n]]
    <2>1. Good(f, 0)
      <3> SUFFICES ASSUME NEW n \in Part(0)
                   PROVE  f[n] = base[n] /\ n \in stop
        OBVIOUS
      <3>1. Len(n) = D
        BY NodeLen
      <3> QED BY <3>1
    <2> HIDE DEF f, Good
    <2> QED BY <2>1
  <1>2. ASSUME NEW j \in 0..(D - 1), j \in S PROVE j + 1 \in S
    <2>1. PICK f : Good(f, j)
      BY <1>2
    <2> DEFINE g == [n \in Part(j + 1) |->
                        IF n \in Part(j) THEN f[n]
                        ELSE IF n \in stop THEN base[n]
                        ELSE HashPair(f[Append(n, 0)], f[Append(n, 1)])]
    <2>2. Good(g, j + 1)
      <3> SUFFICES ASSUME NEW n \in Part(j + 1)
                   PROVE  g[n] = IF n \in stop THEN base[n]
                                 ELSE HashPair(g[Append(n, 0)], g[Append(n, 1)])
        OBVIOUS
      <3>1. n \in Nodes(D) /\ Len(n) \in 0..D /\ Len(n) >= D - (j + 1)
        BY NodeLen
      <3>2. CASE n \in stop
        BY <2>1, <3>2
      <3>3. CASE n \notin stop
        <4>1. Len(n) < D
          BY <3>1, <3>3
        <4>2. /\ Append(n, 0) \in Nodes(D) /\ Len(Append(n, 0)) = Len(n) + 1
              /\ Append(n, 1) \in Nodes(D) /\ Len(Append(n, 1)) = Len(n) + 1
          BY <3>1, <4>1, ChildNode, BitsAreBits
        <4>3. Len(n) + 1 >= D - j /\ Len(n) + 1 >= D - (j + 1)
          BY <3>1
        <4>4. Append(n, 0) \in Part(j) /\ Append(n, 1) \in Part(j)
                /\ Append(n, 0) \in Part(j + 1) /\ Append(n, 1) \in Part(j + 1)
          BY <4>2, <4>3
        <4> HIDE DEF Part
        <4>5. g[Append(n, 0)] = f[Append(n, 0)] /\ g[Append(n, 1)] = f[Append(n, 1)]
          BY <4>4
        <4>6. CASE n \in Part(j)
          BY <2>1, <3>3, <4>5, <4>6
        <4>7. CASE n \notin Part(j)
          BY <3>3, <4>5, <4>7
        <4> QED BY <4>6, <4>7
      <3> QED BY <3>2, <3>3
    <2> HIDE DEF g, Good
    <2> QED BY <2>2
  <1>3. D \in S
    <2> HIDE DEF S
    <2>1. 0..D \subseteq S
      BY <1>1, <1>2, NatInd
    <2> QED BY <2>1
  <1>4. PICK f : Good(f, D)
    BY <1>3
  <1>5. Part(D) = Nodes(D)
    BY NodeLen
  <1> DEFINE h == [n \in Nodes(D) |-> f[n]]
  <1>6. ASSUME NEW n \in Nodes(D)
        PROVE  h[n] = IF n \in stop THEN base[n] ELSE HashPair(h[Append(n, 0)], h[Append(n, 1)])
    <2>1. f[n] = IF n \in stop THEN base[n] ELSE HashPair(f[Append(n, 0)], f[Append(n, 1)])
      <3> HIDE DEF Part
      <3> QED BY <1>4, <1>5
    <2>2. CASE n \in stop
      BY <2>1, <2>2
    <2>3. CASE n \notin stop
      <3>1. Append(n, 0) \in Nodes(D) /\ Append(n, 1) \in Nodes(D)
        BY <2>3, NodeLen, ChildNode, BitsAreBits
      <3> QED BY <2>1, <2>3, <3>1
    <2> QED BY <2>2, <2>3
  <1>7. h = [n \in Nodes(D) |-> h[n]]
    OBVIOUS
  <1> HIDE DEF h
  <1>8. Folds(h, D, stop, base)
    BY <1>6, <1>7 DEF Folds
  <1> QED BY <1>8

\* Two functions computed from the leaves up agree where what they are computed
\* from agrees on a set of nodes that is closed downwards.
LEMMA FoldAgree ==
    ASSUME NEW D \in Nat, NEW f, NEW g, NEW stop, NEW base, NEW halt, NEW root,
           Folds(f, D, stop, base), Folds(g, D, halt, root),
           \A n \in Nodes(D) : Len(n) = D => n \in stop,
           NEW part,
           \A n \in part \intersect Nodes(D) :
              \/ n \in stop /\ n \in halt /\ base[n] = root[n]
              \/ /\ n \notin stop /\ n \notin halt
                 /\ Append(n, 0) \in part /\ Append(n, 1) \in part
    PROVE  \A n \in part \intersect Nodes(D) : f[n] = g[n]
  <1> DEFINE T == {n \in Nodes(D) : n \in part => f[n] = g[n]}
  <1>1. ASSUME NEW n \in Nodes(D), Len(n) = D PROVE n \in T
    BY <1>1 DEF Folds
  <1>2. ASSUME NEW n \in Nodes(D), Len(n) < D, Append(n, 0) \in T, Append(n, 1) \in T
        PROVE  n \in T
    BY <1>2 DEF Folds
  <1> HIDE DEF T
  <1>3. Nodes(D) \subseteq T
    BY <1>1, <1>2, TreeInd
  <1> QED BY <1>3 DEF T

-----------------------------------------------------------------------------
(* What the recursive definitions of Memory compute.                       *)

\* The nodes of a page are those of a tree of its depth.
LEMMA PageNodes ==
    /\ PageNode \union LeafInPage = Nodes(PageDepth)
    /\ \A g \in Nodes(PageDepth) : g \in LeafInPage <=> Len(g) = PageDepth
    /\ \A g \in Nodes(PageDepth) : g \in PageNode <=> Len(g) < PageDepth
  <1>1. PageDepth \in Nat
    BY PageAssumption
  <1>2. PageNode \union LeafInPage = Nodes(PageDepth)
    <2>1. 0..PageDepth = 0..(PageDepth - 1) \union {PageDepth}
      BY <1>1
    <2> QED BY <2>1 DEF PageNode, LeafInPage, Nodes
  <1>3. ASSUME NEW g \in Nodes(PageDepth)
        PROVE  (g \in LeafInPage <=> Len(g) = PageDepth) /\ (g \in PageNode <=> Len(g) < PageDepth)
    <2>1. Len(g) \in 0..PageDepth /\ g \in [1..Len(g) -> Bit]
      BY <1>1, NodeLen
    <2>2. ASSUME g \in LeafInPage PROVE Len(g) = PageDepth
      BY <1>1, <2>2 DEF LeafInPage
    <2>3. ASSUME g \in PageNode PROVE Len(g) < PageDepth
      <3>1. PICK d \in 0..(PageDepth - 1) : g \in [1..d -> Bit]
        BY <2>3 DEF PageNode
      <3>2. Len(g) = d
        BY <3>1
      <3> QED BY <1>1, <3>2
    <2>4. ASSUME Len(g) = PageDepth PROVE g \in LeafInPage
      BY <2>1, <2>4 DEF LeafInPage
    <2>5. ASSUME Len(g) < PageDepth PROVE g \in PageNode
      <3>1. Len(g) \in 0..(PageDepth - 1)
        BY <1>1, <2>1, <2>5
      <3> QED BY <2>1, <3>1 DEF PageNode
    <2> QED BY <2>2, <2>3, <2>4, <2>5
  <1> QED BY <1>2, <1>3

\* The nodes of the trie are those of a tree as deep as page keys are long.
LEMMA TrieNodes ==
    /\ RadixNode \union PageKey = Nodes(PageKeySize)
    /\ \A n \in Nodes(PageKeySize) : n \in PageKey <=> Len(n) = PageKeySize
    /\ \A n \in Nodes(PageKeySize) : n \in RadixNode <=> Len(n) < PageKeySize
  <1>1. PageKeySize \in Nat
    BY Sizes
  <1>2. RadixNode \union PageKey = Nodes(PageKeySize)
    <2>1. 0..PageKeySize = 0..(PageKeySize - 1) \union {PageKeySize}
      BY <1>1
    <2> QED BY <2>1 DEF RadixNode, PageKey, Nodes
  <1>3. ASSUME NEW n \in Nodes(PageKeySize)
        PROVE  /\ n \in PageKey <=> Len(n) = PageKeySize
               /\ n \in RadixNode <=> Len(n) < PageKeySize
    <2>1. Len(n) \in 0..PageKeySize /\ n \in [1..Len(n) -> Bit]
      BY <1>1, NodeLen
    <2>2. ASSUME n \in PageKey PROVE Len(n) = PageKeySize
      BY <1>1, <2>2 DEF PageKey
    <2>3. ASSUME n \in RadixNode PROVE Len(n) < PageKeySize
      <3>1. PICK d \in 0..(PageKeySize - 1) : n \in [1..d -> Bit]
        BY <2>3 DEF RadixNode
      <3>2. Len(n) = d
        BY <3>1
      <3> QED BY <1>1, <3>2
    <2>4. ASSUME Len(n) = PageKeySize PROVE n \in PageKey
      BY <2>1, <2>4 DEF PageKey
    <2>5. ASSUME Len(n) < PageKeySize PROVE n \in RadixNode
      <3>1. Len(n) \in 0..(PageKeySize - 1)
        BY <1>1, <2>1, <2>5
      <3> QED BY <2>1, <3>1 DEF RadixNode
    <2> QED BY <2>2, <2>3, <2>4, <2>5
  <1> QED BY <1>2, <1>3

\* Where PageHash does not look below a node, and what it finds there.
PageStop(p) == LeafInPage \union (DOMAIN p.Cache)
PageBase(p) == [g \in Nodes(PageDepth) |-> IF g \in LeafInPage THEN p.Data[g] ELSE p.Cache[g]]

\* PageHash is computed from the leaves up.
LEMMA PageHashFolds ==
    ASSUME NEW p PROVE Folds(PageHash(p), PageDepth, PageStop(p), PageBase(p))
  <1> DEFINE D == PageDepth
  <1>1. D \in Nat /\ \A g \in Nodes(D) : Len(g) = D => g \in PageStop(p)
    BY PageAssumption, PageNodes DEF PageStop
  <1>2. PICK f : Folds(f, D, PageStop(p), PageBase(p))
    BY <1>1, FoldExists
  <1>3. ASSUME NEW g \in Nodes(D)
        PROVE  f[g] = IF g \in LeafInPage THEN p.Data[g]
                      ELSE IF g \in DOMAIN p.Cache THEN p.Cache[g]
                      ELSE HashPair(f[Append(g, 0)], f[Append(g, 1)])
    <2>1. f[g] = IF g \in PageStop(p) THEN PageBase(p)[g]
                 ELSE HashPair(f[Append(g, 0)], f[Append(g, 1)])
      BY <1>2 DEF Folds
    <2> QED BY <2>1 DEF PageStop, PageBase
  <1>4. f = [g \in Nodes(D) |-> f[g]]
    BY <1>2 DEF Folds
  <1>5. f = [g \in Nodes(D) |-> IF g \in LeafInPage THEN p.Data[g]
                                ELSE IF g \in DOMAIN p.Cache THEN p.Cache[g]
                                ELSE HashPair(f[Append(g, 0)], f[Append(g, 1)])]
    BY <1>3, <1>4
  <1>6. PageNode \union LeafInPage = Nodes(D)
    BY PageNodes
  <1>7. PageHash(p) = [g \in Nodes(D) |-> IF g \in LeafInPage THEN p.Data[g]
                          ELSE IF g \in DOMAIN p.Cache THEN p.Cache[g]
                          ELSE HashPair(PageHash(p)[Append(g, 0)], PageHash(p)[Append(g, 1)])]
    BY <1>5, <1>6 DEF PageHash
  <1> DEFINE h == PageHash(p)
  <1> HIDE DEF h
  <1>8. h = [g \in Nodes(D) |-> IF g \in LeafInPage THEN p.Data[g]
                          ELSE IF g \in DOMAIN p.Cache THEN p.Cache[g]
                          ELSE HashPair(h[Append(g, 0)], h[Append(g, 1)])]
    BY <1>7 DEF h
  <1>9. h = [g \in Nodes(D) |-> h[g]]
    BY <1>8
  <1>10. ASSUME NEW g \in Nodes(D)
         PROVE  h[g] = IF g \in PageStop(p) THEN PageBase(p)[g]
                       ELSE HashPair(h[Append(g, 0)], h[Append(g, 1)])
    <2>1. h[g] = IF g \in LeafInPage THEN p.Data[g]
                 ELSE IF g \in DOMAIN p.Cache THEN p.Cache[g]
                 ELSE HashPair(h[Append(g, 0)], h[Append(g, 1)])
      BY <1>8
    <2> QED BY <2>1 DEF PageStop, PageBase
  <1>11. Folds(h, D, PageStop(p), PageBase(p))
    BY <1>9, <1>10 DEF Folds
  <1> QED BY <1>11 DEF h

\* Where MerkleizeNode does not look below a node, and what it finds there.
TrieStop(m) ==
    {n \in Nodes(PageKeySize) :
        ~Linked(m, n) \/ n \in PageKey \/ n \notin m.HashExists \/ n \in DOMAIN m.Hashes}
TrieBase(m) ==
    [n \in Nodes(PageKeySize) |->
        IF ~Linked(m, n) THEN zeroHashes[AddrSize - Len(n)]
        ELSE IF n \in PageKey
             THEN IF n \in DOMAIN m.pages THEN PageHash(m.pages[n])[Root]
                                          ELSE zeroHashes[AddrSize - Len(n)]
        ELSE IF n \notin m.HashExists THEN zeroHashes[AddrSize - Len(n)]
        ELSE m.Hashes[n]]

\* MerkleizeNode is computed from the pages up.
LEMMA TrieHashFolds ==
    ASSUME NEW m PROVE Folds(MerkleizeNode(m), PageKeySize, TrieStop(m), TrieBase(m))
  <1> DEFINE D == PageKeySize
             zero(n) == zeroHashes[AddrSize - Len(n)]
  <1>1. D \in Nat /\ \A n \in Nodes(D) : Len(n) = D => n \in TrieStop(m)
    BY Sizes, TrieNodes DEF TrieStop
  <1>2. PICK f : Folds(f, D, TrieStop(m), TrieBase(m))
    BY <1>1, FoldExists
  <1>3. ASSUME NEW n \in Nodes(D)
        PROVE  f[n] = IF ~Linked(m, n) THEN zero(n)
                      ELSE IF n \in PageKey
                           THEN IF n \in DOMAIN m.pages THEN PageHash(m.pages[n])[Root] ELSE zero(n)
                      ELSE IF n \notin m.HashExists THEN zero(n)
                      ELSE IF n \in DOMAIN m.Hashes THEN m.Hashes[n]
                      ELSE HashPair(f[Append(n, 0)], f[Append(n, 1)])
    <2>1. f[n] = IF n \in TrieStop(m) THEN TrieBase(m)[n]
                 ELSE HashPair(f[Append(n, 0)], f[Append(n, 1)])
      BY <1>2 DEF Folds
    <2> QED BY <2>1 DEF TrieStop, TrieBase
  <1>4. f = [n \in Nodes(D) |-> f[n]]
    BY <1>2 DEF Folds
  <1>5. f = [n \in Nodes(D) |->
               IF ~Linked(m, n) THEN zero(n)
               ELSE IF n \in PageKey
                    THEN IF n \in DOMAIN m.pages THEN PageHash(m.pages[n])[Root] ELSE zero(n)
               ELSE IF n \notin m.HashExists THEN zero(n)
               ELSE IF n \in DOMAIN m.Hashes THEN m.Hashes[n]
               ELSE HashPair(f[Append(n, 0)], f[Append(n, 1)])]
    BY <1>3, <1>4
  <1>6. RadixNode \union PageKey = Nodes(D)
    BY TrieNodes
  <1> DEFINE h == MerkleizeNode(m)
  <1>7. h = [n \in Nodes(D) |->
               IF ~Linked(m, n) THEN zero(n)
               ELSE IF n \in PageKey
                    THEN IF n \in DOMAIN m.pages THEN PageHash(m.pages[n])[Root] ELSE zero(n)
               ELSE IF n \notin m.HashExists THEN zero(n)
               ELSE IF n \in DOMAIN m.Hashes THEN m.Hashes[n]
               ELSE HashPair(h[Append(n, 0)], h[Append(n, 1)])]
    BY <1>5, <1>6 DEF MerkleizeNode
  <1> HIDE DEF h
  <1>8. h = [n \in Nodes(D) |-> h[n]]
    BY <1>7
  <1>9. ASSUME NEW n \in Nodes(D)
        PROVE  h[n] = IF n \in TrieStop(m) THEN TrieBase(m)[n]
                      ELSE HashPair(h[Append(n, 0)], h[Append(n, 1)])
    <2>1. h[n] = IF ~Linked(m, n) THEN zero(n)
                 ELSE IF n \in PageKey
                      THEN IF n \in DOMAIN m.pages THEN PageHash(m.pages[n])[Root] ELSE zero(n)
                 ELSE IF n \notin m.HashExists THEN zero(n)
                 ELSE IF n \in DOMAIN m.Hashes THEN m.Hashes[n]
                 ELSE HashPair(h[Append(n, 0)], h[Append(n, 1)])
      BY <1>7
    <2> QED BY <2>1 DEF TrieStop, TrieBase
  <1>10. Folds(h, D, TrieStop(m), TrieBase(m))
    BY <1>8, <1>9 DEF Folds
  <1> QED BY <1>10 DEF h

-----------------------------------------------------------------------------
(* What each method does to the fields of a memory.                        *)

\* pageLookup changes the lookup cache only.
LEMMA LookupParts ==
    ASSUME NEW m, IsMemory(m), NEW key
    PROVE  /\ pageLookup(m, key).pages = m.pages
           /\ pageLookup(m, key).Children = m.Children
           /\ pageLookup(m, key).HashExists = m.HashExists
           /\ pageLookup(m, key).Hashes = m.Hashes
  BY DEF pageLookup, IsMemory

\* AllocPage links an empty page and clears what is above it.
LEMMA AllocParts ==
    ASSUME NEW m, IsMemory(m), NEW key \in PageKey
    PROVE  LET r    == AllocPage(m, key)
               path == {Prefix(key, d) : d \in 0..(PageKeySize - 1)}
           IN  /\ r.pages = [k \in DOMAIN m.pages \union {key} |->
                                IF k = key THEN NewPage ELSE m.pages[k]]
               /\ r.Children = m.Children \union {Prefix(key, LevelDepths[i + 1]) : i \in Levels}
               /\ r.HashExists = m.HashExists \union path
               /\ r.Hashes = Restrict(m.Hashes, DOMAIN m.Hashes \ path)
  BY PathNodes DEF AllocPage, InvalidateNode, IsMemory

\* The page of a leaf whose slots above it are invalid.
LEMMA PageInvalidateParts ==
    ASSUME NEW p, IsPage(p), NEW inPage
    PROVE  LET q == PageInvalidate(p, inPage)
           IN  /\ q.Data = p.Data
               /\ DOMAIN q.Cache = DOMAIN p.Cache \ {Prefix(inPage, d) : d \in 0..(PageDepth - 1)}
               /\ \A g \in DOMAIN q.Cache : q.Cache[g] = p.Cache[g]
  <1> DEFINE q == PageInvalidate(p, inPage)
             S == DOMAIN p.Cache \ {Prefix(inPage, d) : d \in 0..(PageDepth - 1)}
  <1>1. q.Data = p.Data /\ q.Cache = Restrict(p.Cache, S)
    BY DEF PageInvalidate, IsPage
  <1> HIDE DEF q, S
  <1>2. DOMAIN q.Cache = S /\ \A g \in S : q.Cache[g] = p.Cache[g]
    BY <1>1 DEF Restrict
  <1> QED BY <1>1, <1>2 DEF q, S

\* Memory.Invalidate leaves the contents, the other pages and the hashes that are
\* not above the page; none above it is valid when it returns.
LEMMA InvalidateParts ==
    ASSUME NEW m, IInv(m), NEW leaf \in Leaf, PageOf(leaf) \in DOMAIN m.pages
    PROVE  LET r    == Invalidate(m, leaf)
               key  == PageOf(leaf)
               path == {Prefix(key, d) : d \in 0..(PageKeySize - 1)}
           IN  /\ r.Children = m.Children
               /\ r.HashExists = m.HashExists
               /\ DOMAIN r.Hashes = DOMAIN m.Hashes \ path
               /\ \A n \in DOMAIN r.Hashes : r.Hashes[n] = m.Hashes[n]
               /\ DOMAIN r.pages = DOMAIN m.pages
               /\ \A k \in DOMAIN m.pages : k # key => r.pages[k] = m.pages[k]
               /\ r.pages[key] = IF Root \in DOMAIN m.pages[key].Cache
                                 THEN PageInvalidate(m.pages[key], InPage(leaf))
                                 ELSE m.pages[key]
  <1> DEFINE key    == PageOf(leaf)
             looked == pageLookup(m, key)
             path   == {Prefix(key, d) : d \in 0..(PageKeySize - 1)}
             r      == Invalidate(m, leaf)
  <1>1. key \in PageKey
    BY LeafParts
  <1>2. pageExists(m, key) /\ IInv(looked)
    BY <1>1, LookupStep
  <1>3. /\ looked.pages = m.pages /\ looked.Children = m.Children
        /\ looked.HashExists = m.HashExists /\ looked.Hashes = m.Hashes
    BY LookupParts DEF IInv
  <1>4. CASE Root \notin DOMAIN m.pages[key].Cache
    <2>1. r = looked
      BY <1>2, <1>4 DEF Invalidate
    <2>2. DOMAIN m.Hashes \ path = DOMAIN m.Hashes
      BY <1>4 DEF IInv, PathInvalid
    <2> HIDE DEF looked, r, key, path
    <2>3. /\ r.Children = m.Children /\ r.HashExists = m.HashExists
          /\ r.Hashes = m.Hashes /\ r.pages = m.pages
      BY <1>3, <2>1
    <2> QED BY <1>4, <2>2, <2>3 DEF r, key, path
  <1>5. CASE Root \in DOMAIN m.pages[key].Cache
    <2> DEFINE page == PageInvalidate(m.pages[key], InPage(leaf))
               set  == SetPage(looked, key, page)
    <2>1. ReachedLevels(m, key) = Levels
      BY ReachesAllocated
    <2>2. r = InvalidateNode(set, key, Levels)
      BY <1>2, <1>5, <2>1 DEF Invalidate
    <2>3. IsMemory(looked)
      BY <1>2 DEF IInv
    <2> HIDE DEF page, looked
    <2>4. /\ DOMAIN set = DOMAIN looked
          /\ set.pages = [k \in DOMAIN m.pages |-> IF k = key THEN page ELSE m.pages[k]]
          /\ set.Children = m.Children /\ set.HashExists = m.HashExists
          /\ set.Hashes = m.Hashes
      BY <1>3, <2>3, SetPageParts
    <2> HIDE DEF set
    <2>5. /\ r.pages = set.pages /\ r.Children = set.Children
          /\ r.HashExists = set.HashExists \union path
          /\ r.Hashes = Restrict(set.Hashes, DOMAIN set.Hashes \ path)
      <3>1. UNION {LevelPath(key, i) : i \in Levels} = path
        BY <1>1, PathNodes
      <3> HIDE DEF path, key, r
      <3> QED BY <2>2, <2>3, <2>4, <3>1 DEF InvalidateNode, IsMemory
    <2>6. path \subseteq m.HashExists
      BY DEF IInv, SpansPages
    <2> HIDE DEF r, key, path
    <2>7. r.Hashes = Restrict(m.Hashes, DOMAIN m.Hashes \ path)
      BY <2>4, <2>5
    <2>8. DOMAIN r.Hashes = DOMAIN m.Hashes \ path
            /\ \A n \in DOMAIN r.Hashes : r.Hashes[n] = m.Hashes[n]
      BY <2>7 DEF Restrict
    <2>9. /\ r.Children = m.Children /\ r.HashExists = m.HashExists
          /\ r.pages = [k \in DOMAIN m.pages |-> IF k = key THEN page ELSE m.pages[k]]
      BY <2>4, <2>5, <2>6
    <2>10. key \in DOMAIN m.pages
      BY DEF key
    <2> QED BY <1>5, <2>8, <2>9, <2>10 DEF r, key, path, page
  <1> QED BY <1>4, <1>5

\* The bytes of a leaf after dat[from..to] has been copied in at `byte'.
Copied(old, byte, dat, from, to) ==
    [b \in 0..(LeafBytes - 1) |->
        IF b >= byte /\ b <= byte + to - from THEN dat[from + b - byte] ELSE old[b]]

\* The copy changes one leaf of one page.
LEMMA CopyParts ==
    ASSUME NEW m, IInv(m), NEW leaf \in Leaf, PageOf(leaf) \in DOMAIN m.pages,
           NEW byte, NEW dat, NEW from, NEW to
    PROVE  LET r   == CopyIn(m, leaf, byte, dat, from, to)
               key == PageOf(leaf)
           IN  /\ r.Children = m.Children /\ r.HashExists = m.HashExists
               /\ r.Hashes = m.Hashes
               /\ DOMAIN r.pages = DOMAIN m.pages
               /\ \A k \in DOMAIN m.pages : k # key => r.pages[k] = m.pages[k]
               /\ r.pages[key].Cache = m.pages[key].Cache
               /\ \A l \in LeafInPage :
                     r.pages[key].Data[l] =
                        IF l = InPage(leaf)
                        THEN Copied(m.pages[key].Data[l], byte, dat, from, to)
                        ELSE m.pages[key].Data[l]
  <1> DEFINE key  == PageOf(leaf)
             new  == Copied(m.pages[key].Data[InPage(leaf)], byte, dat, from, to)
             data == [l \in LeafInPage |-> IF l = InPage(leaf) THEN new
                                                               ELSE m.pages[key].Data[l]]
             page == [m.pages[key] EXCEPT !.Data = data]
             r    == CopyIn(m, leaf, byte, dat, from, to)
  <1>1. r = SetPage(m, key, page)
    BY DEF CopyIn, Copied
  <1>2. IsPage(m.pages[key])
    BY DEF IInv, IsMemory
  <1> HIDE DEF new, r
  <1>3. page.Data = data /\ page.Cache = m.pages[key].Cache
    BY <1>2 DEF IsPage
  <1> HIDE DEF page, key
  <1>4. /\ r.pages = [k \in DOMAIN m.pages |-> IF k = key THEN page ELSE m.pages[k]]
        /\ r.Children = m.Children /\ r.HashExists = m.HashExists /\ r.Hashes = m.Hashes
    BY <1>1, SetPageParts DEF IInv
  <1>5. key \in DOMAIN m.pages
    BY DEF key
  <1>6. r.pages[key] = page
    BY <1>4, <1>5
  <1>7. ASSUME NEW l \in LeafInPage
        PROVE  page.Data[l] = IF l = InPage(leaf)
                              THEN Copied(m.pages[key].Data[l], byte, dat, from, to)
                              ELSE m.pages[key].Data[l]
    BY <1>3 DEF new
  <1> QED BY <1>3, <1>4, <1>6, <1>7 DEF r, key

-----------------------------------------------------------------------------
(* Nodes off the path to a page.                                           *)

\* The nodes that are not above a page, nor the page itself.
OffPath(key) == {n \in Nodes(PageKeySize) : n # Prefix(key, Len(n))}

\* Two memories that differ in the page of a key and in the nodes above it only.
AgreeOff(m, r, key) ==
    \A n \in OffPath(key) :
        /\ n \in m.Children <=> n \in r.Children
        /\ n \in m.HashExists <=> n \in r.HashExists
        /\ n \in DOMAIN m.Hashes <=> n \in DOMAIN r.Hashes
        /\ n \in DOMAIN m.Hashes => r.Hashes[n] = m.Hashes[n]
        /\ n \in DOMAIN m.pages <=> n \in DOMAIN r.pages
        /\ n \in DOMAIN m.pages => r.pages[n] = m.pages[n]

\* Nothing above a page is valid.
PathClear(m, key) == \A d \in 0..(PageKeySize - 1) : Prefix(key, d) \notin DOMAIN m.Hashes

\* What is below a node off the path is off the path.
LEMMA BelowOffPath ==
    ASSUME NEW key \in PageKey, NEW n \in OffPath(key), Len(n) < PageKeySize, NEW b \in Bit
    PROVE  Append(n, b) \in OffPath(key)
  <1>1. n \in Nodes(PageKeySize) /\ PageKeySize \in Nat
    BY Sizes DEF OffPath
  <1>2. Len(n) \in 0..PageKeySize /\ n \in [1..Len(n) -> Bit]
    BY <1>1, NodeLen
  <1>3. /\ Append(n, b) \in Nodes(PageKeySize)
        /\ Len(Append(n, b)) = Len(n) + 1
        /\ \A i \in 1..Len(n) : Append(n, b)[i] = n[i]
    BY <1>1, ChildNode
  <1>4. ASSUME Append(n, b) = Prefix(key, Len(n) + 1)
        PROVE  n = Prefix(key, Len(n))
    <2>1. ASSUME NEW i \in 1..Len(n) PROVE n[i] = key[i]
      <3>1. i \in 1..(Len(n) + 1)
        BY <1>2
      <3>2. Prefix(key, Len(n) + 1)[i] = key[i]
        BY <3>1 DEF Prefix
      <3> QED BY <1>3, <1>4, <3>2
    <2>2. n = [i \in 1..Len(n) |-> n[i]]
      BY <1>2
    <2> QED BY <2>1, <2>2 DEF Prefix
  <1> QED BY <1>3, <1>4 DEF OffPath

LEMMA KeyOffPath ==
    ASSUME NEW key \in PageKey, NEW k \in PageKey, k # key
    PROVE  k \in OffPath(key)
  <1>1. k \in Nodes(PageKeySize)
    BY TrieNodes
  <1>2. Len(k) = PageKeySize
    BY <1>1, TrieNodes
  <1> QED BY <1>1, <1>2, PrefixNode DEF OffPath

\* Off the path to a page, the page and the path do not matter to MerkleizeNode.
LEMMA OffPathHash ==
    ASSUME NEW m, NEW r, NEW key \in PageKey, AgreeOff(m, r, key)
    PROVE  \A n \in OffPath(key) : MerkleizeNode(r)[n] = MerkleizeNode(m)[n]
  <1> DEFINE D == PageKeySize
             f == MerkleizeNode(m)
             g == MerkleizeNode(r)
  <1>1. D \in Nat /\ Folds(f, D, TrieStop(m), TrieBase(m)) /\ Folds(g, D, TrieStop(r), TrieBase(r))
    BY Sizes, TrieHashFolds
  <1>2. \A n \in Nodes(D) : Len(n) = D => n \in TrieStop(m)
    BY TrieNodes DEF TrieStop
  <1>3. ASSUME NEW n \in OffPath(key) \intersect Nodes(D)
        PROVE  \/ n \in TrieStop(m) /\ n \in TrieStop(r) /\ TrieBase(m)[n] = TrieBase(r)[n]
               \/ /\ n \notin TrieStop(m) /\ n \notin TrieStop(r)
                  /\ Append(n, 0) \in OffPath(key) /\ Append(n, 1) \in OffPath(key)
    <2>1. Linked(m, n) <=> Linked(r, n)
      BY DEF AgreeOff, Linked
    <2>2. n \in TrieStop(m) <=> n \in TrieStop(r)
      BY <2>1 DEF AgreeOff, TrieStop
    <2>3. n \in TrieStop(m) => TrieBase(m)[n] = TrieBase(r)[n]
      <3>1. CASE ~Linked(m, n)
        BY <2>1, <3>1 DEF TrieBase
      <3>2. CASE Linked(m, n) /\ n \in PageKey
        BY <2>1, <3>2 DEF TrieBase, AgreeOff
      <3>3. CASE Linked(m, n) /\ n \notin PageKey
        BY <2>1, <3>3 DEF TrieBase, TrieStop, AgreeOff
      <3> QED BY <3>1, <3>2, <3>3
    <2>4. n \notin TrieStop(m) => Append(n, 0) \in OffPath(key) /\ Append(n, 1) \in OffPath(key)
      <3> SUFFICES ASSUME n \notin TrieStop(m)
                   PROVE  Append(n, 0) \in OffPath(key) /\ Append(n, 1) \in OffPath(key)
        OBVIOUS
      <3>1. Len(n) < D
        BY <1>1, <1>2, NodeLen
      <3> QED BY <3>1, BelowOffPath, BitsAreBits
    <2> QED BY <2>2, <2>3, <2>4
  <1> HIDE DEF f, g, D
  <1>4. \A n \in OffPath(key) \intersect Nodes(D) : f[n] = g[n]
    BY <1>1, <1>2, <1>3, FoldAgree
  <1> QED BY <1>4 DEF f, g, D, OffPath

\* Every valid hash of the trie is that of the two nodes below it.
Coherent(m) ==
    LET hash == MerkleizeNode(m)
    IN  \A n \in DOMAIN m.Hashes :
            m.Hashes[n] = HashPair(hash[Append(n, 0)], hash[Append(n, 1)])

\* A change of one page that clears the path above it keeps the others coherent.
LEMMA OffPathCoherent ==
    ASSUME NEW m, NEW r, NEW key \in PageKey, AgreeOff(m, r, key), PathClear(r, key),
           DOMAIN r.Hashes \subseteq RadixNode, Coherent(m)
    PROVE  Coherent(r)
  <1> DEFINE f == MerkleizeNode(m)
             g == MerkleizeNode(r)
  <1> SUFFICES ASSUME NEW n \in DOMAIN r.Hashes
               PROVE  r.Hashes[n] = HashPair(g[Append(n, 0)], g[Append(n, 1)])
    BY DEF Coherent
  <1>1. n \in Nodes(PageKeySize) /\ Len(n) < PageKeySize
    BY TrieNodes
  <1>2. n \in OffPath(key)
    <2>1. Len(n) \in 0..(PageKeySize - 1)
      BY <1>1, NodeLen, Sizes
    <2> QED BY <1>1, <2>1 DEF OffPath, PathClear
  <1>3. n \in DOMAIN m.Hashes /\ r.Hashes[n] = m.Hashes[n]
    BY <1>2 DEF AgreeOff
  <1>4. Append(n, 0) \in OffPath(key) /\ Append(n, 1) \in OffPath(key)
    BY <1>1, <1>2, BelowOffPath, BitsAreBits
  <1>5. g[Append(n, 0)] = f[Append(n, 0)] /\ g[Append(n, 1)] = f[Append(n, 1)]
    BY <1>4, OffPathHash
  <1>6. m.Hashes[n] = HashPair(f[Append(n, 0)], f[Append(n, 1)])
    BY <1>3 DEF Coherent
  <1> QED BY <1>3, <1>5, <1>6

-----------------------------------------------------------------------------
(* Writes.                                                                 *)

\* The page and the in-page position together determine a leaf.
LEMMA LeafSplit ==
    ASSUME NEW l1 \in Leaf, NEW l2 \in Leaf, PageOf(l1) = PageOf(l2), InPage(l1) = InPage(l2)
    PROVE  l1 = l2
  <1>1. ASSUME NEW i \in 1..AddrSize PROVE l1[i] = l2[i]
    <2>1. CASE i <= PageKeySize
      <3>1. i \in 1..PageKeySize
        BY <2>1, Sizes
      <3>2. PageOf(l1)[i] = l1[i] /\ PageOf(l2)[i] = l2[i]
        BY <3>1 DEF PageOf, Prefix
      <3> QED BY <3>2
    <2>2. CASE i > PageKeySize
      <3> DEFINE j == i - PageKeySize
      <3>1. j \in 1..PageDepth /\ PageKeySize + j = i
        BY <2>2, Sizes, PageAssumption DEF AddrSize
      <3> HIDE DEF j
      <3>2. InPage(l1)[j] = l1[PageKeySize + j] /\ InPage(l2)[j] = l2[PageKeySize + j]
        BY <3>1 DEF InPage
      <3> QED BY <3>1, <3>2
    <2> QED BY <2>1, <2>2, Sizes
  <1>2. /\ l1 = [i \in 1..AddrSize |-> l1[i]]
        /\ l2 = [i \in 1..AddrSize |-> l2[i]]
    BY DEF Leaf
  <1> QED BY <1>1, <1>2

\* Before a write the page of its leaf is there, the contents are the same and
\* nothing above the page is valid.
LEMMA PrepareParts ==
    ASSUME NEW m, IInv(m), NEW leaf \in Leaf
    PROVE  LET r   == PrepareWrite(m, leaf)
               key == PageOf(leaf)
           IN  /\ AgreeOff(m, r, key)
               /\ PathClear(r, key)
               /\ Contents(r) = Contents(m)
  <1> DEFINE key  == PageOf(leaf)
             path == {Prefix(key, d) : d \in 0..(PageKeySize - 1)}
  <1>1. key \in PageKey
    BY LeafParts
  <1>2. CASE key \in DOMAIN m.pages
    <2> DEFINE a == pageLookup(m, key)
               r == Invalidate(a, leaf)
    <2>1. PrepareWrite(m, leaf) = r
      BY <1>1, <1>2, LookupStep DEF PrepareWrite
    <2>2. IInv(a)
      BY <1>1, LookupStep
    <2>3. /\ a.pages = m.pages /\ a.Children = m.Children
          /\ a.HashExists = m.HashExists /\ a.Hashes = m.Hashes
      BY LookupParts DEF IInv
    <2> HIDE DEF a
    <2>4. /\ r.Children = m.Children
          /\ r.HashExists = m.HashExists
          /\ DOMAIN r.Hashes = DOMAIN m.Hashes \ path
          /\ \A n \in DOMAIN r.Hashes : r.Hashes[n] = m.Hashes[n]
          /\ DOMAIN r.pages = DOMAIN m.pages
          /\ \A k \in DOMAIN m.pages : k # key => r.pages[k] = m.pages[k]
          /\ r.pages[key] = IF Root \in DOMAIN m.pages[key].Cache
                            THEN PageInvalidate(m.pages[key], InPage(leaf))
                            ELSE m.pages[key]
      BY <1>2, <2>2, <2>3, InvalidateParts
    <2>5. r.pages[key].Data = m.pages[key].Data
      <3>1. IsPage(m.pages[key])
        BY <1>2 DEF IInv, IsMemory
      <3> HIDE DEF r, key
      <3> QED BY <2>4, <3>1, PageInvalidateParts
    <2> HIDE DEF r, key, path
    <2>6. \A k \in DOMAIN m.pages : r.pages[k].Data = m.pages[k].Data
      BY <2>4, <2>5
    <2>7. Contents(r) = Contents(m)
      BY <2>4, <2>6 DEF Contents
    <2>8. PathClear(r, key)
      BY <2>4 DEF PathClear, path
    <2>9. AgreeOff(m, r, key)
      <3> SUFFICES ASSUME NEW n \in OffPath(key)
                   PROVE  n # key /\ n \notin path
        BY <2>4 DEF AgreeOff
      <3>1. n # Prefix(key, Len(n))
        BY DEF OffPath
      <3>2. n \notin path
        <4> SUFFICES ASSUME NEW d \in 0..(PageKeySize - 1), n = Prefix(key, d) PROVE FALSE
          BY DEF path
        <4>1. Prefix(key, d) \in [1..d -> Bit]
          BY <1>1, PrefixNode, Sizes
        <4>2. Len(n) = d
          BY <4>1
        <4> QED BY <3>1, <4>2
      <3>3. n # key
        BY <1>1, <3>1, PrefixNode, TrieNodes
      <3> QED BY <3>2, <3>3
    <2> QED BY <2>1, <2>7, <2>8, <2>9 DEF key
  <1>3. CASE key \notin DOMAIN m.pages
    <2> DEFINE r    == AllocPage(m, key)
               kids == {Prefix(key, LevelDepths[i + 1]) : i \in Levels}
    <2>1. PrepareWrite(m, leaf) = r
      BY <1>1, <1>3, LookupStep DEF PrepareWrite
    <2>2. /\ r.pages = [k \in DOMAIN m.pages \union {key} |->
                                IF k = key THEN NewPage ELSE m.pages[k]]
          /\ r.Children = m.Children \union kids
          /\ r.HashExists = m.HashExists \union path
          /\ r.Hashes = Restrict(m.Hashes, DOMAIN m.Hashes \ path)
      BY <1>1, AllocParts DEF IInv
    <2> HIDE DEF r
    <2>3. /\ DOMAIN r.Hashes = DOMAIN m.Hashes \ path
          /\ \A n \in DOMAIN r.Hashes : r.Hashes[n] = m.Hashes[n]
      <3> HIDE DEF path
      <3> QED BY <2>2 DEF Restrict
    <2>4. PathClear(r, key)
      BY <2>3 DEF PathClear
    <2>5. AgreeOff(m, r, key)
      <3> SUFFICES ASSUME NEW n \in OffPath(key)
                   PROVE  n # key /\ n \notin path /\ n \notin kids
        <4> HIDE DEF path, kids, key
        <4> QED BY <2>2, <2>3 DEF AgreeOff
      <3>1. n # Prefix(key, Len(n))
        BY DEF OffPath
      <3>2. ASSUME NEW d \in 0..PageKeySize, n = Prefix(key, d) PROVE FALSE
        <4>1. Prefix(key, d) \in [1..d -> Bit]
          BY <1>1, PrefixNode, Sizes
        <4>2. Len(n) = d
          BY <3>2, <4>1
        <4> QED BY <3>1, <3>2, <4>2
      <3>3. n \notin path
        BY <3>2, Sizes
      <3>4. n \notin kids
        BY <3>2, Sizes
      <3>5. n # key
        BY <1>1, <3>1, PrefixNode, TrieNodes
      <3> QED BY <3>3, <3>4, <3>5
    <2>6. Contents(r) = Contents(m)
      <3> HIDE DEF key
      <3>1. ASSUME NEW l \in Leaf
            PROVE  (IF PageOf(l) \in DOMAIN r.pages THEN r.pages[PageOf(l)].Data[InPage(l)]
                                                    ELSE ZeroLeaf)
                    = IF PageOf(l) \in DOMAIN m.pages THEN m.pages[PageOf(l)].Data[InPage(l)]
                                                      ELSE ZeroLeaf
        <4>1. NewPage.Data[InPage(l)] = ZeroLeaf
          BY LeafParts DEF NewPage
        <4> QED BY <1>3, <2>2, <4>1
      <3> QED BY <3>1 DEF Contents
    <2> QED BY <2>1, <2>4, <2>5, <2>6
  <1> QED BY <1>2, <1>3

\* The contents after a copy into one leaf.
PutLeaf(data, leaf, byte, dat, from, to) ==
    [l \in Leaf |-> IF l = leaf THEN Copied(data[l], byte, dat, from, to) ELSE data[l]]

\* The copy changes one leaf of the contents, and no hash.
LEMMA CopyContents ==
    ASSUME NEW m, IInv(m), NEW leaf \in Leaf, PageOf(leaf) \in DOMAIN m.pages,
           NEW byte, NEW dat, NEW from, NEW to
    PROVE  LET r == CopyIn(m, leaf, byte, dat, from, to)
           IN  /\ AgreeOff(m, r, PageOf(leaf))
               /\ DOMAIN r.Hashes = DOMAIN m.Hashes
               /\ Contents(r) = PutLeaf(Contents(m), leaf, byte, dat, from, to)
  <1> DEFINE r   == CopyIn(m, leaf, byte, dat, from, to)
             key == PageOf(leaf)
  <1>1. key \in PageKey /\ InPage(leaf) \in LeafInPage
    BY LeafParts
  <1>2. /\ r.Children = m.Children /\ r.HashExists = m.HashExists
        /\ r.Hashes = m.Hashes
        /\ DOMAIN r.pages = DOMAIN m.pages
        /\ \A k \in DOMAIN m.pages : k # key => r.pages[k] = m.pages[k]
        /\ \A l \in LeafInPage :
              r.pages[key].Data[l] =
                 IF l = InPage(leaf)
                 THEN Copied(m.pages[key].Data[l], byte, dat, from, to)
                 ELSE m.pages[key].Data[l]
    BY CopyParts
  <1> HIDE DEF r
  <1>3. AgreeOff(m, r, key)
    <2> SUFFICES ASSUME NEW n \in OffPath(key) PROVE n # key
      BY <1>2 DEF AgreeOff
    <2>1. n # Prefix(key, Len(n))
      BY DEF OffPath
    <2> QED BY <1>1, <2>1, PrefixNode, TrieNodes
  <1>4. ASSUME NEW l \in Leaf
        PROVE  Contents(r)[l] = IF l = leaf THEN Copied(Contents(m)[l], byte, dat, from, to)
                                ELSE Contents(m)[l]
    <2>1. /\ Contents(r)[l] = IF PageOf(l) \in DOMAIN r.pages
                              THEN r.pages[PageOf(l)].Data[InPage(l)] ELSE ZeroLeaf
          /\ Contents(m)[l] = IF PageOf(l) \in DOMAIN m.pages
                              THEN m.pages[PageOf(l)].Data[InPage(l)] ELSE ZeroLeaf
      BY DEF Contents
    <2>2. CASE PageOf(l) = key
      <3>1. InPage(l) \in LeafInPage
        BY LeafParts
      <3>2. l = leaf <=> InPage(l) = InPage(leaf)
        BY <2>2, LeafSplit
      <3> HIDE DEF key
      <3>3. key \in DOMAIN m.pages
        BY DEF key
      <3> QED BY <1>2, <2>1, <2>2, <3>1, <3>2, <3>3
    <2>3. CASE PageOf(l) # key
      BY <1>2, <2>1, <2>3
    <2> QED BY <2>2, <2>3
  <1>5. Contents(r) = PutLeaf(Contents(m), leaf, byte, dat, from, to)
    <2>1. Contents(r) = [l \in Leaf |-> Contents(r)[l]]
      BY DEF Contents
    <2> HIDE DEF key
    <2> QED BY <1>4, <2>1 DEF PutLeaf
  <1> QED BY <1>2, <1>3, <1>5 DEF r

\* The copy keeps a trie coherent in which nothing above the page is valid.
LEMMA CopyCoherent ==
    ASSUME NEW m, IInv(m), Coherent(m), NEW leaf \in Leaf, PageOf(leaf) \in DOMAIN m.pages,
           PathClear(m, PageOf(leaf)), NEW byte, NEW dat, NEW from, NEW to
    PROVE  LET r == CopyIn(m, leaf, byte, dat, from, to)
           IN  Coherent(r) /\ PathClear(r, PageOf(leaf))
  <1> DEFINE r   == CopyIn(m, leaf, byte, dat, from, to)
             key == PageOf(leaf)
  <1>1. key \in PageKey
    BY LeafParts
  <1>2. AgreeOff(m, r, key) /\ DOMAIN r.Hashes = DOMAIN m.Hashes
    BY CopyContents
  <1>3. PathClear(r, key)
    BY <1>2 DEF PathClear
  <1>4. DOMAIN r.Hashes \subseteq RadixNode
    BY <1>2 DEF IInv, IsMemory
  <1> HIDE DEF r, key
  <1>5. Coherent(r)
    BY <1>1, <1>2, <1>3, <1>4, OffPathCoherent
  <1> QED BY <1>3, <1>5 DEF r, key

\* Before the copy of a write, the trie is coherent and nothing above the page is valid.
LEMMA PrepareCoherent ==
    ASSUME NEW m, IInv(m), Coherent(m), NEW leaf \in Leaf
    PROVE  Coherent(PrepareWrite(m, leaf)) /\ PathClear(PrepareWrite(m, leaf), PageOf(leaf))
  <1> DEFINE r   == PrepareWrite(m, leaf)
             key == PageOf(leaf)
  <1>1. key \in PageKey
    BY LeafParts
  <1>2. AgreeOff(m, r, key) /\ PathClear(r, key)
    BY PrepareParts
  <1>3. DOMAIN r.Hashes \subseteq RadixNode
    BY PrepareStep DEF IInv, IsMemory
  <1> HIDE DEF r, key
  <1>4. Coherent(r)
    BY <1>1, <1>2, <1>3, OffPathCoherent
  <1> QED BY <1>2, <1>4 DEF r, key

\* What SetUnaligned writes: the first bytes into the leaf of the address, the
\* others into the next one.
PutBytes(data, addr, dat) ==
    LET fit   == LeafBytes - addr.byte
        first == PutLeaf(data, addr.leaf, addr.byte, dat,
                         1, IF Len(dat) <= fit THEN Len(dat) ELSE fit)
    IN  IF Len(dat) <= fit THEN first
        ELSE PutLeaf(first, NextLeaf(addr.leaf), 0, dat, fit + 1, Len(dat))

\* A write leaves no stale hash in the trie and changes its own bytes only, on
\* whichever side of the end of a page they are.
LEMMA SetParts ==
    ASSUME NEW m, IInv(m), NEW addr \in Address, NEW dat \in Dat
    PROVE  LET r == SetUnaligned(m, addr, dat)
           IN  /\ Coherent(m) => Coherent(r)
               /\ Contents(r) = PutBytes(Contents(m), addr, dat)
  <1>1. PICK n \in 1..LeafBytes : dat \in [1..n -> Byte]
    BY DEF Dat
  <1>2. Len(dat) = n
    BY <1>1, PageAssumption
  <1>3. addr.leaf \in Leaf /\ addr.byte \in 0..(LeafBytes - 1)
    BY DEF Address
  <1> DEFINE leaf  == addr.leaf
             fit   == LeafBytes - addr.byte
             next  == NextLeaf(leaf)
             upTo  == IF n <= fit THEN n ELSE fit
             prep  == PrepareWrite(m, leaf)
             first == CopyIn(prep, leaf, addr.byte, dat, 1, upTo)
  <1>4. upTo \in 1..n /\ 1 \in 1..n
    BY <1>3, PageAssumption
  <1>5. /\ IInv(first) /\ PageOf(leaf) \in DOMAIN first.pages
        /\ Coherent(m) => Coherent(first) /\ PathClear(first, PageOf(leaf))
        /\ Contents(first) = PutLeaf(Contents(m), leaf, addr.byte, dat, 1, upTo)
    <2>1. IInv(prep) /\ PageOf(leaf) \in DOMAIN prep.pages
      BY <1>3, PrepareStep
    <2>2. Contents(prep) = Contents(m)
      BY <1>3, PrepareParts
    <2>3. Coherent(m) => Coherent(prep) /\ PathClear(prep, PageOf(leaf))
      BY <1>3, PrepareCoherent
    <2> HIDE DEF upTo, leaf, prep
    <2>4. IInv(first) /\ PageOf(leaf) \in DOMAIN first.pages
      BY <2>1, <1>1, <1>3, <1>4, CopyStep DEF leaf
    <2>5. Contents(first) = PutLeaf(Contents(prep), leaf, addr.byte, dat, 1, upTo)
      BY <2>1, <1>3, CopyContents DEF leaf
    <2>6. Coherent(m) => Coherent(first) /\ PathClear(first, PageOf(leaf))
      BY <2>1, <2>3, <1>3, CopyCoherent DEF leaf
    <2> QED BY <2>2, <2>4, <2>5, <2>6
  <1>6. CASE n <= fit
    <2>1. SetUnaligned(m, addr, dat) = first
      BY <1>2, <1>6 DEF SetUnaligned
    <2>2. PutBytes(Contents(m), addr, dat) = PutLeaf(Contents(m), leaf, addr.byte, dat, 1, upTo)
      BY <1>2, <1>6 DEF PutBytes
    <2> QED BY <2>1, <2>2, <1>5
  <1>7. CASE ~(n <= fit)
    <2> DEFINE base == IF PageOf(next) = PageOf(leaf) THEN first ELSE PrepareWrite(first, next)
               r    == CopyIn(base, next, 0, dat, fit + 1, n)
    <2>1. SetUnaligned(m, addr, dat) = r
      BY <1>2, <1>7 DEF SetUnaligned
    <2>2. next \in Leaf
      BY <1>3, LeafParts
    <2>3. PutBytes(Contents(m), addr, dat)
            = PutLeaf(PutLeaf(Contents(m), leaf, addr.byte, dat, 1, upTo), next, 0, dat, fit + 1, n)
      BY <1>2, <1>7 DEF PutBytes
    <2> HIDE DEF first, next, leaf, upTo
    <2>4. IInv(base) /\ PageOf(next) \in DOMAIN base.pages
      BY <1>5, <2>2, PrepareStep
    <2>5. Contents(base) = Contents(first)
      BY <1>5, <2>2, PrepareParts
    <2>6. Coherent(m) => Coherent(base) /\ PathClear(base, PageOf(next))
      BY <1>5, <2>2, PrepareCoherent
    <2> HIDE DEF base, fit
    <2>7. Contents(r) = PutLeaf(Contents(base), next, 0, dat, fit + 1, n)
      BY <2>2, <2>4, CopyContents
    <2>8. Coherent(m) => Coherent(r)
      BY <2>2, <2>4, <2>6, CopyCoherent
    <2> QED BY <1>5, <2>1, <2>3, <2>5, <2>7, <2>8
  <1> QED BY <1>6, <1>7

-----------------------------------------------------------------------------
(* Merkleization fills caches only.                                        *)

\* A page hashes to the same everywhere once CachedPage.MerkleRoot has run.
LEMMA PageRootSame ==
    ASSUME NEW p, IsPage(p)
    PROVE  /\ PageMerkleRoot(p).Data = p.Data
           /\ \A g \in PageNode : PageMerkleRoot(p).Cache[g] = PageHash(p)[g]
           /\ \A g \in Nodes(PageDepth) : PageHash(PageMerkleRoot(p))[g] = PageHash(p)[g]
  <1> DEFINE q == PageMerkleRoot(p)
             h == PageHash(p)
  <1>1. q.Data = p.Data /\ q.Cache = [g \in PageNode |-> h[g]]
    <2> HIDE DEF h
    <2>1. q = [p EXCEPT !.Cache = [g \in PageNode |-> h[g]]]
      BY DEF PageMerkleRoot, h
    <2> HIDE DEF q
    <2> QED BY <2>1 DEF IsPage
  <1>2. /\ Folds(h, PageDepth, PageStop(p), PageBase(p))
        /\ Folds(PageHash(q), PageDepth, PageStop(q), PageBase(q))
    BY PageHashFolds
  <1> HIDE DEF q, h
  <1>3. ASSUME NEW g \in Nodes(PageDepth) PROVE PageHash(q)[g] = h[g]
    <2>1. CASE g \in LeafInPage
      BY <1>1, <1>2, <2>1 DEF Folds, PageStop, PageBase
    <2>2. CASE g \notin LeafInPage
      <3>1. g \in PageNode
        BY <2>2, PageNodes
      <3>2. g \in PageStop(q) /\ PageBase(q)[g] = h[g]
        BY <1>1, <2>2, <3>1 DEF PageStop, PageBase
      <3> QED BY <1>2, <3>2 DEF Folds
    <2> QED BY <2>1, <2>2
  <1> QED BY <1>1, <1>3 DEF q, h

\* Every tree has a root.
LEMMA RootIsNode == ASSUME NEW D \in Nat PROVE Root \in Nodes(D)
  <1>1. Root \in [1..0 -> Bit] /\ 0 \in 0..D
    BY DEF Root
  <1> QED BY <1>1 DEF Nodes

\* A valid hash is what MerkleizeNode returns: its node is linked and exists.
LEMMA ValidIsReturned ==
    ASSUME NEW m, IInv(m), NEW n \in DOMAIN m.Hashes
    PROVE  /\ n \in RadixNode /\ n \in Nodes(PageKeySize) /\ n \notin PageKey
           /\ Linked(m, n)
           /\ MerkleizeNode(m)[n] = m.Hashes[n]
  <1>1. n \in m.HashExists /\ n \in RadixNode
    BY DEF IInv, IsMemory
  <1>2. PICK k \in DOMAIN m.pages, d \in 0..(PageKeySize - 1) : n = Prefix(k, d)
    BY <1>1 DEF IInv, SpansPages
  <1>3. Linked(m, n)
    BY <1>2, ReachesAllocated
  <1>4. n \in Nodes(PageKeySize) /\ n \notin PageKey
    BY <1>1, TrieNodes, NodeLen, Sizes
  <1>5. n \in TrieStop(m) /\ TrieBase(m)[n] = m.Hashes[n]
    BY <1>1, <1>3, <1>4 DEF TrieStop, TrieBase
  <1> QED BY <1>1, <1>3, <1>4, <1>5, TrieHashFolds DEF Folds

\* A memory whose caches hold more of the same hashes.
Fills(m, r) ==
    /\ r.Children = m.Children /\ r.HashExists = m.HashExists
    /\ DOMAIN r.pages = DOMAIN m.pages
    /\ \A k \in DOMAIN m.pages : /\ r.pages[k].Data = m.pages[k].Data
                                 /\ PageHash(r.pages[k])[Root] = PageHash(m.pages[k])[Root]
    /\ DOMAIN m.Hashes \subseteq DOMAIN r.Hashes
    /\ DOMAIN r.Hashes \ DOMAIN m.Hashes \subseteq Recomputed(m)
    /\ \A n \in DOMAIN r.Hashes : r.Hashes[n] = MerkleizeNode(m)[n]

\* Filling caches changes no hash that MerkleizeNode returns.
LEMMA FillsSame ==
    ASSUME NEW m, NEW r, IInv(m), Fills(m, r)
    PROVE  \A n \in Nodes(PageKeySize) : MerkleizeNode(r)[n] = MerkleizeNode(m)[n]
  <1> DEFINE D == PageKeySize
             f == MerkleizeNode(m)
             g == MerkleizeNode(r)
             T == {n \in Nodes(D) : g[n] = f[n]}
  <1>1. /\ D \in Nat
        /\ Folds(f, D, TrieStop(m), TrieBase(m)) /\ Folds(g, D, TrieStop(r), TrieBase(r))
    BY Sizes, TrieHashFolds
  <1>2. \A n : Linked(r, n) <=> Linked(m, n)
    BY DEF Fills, Linked
  <1>3. \A n \in Nodes(D) : n \in PageKey <=> Len(n) = D
    BY TrieNodes
  <1>4. ASSUME NEW n \in Nodes(D), n \in TrieStop(m) PROVE n \in T
    <2>1. n \in TrieStop(r)
      BY <1>2, <1>4 DEF TrieStop, Fills
    <2>2. TrieBase(r)[n] = TrieBase(m)[n]
      <3>1. CASE ~Linked(m, n)
        BY <1>2, <3>1 DEF TrieBase
      <3>2. CASE Linked(m, n) /\ n \in PageKey
        BY <1>2, <3>2 DEF TrieBase, Fills
      <3>3. CASE Linked(m, n) /\ n \notin PageKey /\ n \notin m.HashExists
        BY <1>2, <3>3 DEF TrieBase, Fills
      <3>4. CASE Linked(m, n) /\ n \notin PageKey /\ n \in m.HashExists
        <4>1. n \in DOMAIN m.Hashes /\ n \in DOMAIN r.Hashes
          BY <1>4, <3>4 DEF TrieStop, Fills
        <4>2. r.Hashes[n] = f[n] /\ f[n] = m.Hashes[n]
          BY <4>1, ValidIsReturned DEF Fills
        <4>3. TrieBase(m)[n] = m.Hashes[n]
          BY <3>4 DEF TrieBase
        <4>4. TrieBase(r)[n] = r.Hashes[n]
          BY <1>2, <3>4 DEF TrieBase, Fills
        <4> QED BY <4>2, <4>3, <4>4
      <3> QED BY <3>1, <3>2, <3>3, <3>4
    <2> HIDE DEF f, g
    <2> QED BY <1>1, <1>4, <2>1, <2>2 DEF Folds
  <1>5. ASSUME NEW n \in Nodes(D), n \in DOMAIN r.Hashes, n \notin TrieStop(m) PROVE n \in T
    <2>1. Linked(r, n) /\ n \notin PageKey /\ n \in r.HashExists
      BY <1>2, <1>5 DEF TrieStop, Fills
    <2>2. n \in TrieStop(r) /\ TrieBase(r)[n] = r.Hashes[n]
      BY <1>5, <2>1 DEF TrieStop, TrieBase
    <2>3. r.Hashes[n] = f[n]
      BY <1>5 DEF Fills
    <2> HIDE DEF f, g
    <2> QED BY <1>1, <2>2, <2>3 DEF Folds
  <1>6. ASSUME NEW n \in Nodes(D), n \notin DOMAIN r.Hashes, n \notin TrieStop(m)
        PROVE  n \notin TrieStop(r)
    BY <1>2, <1>6 DEF TrieStop, Fills
  <1>7. ASSUME NEW n \in Nodes(D), Len(n) = D PROVE n \in T
    BY <1>3, <1>4, <1>7 DEF TrieStop
  <1>8. ASSUME NEW n \in Nodes(D), Len(n) < D, Append(n, 0) \in T, Append(n, 1) \in T
        PROVE  n \in T
    <2> HIDE DEF f, g
    <2>1. CASE n \notin DOMAIN r.Hashes /\ n \notin TrieStop(m)
      BY <1>1, <1>6, <1>8, <2>1 DEF Folds
    <2> QED BY <1>4, <1>5, <2>1
  <1> HIDE DEF T, f, g, D
  <1>9. Nodes(D) \subseteq T
    BY <1>1, <1>7, <1>8, TreeInd
  <1> QED BY <1>9 DEF T, f, g, D

\* Filling caches keeps the trie coherent, and the contents.
LEMMA FillsCoherent ==
    ASSUME NEW m, NEW r, IInv(m), Fills(m, r)
    PROVE  /\ Coherent(m) => Coherent(r)
           /\ RootHash(r) = RootHash(m)
           /\ Contents(r) = Contents(m)
  <1> DEFINE D == PageKeySize
             f == MerkleizeNode(m)
             g == MerkleizeNode(r)
  <1>1. D \in Nat /\ Folds(f, D, TrieStop(m), TrieBase(m))
    BY Sizes, TrieHashFolds
  <1>2. \A n \in Nodes(D) : g[n] = f[n]
    BY FillsSame
  <1>3. RootHash(r) = RootHash(m)
    BY <1>1, <1>2, RootIsNode DEF RootHash
  <1>4. Contents(r) = Contents(m)
    BY DEF Contents, Fills
  <1>5. ASSUME Coherent(m), NEW n \in DOMAIN r.Hashes
        PROVE  r.Hashes[n] = HashPair(g[Append(n, 0)], g[Append(n, 1)])
    <2>1. n \in RadixNode
      BY <1>5, ValidIsReturned DEF Fills, Recomputed
    <2>2. n \in Nodes(D) /\ Len(n) < D /\ n \notin PageKey
      BY <2>1, TrieNodes, NodeLen, Sizes
    <2>3. Append(n, 0) \in Nodes(D) /\ Append(n, 1) \in Nodes(D)
      BY <1>1, <2>2, ChildNode, BitsAreBits
    <2>4. f[n] = HashPair(f[Append(n, 0)], f[Append(n, 1)])
      <3>1. CASE n \in DOMAIN m.Hashes
        BY <1>5, <3>1, ValidIsReturned DEF Coherent
      <3>2. CASE n \notin DOMAIN m.Hashes
        <4>1. n \in Recomputed(m)
          BY <1>5, <3>2 DEF Fills
        <4>2. n \notin TrieStop(m)
          BY <2>2, <4>1 DEF Recomputed, TrieStop
        <4> HIDE DEF f
        <4> QED BY <1>1, <2>2, <4>2 DEF Folds
      <3> QED BY <3>1, <3>2
    <2>5. r.Hashes[n] = f[n]
      BY <1>5 DEF Fills
    <2> HIDE DEF f, g
    <2> QED BY <1>2, <2>3, <2>4, <2>5
  <1>6. Coherent(m) => Coherent(r)
    BY <1>5 DEF Coherent
  <1> QED BY <1>3, <1>4, <1>6

\* Merkleization fills caches.
LEMMA MerkleizeFills ==
    ASSUME NEW m, IInv(m), NEW starts
    PROVE  Fills(m, Merkleize(m, starts))
  <1> DEFINE r       == Merkleize(m, starts)
             visited == Visited(m, starts)
             fill    == visited \intersect Recomputed(m)
             f       == MerkleizeNode(m)
             rehash  == [n \in DOMAIN m.Hashes \union fill |-> f[n]]
  <1>1. /\ r.Hashes = rehash
        /\ r.pages = [k \in DOMAIN m.pages |-> IF k \in visited /\ Linked(m, k)
                                               THEN PageMerkleRoot(m.pages[k]) ELSE m.pages[k]]
        /\ r.Children = m.Children /\ r.HashExists = m.HashExists
    BY DEF Merkleize, IInv, IsMemory
  <1> HIDE DEF r, f
  <1>2. DOMAIN r.pages = DOMAIN m.pages
    BY <1>1
  <1>3. ASSUME NEW k \in DOMAIN m.pages
        PROVE  /\ r.pages[k].Data = m.pages[k].Data
               /\ PageHash(r.pages[k])[Root] = PageHash(m.pages[k])[Root]
    <2>1. IsPage(m.pages[k])
      BY DEF IInv, IsMemory
    <2>2. r.pages[k] = PageMerkleRoot(m.pages[k]) \/ r.pages[k] = m.pages[k]
      BY <1>1
    <2>3. Root \in Nodes(PageDepth)
      BY PageAssumption, RootIsNode
    <2> QED BY <2>1, <2>2, <2>3, PageRootSame
  <1>4. /\ DOMAIN m.Hashes \subseteq DOMAIN r.Hashes
        /\ DOMAIN r.Hashes \ DOMAIN m.Hashes \subseteq Recomputed(m)
        /\ \A n \in DOMAIN r.Hashes : r.Hashes[n] = f[n]
    BY <1>1
  <1> QED BY <1>1, <1>2, <1>3, <1>4 DEF Fills, r, f

\* MerkleProof fills caches, first those of the page and then those of the trie.
LEMMA ProofPure ==
    ASSUME NEW m, IInv(m), NEW leaf \in Leaf
    PROVE  LET r == MerkleProof(m, leaf)
           IN  /\ Coherent(m) => Coherent(r)
               /\ RootHash(r) = RootHash(m)
               /\ Contents(r) = Contents(m)
  <1> DEFINE key  == PageOf(leaf)
             full == SetPage(m, key, PageMerkleRoot(m.pages[key]))
             page == IF ProofPage(m, key) THEN full ELSE m
             sibs == {Sibling(Prefix(key, d)) : d \in ProofDepths(m, key)}
             r    == Merkleize(page, sibs)
  <1>1. MerkleProof(m, leaf) = r
    BY DEF MerkleProof
  <1>2. ASSUME key \in DOMAIN m.pages PROVE Fills(m, full) /\ IInv(full)
    <2>1. /\ full.pages = [k \in DOMAIN m.pages |->
                                IF k = key THEN PageMerkleRoot(m.pages[key]) ELSE m.pages[k]]
          /\ full.Children = m.Children /\ full.HashExists = m.HashExists
          /\ full.Hashes = m.Hashes
      BY SetPageParts DEF IInv
    <2>2. IInv(full)
      BY <1>2, ValidateStep
    <2> HIDE DEF full, key
    <2>3. ASSUME NEW k \in DOMAIN m.pages
          PROVE  /\ full.pages[k].Data = m.pages[k].Data
                 /\ PageHash(full.pages[k])[Root] = PageHash(m.pages[k])[Root]
      <3>1. IsPage(m.pages[k])
        BY DEF IInv, IsMemory
      <3>2. full.pages[k] = PageMerkleRoot(m.pages[k]) \/ full.pages[k] = m.pages[k]
        BY <2>1
      <3>3. Root \in Nodes(PageDepth)
        BY PageAssumption, RootIsNode
      <3> QED BY <3>1, <3>2, <3>3, PageRootSame
    <2>4. \A n \in DOMAIN full.Hashes : full.Hashes[n] = MerkleizeNode(m)[n]
      BY <2>1, ValidIsReturned
    <2> QED BY <2>1, <2>2, <2>3, <2>4 DEF Fills
  <1>3. IInv(page) /\ (Coherent(m) => Coherent(page))
          /\ RootHash(page) = RootHash(m) /\ Contents(page) = Contents(m)
    BY <1>2, FillsCoherent DEF ProofPage
  <1> HIDE DEF page, sibs
  <1>4. Fills(page, r)
    BY <1>3, MerkleizeFills
  <1> HIDE DEF r
  <1>5. /\ Coherent(page) => Coherent(r)
        /\ RootHash(r) = RootHash(page) /\ Contents(r) = Contents(page)
    BY <1>3, <1>4, FillsCoherent
  <1> QED BY <1>1, <1>3, <1>5

\* Merkleization changes neither hashes nor contents,
LEMMA MerklePure ==
    ASSUME NEW m, IInv(m), NEW starts
    PROVE  LET r == Merkleize(m, starts)
           IN  /\ Coherent(m) => Coherent(r)
               /\ RootHash(r) = RootHash(m)
               /\ Contents(r) = Contents(m)
  BY MerkleizeFills, FillsCoherent

\* nor does a lookup,
LEMMA LookupPure ==
    ASSUME NEW m, IInv(m), NEW key \in PageKey
    PROVE  LET r == pageLookup(m, key)
           IN  /\ Coherent(m) => Coherent(r)
               /\ RootHash(r) = RootHash(m)
               /\ Contents(r) = Contents(m)
  <1> DEFINE r == pageLookup(m, key)
  <1>1. /\ r.pages = m.pages /\ r.Children = m.Children
        /\ r.HashExists = m.HashExists /\ r.Hashes = m.Hashes
    BY LookupParts DEF IInv
  <1>2. \A n \in DOMAIN m.Hashes : m.Hashes[n] = MerkleizeNode(m)[n]
    BY ValidIsReturned
  <1> HIDE DEF r
  <1>3. Fills(m, r)
    BY <1>1, <1>2 DEF Fills
  <1> QED BY <1>3, FillsCoherent DEF r

\* nor a read.
LEMMA GetPure ==
    ASSUME NEW m, IInv(m), NEW addr \in Address, NEW n \in 1..LeafBytes
    PROVE  LET r == GetUnaligned(m, addr, n)
           IN  /\ Coherent(m) => Coherent(r)
               /\ RootHash(r) = RootHash(m)
               /\ Contents(r) = Contents(m)
  <1> DEFINE next == NextLeaf(addr.leaf)
             here == pageLookup(m, PageOf(addr.leaf))
             both == pageLookup(here, PageOf(next))
  <1>1. PageOf(addr.leaf) \in PageKey /\ PageOf(next) \in PageKey
    <2>1. addr.leaf \in Leaf
      BY DEF Address
    <2> QED BY <2>1, LeafParts
  <1>2. /\ IInv(here)
        /\ Coherent(m) => Coherent(here)
        /\ RootHash(here) = RootHash(m) /\ Contents(here) = Contents(m)
    BY <1>1, LookupStep, LookupPure
  <1> HIDE DEF here
  <1>3. /\ Coherent(here) => Coherent(both)
        /\ RootHash(both) = RootHash(here) /\ Contents(both) = Contents(here)
    BY <1>1, <1>2, LookupPure
  <1>4. GetUnaligned(m, addr, n) = here \/ GetUnaligned(m, addr, n) = both
    BY DEF GetUnaligned, here
  <1> HIDE DEF both
  <1> QED BY <1>2, <1>3, <1>4

\* A snapshot holds all of the contents and no hash.
LEMMA ReloadParts ==
    ASSUME NEW m, IInv(m)
    PROVE  LET r == Deserialize(Serialize(m))
           IN  Coherent(r) /\ Contents(r) = Contents(m)
  <1> DEFINE r == Deserialize(Serialize(m))
  <1>1. DOMAIN Serialize(m) = DOMAIN m.pages
    BY DEF Serialize
  <1>2. DOMAIN r.pages = DOMAIN m.pages /\ DOMAIN r.Hashes = {}
    BY <1>1 DEF Deserialize, EmptyFcn
  <1>3. ASSUME NEW k \in DOMAIN m.pages PROVE r.pages[k].Data = m.pages[k].Data
    <2>1. r.pages[k] = [NewPage EXCEPT !.Data = m.pages[k].Data]
      BY <1>1 DEF Deserialize, Serialize
    <2> HIDE DEF r
    <2> QED BY <2>1 DEF NewPage
  <1> HIDE DEF r
  <1>4. Contents(r) = Contents(m)
    BY <1>2, <1>3 DEF Contents
  <1>5. Coherent(r)
    BY <1>2 DEF Coherent
  <1> QED BY <1>4, <1>5 DEF r

\* ReadLeaf reads the contents, whatever the lookup cache holds.
LEMMA ReadsContents ==
    ASSUME NEW m, IInv(m), NEW leaf \in Leaf
    PROVE  ReadLeaf(m, leaf) = Contents(m)[leaf]
  BY LeafParts, LookupStep DEF ReadLeaf, Contents

\* The contents are bytes.
LEMMA ContentsType ==
    ASSUME NEW m, IInv(m), NEW l \in Leaf
    PROVE  Contents(m)[l] \in LeafData
  <1>1. ZeroLeaf \in LeafData
    BY DataAssumption DEF ZeroLeaf, LeafData
  <1>2. InPage(l) \in LeafInPage
    BY LeafParts
  <1>3. ASSUME PageOf(l) \in DOMAIN m.pages
        PROVE  m.pages[PageOf(l)].Data[InPage(l)] \in LeafData
    BY <1>2, <1>3 DEF IInv, IsMemory, IsPage
  <1> QED BY <1>1, <1>3 DEF Contents

-----------------------------------------------------------------------------
(* The tree over the whole address space.                                  *)

\* The hash of every node over the contents c of a memory.
Tree(c) ==
    LET hash[n \in Nodes(AddrSize)] ==
            IF n \in Leaf THEN c[n] ELSE HashPair(hash[Append(n, 0)], hash[Append(n, 1)])
    IN  hash

\* TrueHash depends on the contents only.
LEMMA TrueIsTree == ASSUME NEW m PROVE TrueHash(m) = Tree(Contents(m))
  BY DEF TrueHash, Tree, Nodes

\* Tree is computed from the contents up.
LEMMA TreeFolds ==
    ASSUME NEW c PROVE Folds(Tree(c), AddrSize, Leaf, c)
  <1> DEFINE D == AddrSize
  <1>1. D \in Nat /\ \A n \in Nodes(D) : Len(n) = D => n \in Leaf
    <2>1. D \in Nat
      BY Sizes
    <2> QED BY <2>1, NodeLen DEF Leaf
  <1>2. PICK f : Folds(f, D, Leaf, c)
    BY <1>1, FoldExists
  <1>3. f = [n \in Nodes(D) |-> IF n \in Leaf THEN c[n]
                                ELSE HashPair(f[Append(n, 0)], f[Append(n, 1)])]
    BY <1>2 DEF Folds
  <1> DEFINE h == Tree(c)
  <1>4. h = [n \in Nodes(D) |-> IF n \in Leaf THEN c[n]
                                ELSE HashPair(h[Append(n, 0)], h[Append(n, 1)])]
    BY <1>3 DEF Tree
  <1> HIDE DEF h
  <1>5. Folds(h, D, Leaf, c)
    BY <1>4 DEF Folds
  <1> QED BY <1>5 DEF h

\* The leaves of the tree are the nodes of full length.
LEMMA LeafNodes ==
    /\ AddrSize \in Nat
    /\ \A n \in Nodes(AddrSize) : n \in Leaf <=> Len(n) = AddrSize
    /\ Leaf \subseteq Nodes(AddrSize)
  <1>1. AddrSize \in Nat
    BY Sizes
  <1>2. \A n \in Nodes(AddrSize) : n \in Leaf <=> Len(n) = AddrSize
    <2> SUFFICES ASSUME NEW n \in Nodes(AddrSize) PROVE n \in Leaf <=> Len(n) = AddrSize
      OBVIOUS
    <2>1. n \in Leaf => Len(n) = AddrSize
      BY <1>1 DEF Leaf
    <2>2. Len(n) = AddrSize => n \in Leaf
      BY <1>1, NodeLen DEF Leaf
    <2> QED BY <2>1, <2>2
  <1>3. Leaf \subseteq Nodes(AddrSize)
    BY <1>1 DEF Leaf, Nodes
  <1> QED BY <1>1, <1>2, <1>3

\* The hash of an inner node, and of a leaf.
LEMMA TreeAt ==
    ASSUME NEW c
    PROVE  /\ \A n \in Leaf : Tree(c)[n] = c[n]
           /\ \A n \in Nodes(AddrSize) : Len(n) < AddrSize =>
                 Tree(c)[n] = HashPair(Tree(c)[Append(n, 0)], Tree(c)[Append(n, 1)])
  <1>1. Folds(Tree(c), AddrSize, Leaf, c)
    BY TreeFolds
  <1>2. \A n \in Nodes(AddrSize) : Len(n) < AddrSize => n \notin Leaf
    BY LeafNodes
  <1> QED BY <1>1, <1>2, LeafNodes DEF Folds

\* The first bits of a node are a node.
LEMMA PrefixOfNode ==
    ASSUME NEW D \in Nat, NEW n \in Nodes(D), NEW d \in 0..Len(n)
    PROVE  /\ Prefix(n, d) \in Nodes(D)
           /\ Len(Prefix(n, d)) = d
           /\ \A i \in 1..d : Prefix(n, d)[i] = n[i]
  <1>1. Len(n) \in 0..D /\ n \in [1..Len(n) -> Bit]
    BY NodeLen
  <1>2. Prefix(n, d) \in [1..d -> Bit] /\ d \in 0..D
    BY <1>1 DEF Prefix
  <1>3. Len(Prefix(n, d)) = d
    BY <1>2
  <1> QED BY <1>2, <1>3 DEF Nodes, Prefix

\* Two nodes are the same when their lengths and bits are.
LEMMA NodeEqual ==
    ASSUME NEW D \in Nat, NEW n \in Nodes(D), NEW o \in Nodes(D), Len(n) = Len(o),
           \A i \in 1..Len(n) : n[i] = o[i]
    PROVE  n = o
  <1>1. n \in [1..Len(n) -> Bit] /\ o \in [1..Len(n) -> Bit]
    BY NodeLen
  <1>2. n = [i \in 1..Len(n) |-> n[i]] /\ o = [i \in 1..Len(n) |-> o[i]]
    BY <1>1
  <1> QED BY <1>2

\* The node a bit below a node comes from.
LEMMA ParentNode ==
    ASSUME NEW D \in Nat, NEW n \in Nodes(D), Len(n) < D, NEW b \in Bit
    PROVE  Prefix(Append(n, b), Len(n)) = n
  <1>1. /\ Append(n, b) \in Nodes(D)
        /\ Len(Append(n, b)) = Len(n) + 1
        /\ \A i \in 1..Len(n) : Append(n, b)[i] = n[i]
    BY ChildNode
  <1>2. n = [i \in 1..Len(n) |-> n[i]]
    BY NodeLen
  <1> QED BY <1>1, <1>2 DEF Prefix

\* The nodes that are not on the way to a leaf.
Beside(leaf) == {n \in Nodes(AddrSize) : n # Prefix(leaf, Len(n))}

\* A change of one leaf shows on the way to it only.
LEMMA BesideSame ==
    ASSUME NEW leaf \in Leaf, NEW c, NEW e, \A l \in Leaf : l # leaf => e[l] = c[l]
    PROVE  \A n \in Beside(leaf) : Tree(e)[n] = Tree(c)[n]
  <1> DEFINE D == AddrSize
             f == Tree(c)
             g == Tree(e)
  <1>1. D \in Nat /\ Folds(f, D, Leaf, c) /\ Folds(g, D, Leaf, e)
    BY Sizes, TreeFolds
  <1>2. \A n \in Nodes(D) : n \in Leaf <=> Len(n) = D
    BY LeafNodes
  <1>3. ASSUME NEW n \in Beside(leaf) \intersect Nodes(D)
        PROVE  \/ n \in Leaf /\ c[n] = e[n]
               \/ /\ n \notin Leaf
                  /\ Append(n, 0) \in Beside(leaf) /\ Append(n, 1) \in Beside(leaf)
    <2>1. CASE n \in Leaf
      <3>1. Prefix(leaf, D) = leaf
        BY <1>1 DEF Leaf, Prefix
      <3> QED BY <1>2, <2>1, <3>1 DEF Beside
    <2>2. CASE n \notin Leaf
      <3>1. Len(n) < D /\ Len(n) \in Nat
        BY <1>1, <1>2, <2>2, NodeLen
      <3>2. ASSUME NEW b \in Bit PROVE Append(n, b) \in Beside(leaf)
        <4>1. /\ Append(n, b) \in Nodes(D)
              /\ Len(Append(n, b)) = Len(n) + 1
              /\ Prefix(Append(n, b), Len(n)) = n
          BY <1>1, <3>1, ChildNode, ParentNode
        <4>2. ASSUME Append(n, b) = Prefix(leaf, Len(n) + 1) PROVE n = Prefix(leaf, Len(n))
          BY <3>1, <4>1, <4>2, PrefixPrefix
        <4> QED BY <4>1, <4>2 DEF Beside
      <3> QED BY <2>2, <3>2, BitsAreBits
    <2> QED BY <2>1, <2>2
  <1> HIDE DEF f, g, D
  <1>4. \A n \in Beside(leaf) \intersect Nodes(D) : f[n] = g[n]
    BY <1>1, <1>2, <1>3, FoldAgree
  <1> QED BY <1>4 DEF f, g, D, Beside

-----------------------------------------------------------------------------
(* Empty subtrees.                                                         *)

\* There is a table of zero hashes.
LEMMA ZeroExists ==
    \E f : \A h \in 0..AddrSize : f[h] = IF h = 0 THEN ZeroLeaf ELSE HashPair(f[h - 1], f[h - 1])
  <1> DEFINE D == AddrSize
             Good(f, j) == \A h \in 0..j : f[h] = IF h = 0 THEN ZeroLeaf
                                                  ELSE HashPair(f[h - 1], f[h - 1])
             S == {j \in 0..D : \E f : Good(f, j)}
  <1>1. D \in Nat
    BY Sizes
  <1>2. 0 \in S
    <2> DEFINE f == [h \in {0} |-> ZeroLeaf]
    <2>1. Good(f, 0)
      OBVIOUS
    <2> HIDE DEF f
    <2> QED BY <1>1, <2>1
  <1>3. ASSUME NEW j \in 0..D, j \in S, j < D PROVE j + 1 \in S
    <2>1. PICK f : Good(f, j)
      BY <1>3
    <2> DEFINE g == [h \in 0..(j + 1) |-> IF h = j + 1 THEN HashPair(f[j], f[j]) ELSE f[h]]
    <2>2. /\ g[j + 1] = HashPair(f[j], f[j])
          /\ \A h \in 0..j : g[h] = f[h]
      OBVIOUS
    <2> HIDE DEF g
    <2>3. Good(g, j + 1)
      <3> SUFFICES ASSUME NEW h \in 0..(j + 1)
                   PROVE  g[h] = IF h = 0 THEN ZeroLeaf ELSE HashPair(g[h - 1], g[h - 1])
        OBVIOUS
      <3>1. CASE h = j + 1
        BY <2>2, <3>1
      <3>2. CASE h # j + 1
        <4>1. h \in 0..j /\ (h # 0 => h - 1 \in 0..j)
          BY <3>2
        <4> QED BY <2>1, <2>2, <4>1
      <3> QED BY <3>1, <3>2
    <2> HIDE DEF Good
    <2> QED BY <1>1, <1>3, <2>3
  <1> HIDE DEF S
  <1>4. 0..D \subseteq S
    BY <1>1, <1>2, <1>3, NatInd
  <1>5. D \in S
    BY <1>1, <1>4
  <1> QED BY <1>5 DEF S

\* zeroHashes has its recursion.
LEMMA ZeroAt ==
    /\ zeroHashes[0] = ZeroLeaf
    /\ \A h \in 1..AddrSize : zeroHashes[h] = HashPair(zeroHashes[h - 1], zeroHashes[h - 1])
  <1>1. PICK f : \A h \in 0..AddrSize : f[h] = IF h = 0 THEN ZeroLeaf
                                               ELSE HashPair(f[h - 1], f[h - 1])
    BY ZeroExists
  <1> DEFINE g == [h \in 0..AddrSize |-> f[h]]
  <1>2. AddrSize \in Nat
    BY Sizes
  <1>3. g = [h \in 0..AddrSize |-> IF h = 0 THEN ZeroLeaf ELSE HashPair(g[h - 1], g[h - 1])]
    <2>1. \A h \in 0..AddrSize : h # 0 => h - 1 \in 0..AddrSize
      BY <1>2
    <2> QED BY <1>1, <2>1
  <1> HIDE DEF g
  <1>4. zeroHashes = [h \in 0..AddrSize |-> IF h = 0 THEN ZeroLeaf
                                 ELSE HashPair(zeroHashes[h - 1], zeroHashes[h - 1])]
    BY <1>3 DEF zeroHashes
  <1> QED BY <1>2, <1>4

\* A node with nothing but zeroes below it has the zero hash of its height.
LEMMA EmptyTree ==
    ASSUME NEW c, NEW n \in Nodes(AddrSize),
           \A l \in Leaf : Prefix(l, Len(n)) = n => c[l] = ZeroLeaf
    PROVE  Tree(c)[n] = zeroHashes[AddrSize - Len(n)]
  <1> DEFINE D == AddrSize
             Empty(o) == \A l \in Leaf : Prefix(l, Len(o)) = o => c[l] = ZeroLeaf
             T == {o \in Nodes(D) : Empty(o) => Tree(c)[o] = zeroHashes[D - Len(o)]}
  <1>1. D \in Nat
    BY Sizes
  <1>2. ASSUME NEW o \in Nodes(D), Len(o) = D PROVE o \in T
    <2>1. o \in Leaf
      BY <1>2, LeafNodes
    <2>2. Prefix(o, Len(o)) = o
      BY <1>1, <1>2, <2>1 DEF Leaf, Prefix
    <2>3. Tree(c)[o] = c[o]
      BY <2>1, TreeAt
    <2>4. D - Len(o) = 0
      BY <1>1, <1>2
    <2>5. Empty(o) => c[o] = ZeroLeaf
      BY <2>1, <2>2
    <2> QED BY <2>3, <2>4, <2>5, ZeroAt
  <1>3. ASSUME NEW o \in Nodes(D), Len(o) < D, Append(o, 0) \in T, Append(o, 1) \in T
        PROVE  o \in T
    <2> SUFFICES ASSUME Empty(o) PROVE Tree(c)[o] = zeroHashes[D - Len(o)]
      OBVIOUS
    <2>1. Len(o) \in Nat
      BY <1>1, NodeLen
    <2>2. ASSUME NEW b \in Bit
          PROVE  Empty(Append(o, b)) /\ Len(Append(o, b)) = Len(o) + 1
      <3>1. /\ Len(Append(o, b)) = Len(o) + 1
            /\ Prefix(Append(o, b), Len(o)) = o
        BY <1>1, <1>3, ChildNode, ParentNode
      <3>2. ASSUME NEW l \in Leaf, Prefix(l, Len(o) + 1) = Append(o, b)
            PROVE  c[l] = ZeroLeaf
        <4>1. Prefix(Prefix(l, Len(o) + 1), Len(o)) = Prefix(l, Len(o))
          BY <2>1, PrefixPrefix
        <4>2. Prefix(l, Len(o)) = o
          BY <3>1, <3>2, <4>1
        <4> QED BY <4>2
      <3> QED BY <3>1, <3>2
    <2> DEFINE h == D - Len(o)
    <2>3. h \in 1..D /\ D - (Len(o) + 1) = h - 1
      BY <1>1, <1>3, <2>1
    <2> HIDE DEF h, Empty
    <2>4. Tree(c)[Append(o, 0)] = zeroHashes[h - 1] /\ Tree(c)[Append(o, 1)] = zeroHashes[h - 1]
      BY <1>3, <2>2, <2>3, BitsAreBits
    <2>5. Tree(c)[o] = HashPair(Tree(c)[Append(o, 0)], Tree(c)[Append(o, 1)])
      BY <1>3, TreeAt
    <2>6. zeroHashes[h] = HashPair(zeroHashes[h - 1], zeroHashes[h - 1])
      BY <2>3, ZeroAt
    <2> QED BY <2>4, <2>5, <2>6 DEF h
  <1> HIDE DEF T
  <1>4. Nodes(D) \subseteq T
    BY <1>1, <1>2, <1>3, TreeInd
  <1> QED BY <1>4 DEF T

-----------------------------------------------------------------------------
(* Positions below a page.                                                 *)

\* The node of the whole tree that is the node g of the page k.
Join(k, g) ==
    [i \in 1..(PageKeySize + Len(g)) |->
        IF i <= PageKeySize THEN k[i] ELSE g[i - PageKeySize]]

\* A node of the trie is a node of the whole tree.
LEMMA TrieInTree ==
    ASSUME NEW n \in Nodes(PageKeySize)
    PROVE  n \in Nodes(AddrSize) /\ (Len(n) < PageKeySize => Len(n) < AddrSize)
  <1>1. PageKeySize \in Nat /\ AddrSize \in Nat /\ PageKeySize \in 0..AddrSize
    BY Sizes, PageAssumption DEF AddrSize
  <1>2. PICK d \in 0..PageKeySize : n \in [1..d -> Bit]
    BY DEF Nodes
  <1>3. d \in 0..AddrSize /\ Len(n) = d
    BY <1>1, <1>2
  <1>4. n \in Nodes(AddrSize)
    BY <1>2, <1>3 DEF Nodes
  <1> QED BY <1>1, <1>3, <1>4

\* A node of a page, seen from the root of memory, has the bits of both.
LEMMA JoinNode ==
    ASSUME NEW k \in PageKey, NEW g \in Nodes(PageDepth)
    PROVE  /\ Join(k, g) \in Nodes(AddrSize)
           /\ Len(Join(k, g)) = PageKeySize + Len(g)
           /\ \A i \in 1..PageKeySize : Join(k, g)[i] = k[i]
           /\ \A i \in 1..Len(g) : Join(k, g)[PageKeySize + i] = g[i]
  <1>1. PageKeySize \in Nat /\ PageDepth \in Nat
    BY Sizes, PageAssumption
  <1>2. Len(g) \in 0..PageDepth /\ g \in [1..Len(g) -> Bit]
    BY <1>1, NodeLen
  <1> DEFINE size == PageKeySize + Len(g)
  <1>3. size \in 0..AddrSize
    BY <1>1, <1>2 DEF AddrSize
  <1>4. Join(k, g) \in [1..size -> Bit]
    <2> SUFFICES ASSUME NEW i \in 1..size
                 PROVE  (IF i <= PageKeySize THEN k[i] ELSE g[i - PageKeySize]) \in Bit
      BY DEF Join
    <2>1. CASE i <= PageKeySize
      BY <1>1, <2>1 DEF PageKey
    <2>2. CASE ~(i <= PageKeySize)
      <3>1. i - PageKeySize \in 1..Len(g)
        BY <1>1, <1>2, <2>2
      <3> QED BY <1>2, <2>2, <3>1
    <2> QED BY <2>1, <2>2
  <1>5. Len(Join(k, g)) = size
    BY <1>3, <1>4
  <1>6. \A i \in 1..PageKeySize : Join(k, g)[i] = k[i]
    BY <1>1, <1>2 DEF Join
  <1>7. ASSUME NEW i \in 1..Len(g) PROVE Join(k, g)[PageKeySize + i] = g[i]
    <2> DEFINE j == PageKeySize + i
    <2>1. j \in 1..size /\ ~(j <= PageKeySize) /\ j - PageKeySize = i
      BY <1>1, <1>2
    <2> HIDE DEF j
    <2>2. Join(k, g)[j] = g[j - PageKeySize]
      BY <2>1 DEF Join
    <2> QED BY <2>1, <2>2 DEF j
  <1> QED BY <1>3, <1>4, <1>5, <1>6, <1>7 DEF Nodes

\* The nodes below a node of a page, the root of a page, its leaves.
LEMMA JoinChild ==
    ASSUME NEW k \in PageKey, NEW g \in Nodes(PageDepth), Len(g) < PageDepth, NEW b \in Bit
    PROVE  Append(Join(k, g), b) = Join(k, Append(g, b))
  <1> DEFINE a == Append(Join(k, g), b)
             o == Join(k, Append(g, b))
  <1>1. PageKeySize \in Nat /\ PageDepth \in Nat /\ AddrSize = PageKeySize + PageDepth
    BY Sizes, PageAssumption DEF AddrSize
  <1>2. Len(g) \in 0..PageDepth
    BY <1>1, NodeLen
  <1>3. /\ Append(g, b) \in Nodes(PageDepth) /\ Len(Append(g, b)) = Len(g) + 1
        /\ \A i \in 1..Len(g) : Append(g, b)[i] = g[i]
        /\ Append(g, b)[Len(g) + 1] = b
    BY <1>1, ChildNode
  <1>4. /\ Join(k, g) \in Nodes(AddrSize)
        /\ Len(Join(k, g)) = PageKeySize + Len(g)
        /\ \A i \in 1..PageKeySize : Join(k, g)[i] = k[i]
        /\ \A i \in 1..Len(g) : Join(k, g)[PageKeySize + i] = g[i]
    BY JoinNode
  <1>5. /\ o \in Nodes(AddrSize)
        /\ Len(o) = PageKeySize + (Len(g) + 1)
        /\ \A i \in 1..PageKeySize : o[i] = k[i]
        /\ \A i \in 1..(Len(g) + 1) : o[PageKeySize + i] = Append(g, b)[i]
    BY <1>3, JoinNode
  <1>6. AddrSize \in Nat /\ Len(Join(k, g)) < AddrSize
    BY <1>1, <1>2, <1>4
  <1>7. /\ a \in Nodes(AddrSize)
        /\ Len(a) = Len(Join(k, g)) + 1
        /\ \A i \in 1..Len(Join(k, g)) : a[i] = Join(k, g)[i]
        /\ a[Len(Join(k, g)) + 1] = b
    BY <1>4, <1>6, ChildNode
  <1> HIDE DEF a, o
  <1>8. Len(a) = Len(o)
    BY <1>1, <1>2, <1>4, <1>5, <1>7
  <1>9. ASSUME NEW i \in 1..Len(a) PROVE a[i] = o[i]
    <2>1. i \in 1..(PageKeySize + Len(g) + 1)
      BY <1>4, <1>7
    <2>2. CASE i <= PageKeySize
      <3>1. i \in 1..PageKeySize /\ i \in 1..Len(Join(k, g))
        BY <1>1, <1>2, <1>4, <2>1, <2>2
      <3> QED BY <1>4, <1>5, <1>7, <3>1
    <2>3. CASE i > PageKeySize /\ i <= PageKeySize + Len(g)
      <3> DEFINE j == i - PageKeySize
      <3>1. /\ j \in 1..Len(g) /\ j \in 1..(Len(g) + 1)
            /\ PageKeySize + j = i /\ i \in 1..Len(Join(k, g))
        BY <1>1, <1>2, <1>4, <2>1, <2>3
      <3> HIDE DEF j
      <3>2. a[i] = g[j]
        BY <1>4, <1>7, <3>1
      <3>3. o[i] = g[j]
        BY <1>3, <1>5, <3>1
      <3> QED BY <3>2, <3>3
    <2>4. CASE i = PageKeySize + Len(g) + 1
      <3>1. Len(g) + 1 \in 1..(Len(g) + 1) /\ i = PageKeySize + (Len(g) + 1)
        BY <1>1, <1>2, <2>4
      <3>2. o[i] = b
        BY <1>3, <1>5, <3>1
      <3>3. a[i] = b
        BY <1>4, <1>7, <2>4
      <3> QED BY <3>2, <3>3
    <2> QED BY <1>1, <1>2, <2>1, <2>2, <2>3, <2>4
  <1> QED BY <1>5, <1>6, <1>7, <1>8, <1>9, NodeEqual DEF a, o

\* The root of a page, seen from the root of memory, is its key,
LEMMA JoinRoot ==
    ASSUME NEW k \in PageKey
    PROVE  Join(k, Root) = k
  <1>1. Len(Root) = 0 /\ PageKeySize \in Nat
    BY Sizes DEF Root
  <1> QED BY <1>1 DEF Join, PageKey

\* and a leaf is what its page key and its place in the page make.
LEMMA JoinLeaf ==
    ASSUME NEW leaf \in Leaf
    PROVE  /\ Join(PageOf(leaf), InPage(leaf)) = leaf
           /\ \A d \in 0..PageDepth :
                 Join(PageOf(leaf), Prefix(InPage(leaf), d)) = Prefix(leaf, PageKeySize + d)
  <1>1. PageKeySize \in Nat /\ PageDepth \in Nat /\ AddrSize = PageKeySize + PageDepth
    BY Sizes, PageAssumption DEF AddrSize
  <1>2. ASSUME NEW d \in 0..PageDepth
        PROVE  Join(PageOf(leaf), Prefix(InPage(leaf), d)) = Prefix(leaf, PageKeySize + d)
    <2>1. InPage(leaf) \in Nodes(PageDepth) /\ Len(InPage(leaf)) = PageDepth
      BY LeafParts, PageNodes
    <2>2. Len(Prefix(InPage(leaf), d)) = d
      BY <1>1, <2>1, PrefixOfNode
    <2>3. ASSUME NEW i \in 1..(PageKeySize + d)
          PROVE  (IF i <= PageKeySize THEN PageOf(leaf)[i]
                                      ELSE Prefix(InPage(leaf), d)[i - PageKeySize]) = leaf[i]
      <3>1. CASE i <= PageKeySize
        <4>1. i \in 1..PageKeySize
          BY <1>1, <3>1
        <4> QED BY <3>1, <4>1 DEF PageOf, Prefix
      <3>2. CASE ~(i <= PageKeySize)
        <4> DEFINE j == i - PageKeySize
        <4>1. j \in 1..d /\ j \in 1..PageDepth /\ PageKeySize + j = i
          BY <1>1, <3>2
        <4> HIDE DEF j
        <4>2. Prefix(InPage(leaf), d)[j] = leaf[PageKeySize + j]
          BY <4>1 DEF InPage, Prefix
        <4> QED BY <3>2, <4>1, <4>2 DEF j
      <3> QED BY <3>1, <3>2
    <2> QED BY <2>2, <2>3 DEF Join, Prefix
  <1>3. Prefix(InPage(leaf), PageDepth) = InPage(leaf)
    BY DEF Prefix, InPage
  <1>4. Prefix(leaf, PageKeySize + PageDepth) = leaf
    BY <1>1 DEF Prefix, Leaf
  <1>5. PageDepth \in 0..PageDepth
    BY <1>1
  <1> QED BY <1>2, <1>3, <1>4, <1>5

\* A leaf of a page is a leaf of the tree.
LEMMA JoinIsLeaf ==
    ASSUME NEW k \in PageKey, NEW g \in LeafInPage
    PROVE  /\ Join(k, g) \in Leaf
           /\ PageOf(Join(k, g)) = k
           /\ InPage(Join(k, g)) = g
  <1>1. PageKeySize \in Nat /\ PageDepth \in Nat /\ AddrSize = PageKeySize + PageDepth
    BY Sizes, PageAssumption DEF AddrSize
  <1>2. g \in Nodes(PageDepth) /\ Len(g) = PageDepth
    BY PageNodes
  <1>3. /\ Join(k, g) \in Nodes(AddrSize)
        /\ Len(Join(k, g)) = PageKeySize + Len(g)
        /\ \A i \in 1..PageKeySize : Join(k, g)[i] = k[i]
        /\ \A i \in 1..Len(g) : Join(k, g)[PageKeySize + i] = g[i]
    BY <1>2, JoinNode
  <1>4. Join(k, g) \in Leaf
    BY <1>1, <1>2, <1>3, LeafNodes
  <1>5. PageOf(Join(k, g)) = k
    <2>1. k = [i \in 1..PageKeySize |-> k[i]]
      BY DEF PageKey
    <2> QED BY <1>3, <2>1 DEF PageOf, Prefix
  <1>6. InPage(Join(k, g)) = g
    <2>1. g = [i \in 1..PageDepth |-> g[i]]
      BY DEF LeafInPage
    <2> QED BY <1>2, <1>3, <2>1 DEF InPage
  <1> QED BY <1>4, <1>5, <1>6

\* A node of a page is on the way to a leaf of the page iff it is in the page.
LEMMA JoinBeside ==
    ASSUME NEW leaf \in Leaf, NEW k \in PageKey, NEW g \in Nodes(PageDepth),
           k # PageOf(leaf) \/ g # Prefix(InPage(leaf), Len(g))
    PROVE  Join(k, g) \in Beside(leaf)
  <1>1. PageKeySize \in Nat /\ PageDepth \in Nat /\ AddrSize = PageKeySize + PageDepth
    BY Sizes, PageAssumption DEF AddrSize
  <1>2. /\ Join(k, g) \in Nodes(AddrSize)
        /\ Len(Join(k, g)) = PageKeySize + Len(g)
        /\ \A i \in 1..PageKeySize : Join(k, g)[i] = k[i]
        /\ \A i \in 1..Len(g) : Join(k, g)[PageKeySize + i] = g[i]
    BY JoinNode
  <1>3. Len(g) \in 0..PageDepth /\ g \in [1..Len(g) -> Bit]
    BY <1>1, NodeLen
  <1>4. ASSUME Join(k, g) = Prefix(leaf, PageKeySize + Len(g))
        PROVE  k = PageOf(leaf) /\ g = Prefix(InPage(leaf), Len(g))
    <2>1. \A i \in 1..(PageKeySize + Len(g)) : Join(k, g)[i] = leaf[i]
      BY <1>4 DEF Prefix
    <2>2. ASSUME NEW i \in 1..PageKeySize PROVE k[i] = leaf[i]
      <3>1. i \in 1..(PageKeySize + Len(g))
        BY <1>1, <1>3
      <3> QED BY <1>2, <2>1, <3>1
    <2>3. ASSUME NEW i \in 1..Len(g) PROVE g[i] = InPage(leaf)[i]
      <3>1. PageKeySize + i \in 1..(PageKeySize + Len(g)) /\ i \in 1..PageDepth
        BY <1>1, <1>3
      <3>2. InPage(leaf)[i] = leaf[PageKeySize + i]
        BY <3>1 DEF InPage
      <3> QED BY <1>2, <2>1, <3>1, <3>2
    <2>4. k = [i \in 1..PageKeySize |-> k[i]] /\ g = [i \in 1..Len(g) |-> g[i]]
      BY <1>3 DEF PageKey
    <2> QED BY <2>2, <2>3, <2>4 DEF PageOf, Prefix
  <1> QED BY <1>2, <1>4 DEF Beside

-----------------------------------------------------------------------------
(* Caches that hold the hashes of the contents.                            *)

\* Every valid slot of a page holds the hash of the contents below it.
PageTrue(m, k) ==
    \A g \in DOMAIN m.pages[k].Cache : m.pages[k].Cache[g] = Tree(Contents(m))[Join(k, g)]

\* Every valid hash, of the trie and of the pages, is that of the contents.
Sound(m) ==
    /\ \A k \in DOMAIN m.pages : PageTrue(m, k)
    /\ \A n \in DOMAIN m.Hashes : m.Hashes[n] = Tree(Contents(m))[n]

\* A page with sound caches hashes to what is in the tree below its key.
LEMMA PageSound ==
    ASSUME NEW m, IInv(m), NEW k \in DOMAIN m.pages, PageTrue(m, k)
    PROVE  \A g \in Nodes(PageDepth) : PageHash(m.pages[k])[g] = Tree(Contents(m))[Join(k, g)]
  <1> DEFINE D == PageDepth
             c == Contents(m)
             h == PageHash(m.pages[k])
             T == {g \in Nodes(D) : h[g] = Tree(c)[Join(k, g)]}
  <1>1. D \in Nat /\ k \in PageKey /\ IsPage(m.pages[k])
    BY PageAssumption DEF IInv, IsMemory
  <1>2. Folds(h, D, PageStop(m.pages[k]), PageBase(m.pages[k]))
    BY PageHashFolds
  <1>3. ASSUME NEW g \in Nodes(D), Len(g) = D PROVE g \in T
    <2>1. g \in LeafInPage
      BY <1>3, PageNodes
    <2>2. h[g] = m.pages[k].Data[g]
      <3>1. g \in PageStop(m.pages[k]) /\ PageBase(m.pages[k])[g] = m.pages[k].Data[g]
        BY <2>1 DEF PageStop, PageBase
      <3> HIDE DEF h
      <3> QED BY <1>2, <3>1 DEF Folds
    <2>3. Join(k, g) \in Leaf /\ PageOf(Join(k, g)) = k /\ InPage(Join(k, g)) = g
      BY <1>1, <2>1, JoinIsLeaf
    <2>4. c[Join(k, g)] = m.pages[k].Data[g]
      BY <2>3 DEF Contents
    <2>5. Tree(c)[Join(k, g)] = c[Join(k, g)]
      BY <2>3, TreeAt
    <2> HIDE DEF c, h
    <2> QED BY <2>2, <2>4, <2>5
  <1>4. ASSUME NEW g \in Nodes(D), Len(g) < D, Append(g, 0) \in T, Append(g, 1) \in T
        PROVE  g \in T
    <2>1. g \notin LeafInPage
      BY <1>1, <1>4, PageNodes
    <2>2. CASE g \in DOMAIN m.pages[k].Cache
      <3>1. g \in PageStop(m.pages[k]) /\ PageBase(m.pages[k])[g] = m.pages[k].Cache[g]
        BY <2>1, <2>2 DEF PageStop, PageBase
      <3>2. m.pages[k].Cache[g] = Tree(c)[Join(k, g)]
        BY <2>2 DEF PageTrue
      <3> HIDE DEF h, c
      <3> QED BY <1>2, <3>1, <3>2 DEF Folds
    <2>3. CASE g \notin DOMAIN m.pages[k].Cache
      <3>1. g \notin PageStop(m.pages[k])
        BY <2>1, <2>3 DEF PageStop
      <3> HIDE DEF h, c
      <3>2. h[g] = HashPair(h[Append(g, 0)], h[Append(g, 1)])
        BY <1>2, <3>1 DEF Folds
      <3>3. /\ Append(Join(k, g), 0) = Join(k, Append(g, 0))
            /\ Append(Join(k, g), 1) = Join(k, Append(g, 1))
        BY <1>1, <1>4, JoinChild, BitsAreBits
      <3>4. Join(k, g) \in Nodes(AddrSize) /\ Len(Join(k, g)) < AddrSize
        <4>1. Join(k, g) \in Nodes(AddrSize) /\ Len(Join(k, g)) = PageKeySize + Len(g)
          BY <1>1, JoinNode
        <4>2. Len(g) \in Nat /\ PageKeySize \in Nat
          BY <1>1, NodeLen, Sizes
        <4> QED BY <1>1, <1>4, <4>1, <4>2 DEF AddrSize
      <3>5. Tree(c)[Join(k, g)]
              = HashPair(Tree(c)[Append(Join(k, g), 0)], Tree(c)[Append(Join(k, g), 1)])
        BY <3>4, TreeAt
      <3> QED BY <1>4, <3>2, <3>3, <3>5
    <2> QED BY <2>2, <2>3
  <1> HIDE DEF T
  <1>5. Nodes(D) \subseteq T
    BY <1>1, <1>3, <1>4, TreeInd
  <1> QED BY <1>5 DEF T

\* A node with no page below it has the zero hash of its height.
LEMMA NoPageZero ==
    ASSUME NEW m, IInv(m), NEW n \in Nodes(PageKeySize),
           \A k \in DOMAIN m.pages : Prefix(k, Len(n)) # n
    PROVE  Tree(Contents(m))[n] = zeroHashes[AddrSize - Len(n)]
  <1>1. PageKeySize \in Nat
    BY Sizes
  <1>2. Len(n) \in 0..PageKeySize
    BY <1>1, NodeLen
  <1>3. n \in Nodes(AddrSize)
    BY TrieInTree
  <1>4. ASSUME NEW l \in Leaf, Prefix(l, Len(n)) = n PROVE Contents(m)[l] = ZeroLeaf
    <2>1. Prefix(PageOf(l), Len(n)) = n
      BY <1>1, <1>2, <1>4, PrefixPrefix DEF PageOf
    <2> QED BY <2>1 DEF Contents
  <1> QED BY <1>3, <1>4, EmptyTree

\* With sound caches MerkleizeNode returns the hash of the contents at every node.
LEMMA TrieSound ==
    ASSUME NEW m, IInv(m), Sound(m)
    PROVE  \A n \in Nodes(PageKeySize) : MerkleizeNode(m)[n] = Tree(Contents(m))[n]
  <1> DEFINE D == PageKeySize
             c == Contents(m)
             f == MerkleizeNode(m)
             T == {n \in Nodes(D) : f[n] = Tree(c)[n]}
             below(n) == \E k \in DOMAIN m.pages : Prefix(k, Len(n)) = n
  <1>1. D \in Nat /\ Folds(f, D, TrieStop(m), TrieBase(m))
    BY Sizes, TrieHashFolds
  <1>2. ASSUME NEW n \in Nodes(D), ~below(n), n \in TrieStop(m),
               TrieBase(m)[n] = zeroHashes[AddrSize - Len(n)]
        PROVE  n \in T
    <2>1. Tree(c)[n] = zeroHashes[AddrSize - Len(n)]
      BY <1>2, NoPageZero
    <2> HIDE DEF f, c
    <2> QED BY <1>1, <1>2, <2>1 DEF Folds
  <1>3. \A n \in Nodes(D) : n \in PageKey <=> Len(n) = D
    BY TrieNodes
  <1>4. ASSUME NEW n \in Nodes(D), ~Linked(m, n) PROVE n \in T
    <2>1. ASSUME NEW k \in DOMAIN m.pages, Prefix(k, Len(n)) = n PROVE FALSE
      <3>1. Len(n) \in 0..D
        BY <1>1, NodeLen
      <3>2. CASE Len(n) = D
        <4>1. k \in PageKey
          BY DEF IInv, IsMemory
        <4>2. k = n
          BY <2>1, <3>2, <4>1, PrefixNode
        <4> QED BY <1>4, <4>2, ReachesAllocated
      <3>3. CASE Len(n) # D
        <4>1. Len(n) \in 0..(D - 1)
          BY <1>1, <3>1, <3>3
        <4> QED BY <1>4, <2>1, <4>1, ReachesAllocated
      <3> QED BY <3>2, <3>3
    <2>2. n \in TrieStop(m) /\ TrieBase(m)[n] = zeroHashes[AddrSize - Len(n)]
      BY <1>4 DEF TrieStop, TrieBase
    <2> QED BY <1>2, <2>1, <2>2
  <1>5. ASSUME NEW n \in Nodes(D), Linked(m, n), Len(n) = D PROVE n \in T
    <2>1. n \in PageKey /\ n \in TrieStop(m)
      BY <1>3, <1>5 DEF TrieStop
    <2>2. CASE n \in DOMAIN m.pages
      <3>1. TrieBase(m)[n] = PageHash(m.pages[n])[Root]
        BY <1>5, <2>1, <2>2 DEF TrieBase
      <3>2. Root \in Nodes(PageDepth)
        BY PageAssumption, RootIsNode
      <3>3. PageHash(m.pages[n])[Root] = Tree(c)[Join(n, Root)]
        BY <2>2, <3>2, PageSound DEF Sound
      <3>4. Join(n, Root) = n
        BY <2>1, JoinRoot
      <3> HIDE DEF f, c
      <3> QED BY <1>1, <2>1, <3>1, <3>3, <3>4 DEF Folds
    <2>3. CASE n \notin DOMAIN m.pages
      <3>1. TrieBase(m)[n] = zeroHashes[AddrSize - Len(n)]
        BY <1>5, <2>1, <2>3 DEF TrieBase
      <3>2. ~below(n)
        <4> SUFFICES ASSUME NEW k \in DOMAIN m.pages, Prefix(k, Len(n)) = n PROVE FALSE
          OBVIOUS
        <4>1. k \in PageKey
          BY DEF IInv, IsMemory
        <4>2. k = n
          BY <1>5, <4>1, PrefixNode
        <4> QED BY <2>3, <4>2
      <3> QED BY <1>2, <2>1, <3>1, <3>2
    <2> QED BY <2>2, <2>3
  <1>6. ASSUME NEW n \in Nodes(D), Linked(m, n), Len(n) < D, n \notin m.HashExists PROVE n \in T
    <2>1. n \notin PageKey
      BY <1>1, <1>3, <1>6, NodeLen
    <2>2. n \in TrieStop(m) /\ TrieBase(m)[n] = zeroHashes[AddrSize - Len(n)]
      BY <1>6, <2>1 DEF TrieStop, TrieBase
    <2>3. ~below(n)
      <3> SUFFICES ASSUME NEW k \in DOMAIN m.pages, Prefix(k, Len(n)) = n PROVE FALSE
        OBVIOUS
      <3>1. Len(n) \in 0..(D - 1)
        BY <1>1, <1>6, NodeLen
      <3>2. Prefix(k, Len(n)) \in m.HashExists
        BY <3>1 DEF IInv, SpansPages
      <3> QED BY <1>6, <3>2
    <2> QED BY <1>2, <2>2, <2>3
  <1>7. ASSUME NEW n \in Nodes(D), Linked(m, n), n \in DOMAIN m.Hashes PROVE n \in T
    BY <1>7, ValidIsReturned DEF Sound
  <1>8. ASSUME NEW n \in Nodes(D), Len(n) = D PROVE n \in T
    BY <1>4, <1>5, <1>8
  <1>9. ASSUME NEW n \in Nodes(D), Len(n) < D, Append(n, 0) \in T, Append(n, 1) \in T
        PROVE  n \in T
    <2>1. CASE Linked(m, n) /\ n \in m.HashExists /\ n \notin DOMAIN m.Hashes
      <3>1. n \notin TrieStop(m)
        BY <1>1, <1>3, <1>9, <2>1, NodeLen DEF TrieStop
      <3>2. n \in Nodes(AddrSize) /\ Len(n) < AddrSize
        BY <1>9, TrieInTree
      <3> HIDE DEF f, c
      <3>3. f[n] = HashPair(f[Append(n, 0)], f[Append(n, 1)])
        BY <1>1, <3>1 DEF Folds
      <3>4. Tree(c)[n] = HashPair(Tree(c)[Append(n, 0)], Tree(c)[Append(n, 1)])
        BY <3>2, TreeAt
      <3> QED BY <1>9, <3>3, <3>4
    <2> QED BY <1>4, <1>6, <1>7, <1>9, <2>1
  <1> HIDE DEF T, D
  <1>10. Nodes(D) \subseteq T
    BY <1>1, <1>8, <1>9, TreeInd
  <1> QED BY <1>10 DEF T, D

\* With sound caches the root is that of the contents.
LEMMA SoundRoot ==
    ASSUME NEW m, IInv(m), Sound(m)
    PROVE  RootHash(m) = TrueHash(m)[Root]
  <1>1. Root \in Nodes(PageKeySize)
    BY Sizes, RootIsNode
  <1> QED BY <1>1, TrieSound, TrueIsTree DEF RootHash

-----------------------------------------------------------------------------
(* What keeps caches sound.                                                *)

\* The page of a key, if there is one, is valid.
RootValid(m, key) == key \in DOMAIN m.pages => Root \in DOMAIN m.pages[key].Cache

\* The page of a key, if there is one, is valid or has no valid slot at all.
Clean(m, key) ==
    key \in DOMAIN m.pages =>
        Root \in DOMAIN m.pages[key].Cache \/ DOMAIN m.pages[key].Cache = {}

\* Nothing is cached.
NoCaches(m) ==
    /\ DOMAIN m.Hashes = {}
    /\ \A k \in DOMAIN m.pages : DOMAIN m.pages[k].Cache = {}

\* Without caches nothing can be stale.
LEMMA NoCachesSound ==
    ASSUME NEW m, NoCaches(m)
    PROVE  Sound(m) /\ \A k : Clean(m, k)
  BY DEF NoCaches, Sound, PageTrue, Clean

\* A snapshot that is read back has nothing cached.
LEMMA ReloadBare ==
    ASSUME NEW m
    PROVE  NoCaches(Deserialize(Serialize(m)))
  <1> DEFINE r == Deserialize(Serialize(m))
  <1>1. DOMAIN r.Hashes = {} /\ DOMAIN r.pages = DOMAIN Serialize(m)
    BY DEF Deserialize, EmptyFcn
  <1>2. ASSUME NEW k \in DOMAIN r.pages PROVE DOMAIN r.pages[k].Cache = {}
    <2>1. r.pages[k] = [NewPage EXCEPT !.Data = Serialize(m)[k]]
      BY <1>1 DEF Deserialize
    <2> HIDE DEF r
    <2> QED BY <2>1 DEF NewPage, EmptyFcn
  <1> HIDE DEF r
  <1>3. NoCaches(r)
    BY <1>1, <1>2 DEF NoCaches
  <1> QED BY <1>3 DEF r

\* A page that has been merkleized is sound when it was sound before.
LEMMA ValidatedTrue ==
    ASSUME NEW m, IInv(m), NEW k \in DOMAIN m.pages, PageTrue(m, k)
    PROVE  \A g \in DOMAIN PageMerkleRoot(m.pages[k]).Cache :
              PageMerkleRoot(m.pages[k]).Cache[g] = Tree(Contents(m))[Join(k, g)]
  <1>1. IsPage(m.pages[k])
    BY DEF IInv, IsMemory
  <1>2. DOMAIN PageMerkleRoot(m.pages[k]).Cache = PageNode
    BY <1>1, PageRootStep
  <1>3. PageNode \subseteq Nodes(PageDepth)
    BY PageNodes
  <1> QED BY <1>1, <1>2, <1>3, PageRootSame, PageSound

\* Merkleization from sound caches fills them with the hashes of the contents.
LEMMA MerkleizeSound ==
    ASSUME NEW m, IInv(m), Sound(m), NEW starts
    PROVE  /\ Sound(Merkleize(m, starts))
           /\ \A k \in PageKey : RootValid(m, k) => RootValid(Merkleize(m, starts), k)
  <1> DEFINE r       == Merkleize(m, starts)
             visited == Visited(m, starts)
  <1>1. Fills(m, r) /\ Contents(r) = Contents(m) /\ IInv(r)
    BY MerkleizeFills, MerklePure, MerkleizeStep
  <1>2. r.pages = [k \in DOMAIN m.pages |-> IF k \in visited /\ Linked(m, k)
                                            THEN PageMerkleRoot(m.pages[k]) ELSE m.pages[k]]
    BY DEF Merkleize, IInv, IsMemory
  <1> HIDE DEF r
  <1>3. ASSUME NEW k \in DOMAIN r.pages PROVE PageTrue(r, k)
    <2>1. k \in DOMAIN m.pages /\ PageTrue(m, k)
      BY <1>2 DEF Sound
    <2>2. r.pages[k] = PageMerkleRoot(m.pages[k]) \/ r.pages[k] = m.pages[k]
      BY <1>2
    <2> QED BY <1>1, <2>1, <2>2, ValidatedTrue DEF PageTrue
  <1>4. ASSUME NEW n \in DOMAIN r.Hashes PROVE r.Hashes[n] = Tree(Contents(r))[n]
    <2>1. r.Hashes[n] = MerkleizeNode(m)[n]
      BY <1>1 DEF Fills
    <2>2. n \in Nodes(PageKeySize)
      BY <1>1, ValidIsReturned
    <2> QED BY <1>1, <2>1, <2>2, TrieSound
  <1>5. ASSUME NEW k \in PageKey, RootValid(m, k) PROVE RootValid(r, k)
    <2> SUFFICES ASSUME k \in DOMAIN m.pages PROVE Root \in DOMAIN r.pages[k].Cache
      BY <1>2 DEF RootValid
    <2>1. r.pages[k] = PageMerkleRoot(m.pages[k]) \/ r.pages[k] = m.pages[k]
      BY <1>2
    <2>2. DOMAIN PageMerkleRoot(m.pages[k]).Cache = PageNode
      BY PageRootStep DEF IInv, IsMemory
    <2> QED BY <1>5, <2>1, <2>2, RootIsPageNode DEF RootValid
  <1> QED BY <1>3, <1>4, <1>5 DEF Sound, r

\* GenerateProof reaches the page of a leaf whenever there is one.
LEMMA ProofReaches ==
    ASSUME NEW m, IInv(m), NEW key \in PageKey
    PROVE  ProofPage(m, key) <=> key \in DOMAIN m.pages
  <1>1. ASSUME key \in DOMAIN m.pages PROVE ReachesPage(m, key)
    <2>1. ReachedLevels(m, key) = Levels
      BY <1>1, ReachesAllocated
    <2>2. PICK i \in Levels : LevelDepths[i + 1] = PageKeySize
      <3> DEFINE i == Len(LevelDepths) - 1
      <3>1. i \in Levels /\ i + 1 = Len(LevelDepths)
        BY LevelsAssumption DEF Levels
      <3> QED BY <3>1 DEF PageKeySize
    <2>3. Prefix(key, PageKeySize) \in m.Children
      BY <1>1, <2>2 DEF IInv, SpansPages
    <2>4. key \in m.Children
      BY <2>3, PrefixNode
    <2> QED BY <2>1, <2>4 DEF ReachesPage
  <1> QED BY <1>1 DEF ProofPage

\* MerkleProof from sound caches keeps them sound, and makes the page valid.
LEMMA ProofSound ==
    ASSUME NEW m, IInv(m), Sound(m), NEW leaf \in Leaf
    PROVE  LET r == MerkleProof(m, leaf)
           IN  /\ Sound(r)
               /\ RootValid(r, PageOf(leaf))
               /\ DOMAIN r.pages = DOMAIN m.pages
               /\ \A k \in PageKey : RootValid(m, k) => RootValid(r, k)
  <1> DEFINE key  == PageOf(leaf)
             full == SetPage(m, key, PageMerkleRoot(m.pages[key]))
             page == IF ProofPage(m, key) THEN full ELSE m
             sibs == {Sibling(Prefix(key, d)) : d \in ProofDepths(m, key)}
             r    == Merkleize(page, sibs)
  <1>1. MerkleProof(m, leaf) = r
    BY DEF MerkleProof
  <1>2. key \in PageKey
    BY LeafParts
  <1>3. ProofPage(m, key) <=> key \in DOMAIN m.pages
    BY <1>2, ProofReaches
  <1>4. CASE key \in DOMAIN m.pages
    <2>1. page = full
      BY <1>3, <1>4
    <2>2. IInv(full)
      BY <1>4, ValidateStep
    <2>3. full.pages = [k \in DOMAIN m.pages |->
                              IF k = key THEN PageMerkleRoot(m.pages[key]) ELSE m.pages[k]]
          /\ full.Hashes = m.Hashes
      BY SetPageParts DEF IInv
    <2>4. DOMAIN PageMerkleRoot(m.pages[key]).Cache = PageNode
            /\ PageMerkleRoot(m.pages[key]).Data = m.pages[key].Data
      BY <1>4, PageRootStep, PageRootSame DEF IInv, IsMemory
    <2> HIDE DEF full, key, r, sibs
    <2>5. \A k \in DOMAIN m.pages : full.pages[k].Data = m.pages[k].Data
      BY <2>3, <2>4
    <2>6. DOMAIN full.pages = DOMAIN m.pages
      BY <2>3
    <2>7. Contents(full) = Contents(m)
      BY <2>5, <2>6 DEF Contents
    <2>8. Sound(full)
      <3>1. ASSUME NEW k \in DOMAIN full.pages PROVE PageTrue(full, k)
        <4>1. k \in DOMAIN m.pages /\ PageTrue(m, k)
          BY <2>6 DEF Sound
        <4>2. full.pages[k] = PageMerkleRoot(m.pages[k]) \/ full.pages[k] = m.pages[k]
          BY <2>3
        <4> QED BY <2>7, <4>1, <4>2, ValidatedTrue DEF PageTrue
      <3> QED BY <2>3, <2>7, <3>1 DEF Sound
    <2>9. RootValid(full, key) /\ \A k \in PageKey : RootValid(m, k) => RootValid(full, k)
      BY <2>3, <2>4, RootIsPageNode DEF RootValid
    <2>10. Sound(r) /\ DOMAIN r.pages = DOMAIN full.pages
             /\ \A k \in PageKey : RootValid(full, k) => RootValid(r, k)
      <3>1. Fills(full, Merkleize(full, sibs))
        BY <2>2, MerkleizeFills
      <3> QED BY <2>1, <2>2, <2>8, <3>1, MerkleizeSound DEF Fills, r
    <2> QED BY <1>1, <1>2, <2>6, <2>9, <2>10 DEF key, r
  <1>5. CASE key \notin DOMAIN m.pages
    <2>1. page = m
      BY <1>3, <1>5
    <2> HIDE DEF page, sibs
    <2>2. Sound(r) /\ DOMAIN r.pages = DOMAIN m.pages
            /\ \A k \in PageKey : RootValid(m, k) => RootValid(r, k)
      BY <2>1, MerkleizeSound, MerkleizeFills DEF Fills
    <2>3. RootValid(r, key)
      BY <1>5, <2>2 DEF RootValid
    <2> QED BY <1>1, <2>2, <2>3
  <1> QED BY <1>4, <1>5

\* A lookup keeps what is cached of the tree.
LEMMA LookupSound ==
    ASSUME NEW m, IInv(m), NEW key \in PageKey
    PROVE  LET r == pageLookup(m, key)
           IN  /\ Sound(m) => Sound(r)
               /\ NoCaches(m) => NoCaches(r)
               /\ \A k \in PageKey : RootValid(m, k) => RootValid(r, k)
  <1> DEFINE r == pageLookup(m, key)
  <1>1. r.pages = m.pages /\ r.Hashes = m.Hashes
    BY LookupParts DEF IInv
  <1>2. Contents(r) = Contents(m)
    BY LookupPure
  <1> HIDE DEF r
  <1> QED BY <1>1, <1>2 DEF Sound, PageTrue, NoCaches, RootValid, r

\* So does a read.
LEMMA GetSound ==
    ASSUME NEW m, IInv(m), NEW addr \in Address, NEW n
    PROVE  LET r == GetUnaligned(m, addr, n)
           IN  /\ IInv(r)
               /\ Contents(r) = Contents(m)
               /\ Sound(m) => Sound(r)
               /\ NoCaches(m) => NoCaches(r)
               /\ \A k \in PageKey : RootValid(m, k) => RootValid(r, k)
  <1> DEFINE next == NextLeaf(addr.leaf)
             here == pageLookup(m, PageOf(addr.leaf))
             both == pageLookup(here, PageOf(next))
  <1>1. PageOf(addr.leaf) \in PageKey /\ PageOf(next) \in PageKey
    <2>1. addr.leaf \in Leaf
      BY DEF Address
    <2> QED BY <2>1, LeafParts
  <1>2. /\ IInv(here) /\ Contents(here) = Contents(m)
        /\ Sound(m) => Sound(here)
        /\ NoCaches(m) => NoCaches(here)
        /\ \A k \in PageKey : RootValid(m, k) => RootValid(here, k)
    BY <1>1, LookupStep, LookupPure, LookupSound
  <1> HIDE DEF here
  <1>3. /\ IInv(both) /\ Contents(both) = Contents(here)
        /\ Sound(here) => Sound(both)
        /\ NoCaches(here) => NoCaches(both)
        /\ \A k \in PageKey : RootValid(here, k) => RootValid(both, k)
    BY <1>1, <1>2, LookupStep, LookupPure, LookupSound
  <1>4. GetUnaligned(m, addr, n) = here \/ GetUnaligned(m, addr, n) = both
    BY DEF GetUnaligned, here
  <1> HIDE DEF both
  <1> QED BY <1>2, <1>3, <1>4

\* Before a write, no slot above the leaf is valid in a page that was clean.
LEMMA PrepareCache ==
    ASSUME NEW m, IInv(m), NEW leaf \in Leaf
    PROVE  LET r   == PrepareWrite(m, leaf)
               key == PageOf(leaf)
           IN  /\ DOMAIN r.pages[key].Cache # {} =>
                    /\ key \in DOMAIN m.pages
                    /\ DOMAIN r.pages[key].Cache \subseteq DOMAIN m.pages[key].Cache
               /\ \A g \in DOMAIN r.pages[key].Cache :
                    /\ r.pages[key].Cache[g] = m.pages[key].Cache[g]
                    /\ Clean(m, key) =>
                         \A d \in 0..(PageDepth - 1) : g # Prefix(InPage(leaf), d)
  <1> DEFINE key  == PageOf(leaf)
             path == {Prefix(InPage(leaf), d) : d \in 0..(PageDepth - 1)}
  <1>1. key \in PageKey
    BY LeafParts
  <1>2. CASE key \in DOMAIN m.pages
    <2> DEFINE a == pageLookup(m, key)
               r == Invalidate(a, leaf)
    <2>1. PrepareWrite(m, leaf) = r
      BY <1>1, <1>2, LookupStep DEF PrepareWrite
    <2>2. IInv(a)
      BY <1>1, LookupStep
    <2>3. a.pages = m.pages
      BY LookupParts DEF IInv
    <2> HIDE DEF a
    <2>4. r.pages[key] = IF Root \in DOMAIN m.pages[key].Cache
                         THEN PageInvalidate(m.pages[key], InPage(leaf))
                         ELSE m.pages[key]
      BY <1>2, <2>2, <2>3, InvalidateParts
    <2>5. IsPage(m.pages[key])
      BY <1>2 DEF IInv, IsMemory
    <2> HIDE DEF r, key
    <2>6. CASE Root \in DOMAIN m.pages[key].Cache
      <3> DEFINE q == PageInvalidate(m.pages[key], InPage(leaf))
      <3>1. /\ DOMAIN q.Cache = DOMAIN m.pages[key].Cache \ path
            /\ \A g \in DOMAIN q.Cache : q.Cache[g] = m.pages[key].Cache[g]
        BY <2>5, PageInvalidateParts
      <3>2. r.pages[key] = q
        BY <2>4, <2>6
      <3> HIDE DEF q, path
      <3>3. /\ DOMAIN r.pages[key].Cache = DOMAIN m.pages[key].Cache \ path
            /\ \A g \in DOMAIN r.pages[key].Cache : r.pages[key].Cache[g] = m.pages[key].Cache[g]
        BY <3>1, <3>2
      <3> QED BY <1>2, <2>1, <3>3 DEF key, path
    <2>7. CASE Root \notin DOMAIN m.pages[key].Cache
      <3>1. r.pages[key] = m.pages[key]
        BY <2>4, <2>7
      <3>2. Clean(m, key) => DOMAIN m.pages[key].Cache = {}
        BY <1>2, <2>7 DEF Clean
      <3> QED BY <1>2, <2>1, <3>1, <3>2 DEF key
    <2> QED BY <2>6, <2>7
  <1>3. CASE key \notin DOMAIN m.pages
    <2> DEFINE r == AllocPage(m, key)
    <2>1. PrepareWrite(m, leaf) = r
      BY <1>1, <1>3, LookupStep DEF PrepareWrite
    <2>2. IsMemory(m)
      BY DEF IInv
    <2> HIDE DEF key, path
    <2>3. r.pages[key] = NewPage
      <3>1. /\ r.pages = [k \in DOMAIN m.pages \union {key} |->
                                IF k = key THEN NewPage ELSE m.pages[k]]
            /\ r.Children = m.Children \union {Prefix(key, LevelDepths[i + 1]) : i \in Levels}
            /\ r.HashExists = m.HashExists \union {Prefix(key, d) : d \in 0..(PageKeySize - 1)}
            /\ r.Hashes = Restrict(m.Hashes, DOMAIN m.Hashes
                                              \ {Prefix(key, d) : d \in 0..(PageKeySize - 1)})
        BY <1>1, <2>2, AllocParts
      <3> HIDE DEF r
      <3> QED BY <3>1
    <2> HIDE DEF r
    <2>4. DOMAIN r.pages[key].Cache = {}
      BY <2>3 DEF NewPage, EmptyFcn
    <2> QED BY <2>1, <2>4 DEF key
  <1> QED BY <1>2, <1>3

\* A write within a leaf of a clean page keeps sound caches sound: what it does
\* not clear is not above the leaf.
LEMMA SetSound ==
    ASSUME NEW m, IInv(m), NEW addr \in Address, NEW dat \in Dat,
           addr.byte + Len(dat) <= LeafBytes
    PROVE  LET r == SetUnaligned(m, addr, dat)
           IN  /\ IInv(r)
               /\ Contents(r) = PutLeaf(Contents(m), addr.leaf, addr.byte, dat, 1, Len(dat))
               /\ Sound(m) /\ Clean(m, PageOf(addr.leaf)) => Sound(r)
               /\ NoCaches(m) => NoCaches(r)
  <1> DEFINE leaf == addr.leaf
             key  == PageOf(leaf)
             prep == PrepareWrite(m, leaf)
             r    == CopyIn(prep, leaf, addr.byte, dat, 1, Len(dat))
             c    == Contents(m)
             e    == Contents(r)
  <1>1. PICK n \in 1..LeafBytes : dat \in [1..n -> Byte]
    BY DEF Dat
  <1>2. Len(dat) = n
    BY <1>1, PageAssumption
  <1>3. leaf \in Leaf /\ addr.byte \in 0..(LeafBytes - 1)
    BY DEF Address
  <1>4. SetUnaligned(m, addr, dat) = r
    <2>1. Len(dat) <= LeafBytes - addr.byte
      BY <1>2, <1>3, PageAssumption
    <2> QED BY <2>1 DEF SetUnaligned
  <1>5. key \in PageKey /\ InPage(leaf) \in LeafInPage
    BY <1>3, LeafParts
  <1>6. IInv(prep) /\ DOMAIN prep.pages = DOMAIN m.pages \union {key}
    BY <1>3, PrepareStep
  <1>7. AgreeOff(m, prep, key) /\ PathClear(prep, key) /\ Contents(prep) = c
    BY <1>3, PrepareParts
  <1>8. IInv(r)
    BY <1>4, SetStep
  <1>9. /\ r.Hashes = prep.Hashes
        /\ DOMAIN r.pages = DOMAIN prep.pages
        /\ \A k \in DOMAIN prep.pages : k # key => r.pages[k] = prep.pages[k]
        /\ r.pages[key].Cache = prep.pages[key].Cache
    BY <1>3, <1>6, CopyParts
  <1>10. e = PutLeaf(c, leaf, addr.byte, dat, 1, Len(dat))
    BY <1>3, <1>6, <1>7, CopyContents
  <1> HIDE DEF r, prep, c, e
  <1>11. ASSUME NEW k \in DOMAIN r.pages, k # key
         PROVE  k \in DOMAIN m.pages /\ r.pages[k] = m.pages[k]
    <2>1. k \in PageKey
      BY <1>8 DEF IInv, IsMemory
    <2>2. k \in OffPath(key)
      BY <1>5, <1>11, <2>1, KeyOffPath
    <2> QED BY <1>7, <1>9, <1>11, <2>2 DEF AgreeOff
  <1>12. ASSUME NEW h \in DOMAIN r.Hashes
         PROVE  /\ h \in DOMAIN m.Hashes /\ r.Hashes[h] = m.Hashes[h]
                /\ h \in OffPath(key)
    <2>1. h \in RadixNode
      BY <1>8 DEF IInv, IsMemory
    <2>2. h \in Nodes(PageKeySize) /\ Len(h) < PageKeySize
      BY <2>1, TrieNodes
    <2>3. h \in OffPath(key)
      <3>1. Len(h) \in 0..(PageKeySize - 1)
        BY <2>2, NodeLen, Sizes
      <3> QED BY <1>7, <1>9, <2>2, <3>1 DEF OffPath, PathClear
    <2> QED BY <1>7, <1>9, <2>3 DEF AgreeOff
  <1>13. ASSUME NoCaches(m) PROVE NoCaches(r)
    <2>1. DOMAIN r.Hashes = {}
      BY <1>12, <1>13 DEF NoCaches
    <2>2. ASSUME NEW k \in DOMAIN r.pages PROVE DOMAIN r.pages[k].Cache = {}
      <3>1. CASE k # key
        BY <1>11, <1>13, <2>2, <3>1 DEF NoCaches
      <3>2. CASE k = key
        <4>1. DOMAIN prep.pages[key].Cache # {} =>
                    /\ key \in DOMAIN m.pages
                    /\ DOMAIN prep.pages[key].Cache \subseteq DOMAIN m.pages[key].Cache
          BY <1>3, PrepareCache DEF prep
        <4> QED BY <1>9, <1>13, <3>2, <4>1 DEF NoCaches
      <3> QED BY <3>1, <3>2
    <2> QED BY <2>1, <2>2 DEF NoCaches
  <1>14. \A o \in Beside(leaf) : Tree(e)[o] = Tree(c)[o]
    <2>1. \A l \in Leaf : l # leaf => e[l] = c[l]
      BY <1>10 DEF PutLeaf
    <2> QED BY <1>3, <2>1, BesideSame
  <1>15. ASSUME Sound(m), Clean(m, key) PROVE Sound(r)
    <2>1. ASSUME NEW h \in DOMAIN r.Hashes PROVE r.Hashes[h] = Tree(e)[h]
      <3>1. /\ h \in DOMAIN m.Hashes /\ r.Hashes[h] = m.Hashes[h]
            /\ h \in Nodes(PageKeySize) /\ h # Prefix(key, Len(h))
        BY <1>12, <2>1 DEF OffPath
      <3>2. /\ PageKeySize \in Nat /\ AddrSize \in Nat /\ PageKeySize \in 0..AddrSize
        BY Sizes, PageAssumption DEF AddrSize
      <3>3. Len(h) \in 0..PageKeySize
        BY <3>1, <3>2, NodeLen
      <3>4. h \in Nodes(AddrSize)
        BY <3>1, TrieInTree
      <3>5. Prefix(key, Len(h)) = Prefix(leaf, Len(h))
        BY <3>2, <3>3, PrefixPrefix DEF PageOf
      <3>6. h \in Beside(leaf)
        BY <3>1, <3>4, <3>5 DEF Beside
      <3> QED BY <1>14, <1>15, <3>1, <3>6 DEF Sound, c
    <2>2. ASSUME NEW k \in DOMAIN r.pages, NEW g \in DOMAIN r.pages[k].Cache
          PROVE  r.pages[k].Cache[g] = Tree(e)[Join(k, g)]
      <3>1. k \in PageKey /\ g \in PageNode /\ g \in Nodes(PageDepth)
        BY <1>8, PageNodes DEF IInv, IsMemory, IsPage
      <3>2. CASE k # key
        <4>1. k \in DOMAIN m.pages /\ r.pages[k] = m.pages[k]
          BY <1>11, <3>2
        <4>2. Join(k, g) \in Beside(leaf)
          BY <1>3, <3>1, <3>2, JoinBeside
        <4>3. m.pages[k].Cache[g] = Tree(c)[Join(k, g)]
          BY <1>15, <2>2, <4>1 DEF Sound, PageTrue, c
        <4> QED BY <1>14, <4>1, <4>2, <4>3
      <3>3. CASE k = key
        <4>1. g \in DOMAIN prep.pages[key].Cache
          BY <1>9, <2>2, <3>3
        <4>2. /\ key \in DOMAIN m.pages
              /\ g \in DOMAIN m.pages[key].Cache
              /\ prep.pages[key].Cache[g] = m.pages[key].Cache[g]
              /\ \A d \in 0..(PageDepth - 1) : g # Prefix(InPage(leaf), d)
          BY <1>3, <1>15, <4>1, PrepareCache DEF prep
        <4>3. Len(g) \in 0..(PageDepth - 1)
          BY <3>1, PageNodes, NodeLen, PageAssumption
        <4>4. Join(k, g) \in Beside(leaf)
          BY <1>3, <3>1, <4>2, <4>3, JoinBeside
        <4>5. m.pages[key].Cache[g] = Tree(c)[Join(key, g)]
          BY <1>15, <4>2 DEF Sound, PageTrue, c
        <4> QED BY <1>9, <1>14, <3>3, <4>2, <4>4, <4>5
      <3> QED BY <3>2, <3>3
    <2> QED BY <2>1, <2>2 DEF Sound, PageTrue, e
  <1> QED BY <1>4, <1>8, <1>10, <1>13, <1>15 DEF c, e

-----------------------------------------------------------------------------
(* Merkle proofs.                                                          *)

\* The sibling of a node differs from it in the last bit.
LEMMA SiblingNode ==
    ASSUME NEW D \in Nat, NEW n \in Nodes(D), Len(n) > 0
    PROVE  /\ Sibling(n) \in Nodes(D)
           /\ Len(Sibling(n)) = Len(n)
           /\ \A i \in 1..(Len(n) - 1) : Sibling(n)[i] = n[i]
           /\ Sibling(n)[Len(n)] = 1 - n[Len(n)]
           /\ Sibling(n) # n
  <1>1. Len(n) \in 0..D /\ n \in [1..Len(n) -> Bit]
    BY NodeLen
  <1> DEFINE d == Len(n)
             s == Sibling(n)
  <1>2. d \in 1..D
    BY <1>1
  <1>3. s = [i \in 1..d |-> IF i = d THEN 1 - n[i] ELSE n[i]]
    BY DEF Sibling
  <1>4. \A i \in 1..d : n[i] \in Bit /\ 1 - n[i] \in Bit /\ 1 - n[i] # n[i]
    BY <1>1 DEF Bit
  <1> HIDE DEF d, s
  <1>5. s \in [1..d -> Bit]
    BY <1>3, <1>4
  <1>6. d \in 0..D /\ Len(s) = d
    BY <1>2, <1>5
  <1>7. d \in 1..d /\ \A i \in 1..(d - 1) : i \in 1..d /\ i # d
    BY <1>2
  <1>8. /\ \A i \in 1..(d - 1) : s[i] = n[i]
        /\ s[d] = 1 - n[d]
    BY <1>3, <1>7
  <1>9. s # n
    BY <1>4, <1>7, <1>8
  <1> QED BY <1>5, <1>6, <1>8, <1>9 DEF Nodes, d, s

\* The two nodes below a node on the way to a leaf are the next one on the way
\* and its sibling.
LEMMA PathChildren ==
    ASSUME NEW leaf \in Leaf, NEW d \in 0..(AddrSize - 1)
    PROVE  /\ leaf[d + 1] \in Bit
           /\ Append(Prefix(leaf, d), leaf[d + 1]) = Prefix(leaf, d + 1)
           /\ Append(Prefix(leaf, d), 1 - leaf[d + 1]) = Sibling(Prefix(leaf, d + 1))
  <1> DEFINE D == AddrSize
             n == Prefix(leaf, d)
             o == Prefix(leaf, d + 1)
             s == Sibling(o)
             b == leaf[d + 1]
  <1>1. D \in Nat /\ leaf \in Nodes(D) /\ Len(leaf) = D
    BY LeafNodes
  <1>2. d \in Nat /\ d < D /\ d \in 0..Len(leaf) /\ d + 1 \in 0..Len(leaf) /\ d + 1 \in 1..D
    BY <1>1
  <1>3. b \in Bit /\ 1 - b \in Bit
    BY <1>2 DEF Leaf, Bit
  <1>4. /\ n \in Nodes(D) /\ Len(n) = d /\ \A i \in 1..d : n[i] = leaf[i]
        /\ o \in Nodes(D) /\ Len(o) = d + 1 /\ \A i \in 1..(d + 1) : o[i] = leaf[i]
    BY <1>1, <1>2, PrefixOfNode
  <1> HIDE DEF n, o, b, D
  <1>5. /\ s \in Nodes(D) /\ Len(s) = d + 1
        /\ \A i \in 1..d : s[i] = o[i]
        /\ s[d + 1] = 1 - o[d + 1]
    <2>1. Len(o) > 0 /\ Len(o) - 1 = d
      BY <1>2, <1>4
    <2> QED BY <1>1, <1>4, <2>1, SiblingNode
  <1>6. o[d + 1] = b
    BY <1>2, <1>4 DEF b
  <1> HIDE DEF s
  <1>7. ASSUME NEW x \in Bit, NEW p \in Nodes(D), Len(p) = d + 1, p[d + 1] = x,
               \A i \in 1..d : p[i] = leaf[i]
        PROVE  Append(n, x) = p
    <2>1. /\ Append(n, x) \in Nodes(D) /\ Len(Append(n, x)) = d + 1
          /\ \A i \in 1..d : Append(n, x)[i] = n[i]
          /\ Append(n, x)[d + 1] = x
      BY <1>1, <1>2, <1>4, ChildNode
    <2>2. ASSUME NEW i \in 1..(d + 1) PROVE Append(n, x)[i] = p[i]
      <3>1. i \in 1..d \/ i = d + 1
        BY <1>2
      <3> QED BY <1>4, <1>7, <2>1, <3>1
    <2> QED BY <1>1, <1>7, <2>1, <2>2, NodeEqual
  <1>8. \A i \in 1..d : i \in 1..(d + 1)
    BY <1>2
  <1>9. Append(n, b) = o
    BY <1>3, <1>4, <1>6, <1>7, <1>8
  <1>10. Append(n, 1 - b) = s
    BY <1>3, <1>4, <1>5, <1>6, <1>7, <1>8
  <1> QED BY <1>3, <1>9, <1>10 DEF n, o, s, b

\* The siblings on the way to a leaf are beside it.
LEMMA SiblingBeside ==
    ASSUME NEW leaf \in Leaf, NEW d \in 1..AddrSize
    PROVE  Sibling(Prefix(leaf, d)) \in Beside(leaf)
  <1>1. AddrSize \in Nat /\ leaf \in Nodes(AddrSize) /\ Len(leaf) = AddrSize
    BY LeafNodes
  <1>2. d \in 0..Len(leaf)
    BY <1>1
  <1>3. Prefix(leaf, d) \in Nodes(AddrSize) /\ Len(Prefix(leaf, d)) = d
    BY <1>1, <1>2, PrefixOfNode
  <1>4. /\ Sibling(Prefix(leaf, d)) \in Nodes(AddrSize)
        /\ Len(Sibling(Prefix(leaf, d))) = d
        /\ Sibling(Prefix(leaf, d)) # Prefix(leaf, d)
    BY <1>1, <1>3, SiblingNode
  <1> QED BY <1>4 DEF Beside

\* The proof of a leaf of the contents c.
ProofOf(c, leaf) ==
    [ leaf     |-> c[leaf],
      siblings |-> [d \in 1..AddrSize |-> Tree(c)[Sibling(Prefix(leaf, d))]] ]

\* A sibling in a page is a sibling in the tree.
LEMMA JoinSibling ==
    ASSUME NEW leaf \in Leaf, NEW j \in 1..PageDepth
    PROVE  /\ Sibling(Prefix(InPage(leaf), j)) \in Nodes(PageDepth)
           /\ Join(PageOf(leaf), Sibling(Prefix(InPage(leaf), j)))
                = Sibling(Prefix(leaf, PageKeySize + j))
  <1> DEFINE k == PageOf(leaf)
             g == Prefix(InPage(leaf), j)
             t == Sibling(g)
             d == PageKeySize + j
             n == Prefix(leaf, d)
             s == Sibling(n)
  <1>1. PageKeySize \in Nat /\ PageDepth \in Nat /\ AddrSize = PageKeySize + PageDepth
    BY Sizes, PageAssumption DEF AddrSize
  <1>2. /\ k \in PageKey
        /\ InPage(leaf) \in Nodes(PageDepth) /\ Len(InPage(leaf)) = PageDepth
    BY LeafParts, PageNodes
  <1>3. /\ g \in Nodes(PageDepth) /\ Len(g) = j
        /\ \A i \in 1..j : g[i] = InPage(leaf)[i]
    BY <1>1, <1>2, PrefixOfNode
  <1>4. AddrSize \in Nat /\ leaf \in Nodes(AddrSize) /\ Len(leaf) = AddrSize
    BY LeafNodes
  <1>5. d \in 0..Len(leaf) /\ d > 0
    BY <1>1, <1>4
  <1>6. n \in Nodes(AddrSize) /\ Len(n) = d /\ \A i \in 1..d : n[i] = leaf[i]
    BY <1>4, <1>5, PrefixOfNode
  <1> HIDE DEF g, n, k
  <1>7. /\ t \in Nodes(PageDepth) /\ Len(t) = j
        /\ \A i \in 1..(j - 1) : t[i] = g[i]
        /\ t[j] = 1 - g[j]
    <2>1. Len(g) > 0
      BY <1>3
    <2>2. /\ t \in Nodes(PageDepth) /\ Len(t) = Len(g)
          /\ \A i \in 1..(Len(g) - 1) : t[i] = g[i]
          /\ t[Len(g)] = 1 - g[Len(g)]
      BY <1>1, <1>3, <2>1, SiblingNode
    <2> QED BY <1>3, <2>2
  <1>8. /\ s \in Nodes(AddrSize) /\ Len(s) = d
        /\ \A i \in 1..(d - 1) : s[i] = n[i]
        /\ s[d] = 1 - n[d]
    BY <1>4, <1>5, <1>6, SiblingNode
  <1> HIDE DEF t, s
  <1>9. /\ Join(k, t) \in Nodes(AddrSize)
        /\ Len(Join(k, t)) = PageKeySize + j
        /\ \A i \in 1..PageKeySize : Join(k, t)[i] = k[i]
        /\ \A i \in 1..j : Join(k, t)[PageKeySize + i] = t[i]
    BY <1>2, <1>7, JoinNode
  <1>10. /\ \A i \in 1..PageKeySize : k[i] = leaf[i]
         /\ \A i \in 1..PageDepth : InPage(leaf)[i] = leaf[PageKeySize + i]
    BY DEF k, PageOf, Prefix, InPage
  <1>11. ASSUME NEW i \in 1..d PROVE Join(k, t)[i] = s[i]
    <2>1. CASE i <= PageKeySize
      <3>1. i \in 1..PageKeySize /\ i \in 1..(d - 1)
        BY <1>1, <2>1
      <3> QED BY <1>6, <1>8, <1>9, <1>10, <3>1
    <2>2. CASE i > PageKeySize /\ i # d
      <3> DEFINE x == i - PageKeySize
      <3>1. /\ x \in 1..j /\ x \in 1..(j - 1) /\ x \in 1..PageDepth
            /\ PageKeySize + x = i /\ i \in 1..(d - 1)
        BY <1>1, <2>2
      <3> HIDE DEF x
      <3>2. Join(k, t)[i] = leaf[i]
        BY <1>3, <1>7, <1>9, <1>10, <3>1
      <3> QED BY <1>6, <1>8, <3>1, <3>2
    <2>3. CASE i = d
      <3>1. j \in 1..j /\ j \in 1..PageDepth /\ d \in 1..d
        BY <1>1
      <3>2. Join(k, t)[d] = 1 - leaf[d]
        BY <1>3, <1>7, <1>9, <1>10, <3>1
      <3> QED BY <1>6, <1>8, <2>3, <3>1, <3>2
    <2> QED BY <1>1, <2>1, <2>2, <2>3
  <1>12. Join(k, t) = s
    BY <1>4, <1>8, <1>9, <1>11, NodeEqual
  <1> QED BY <1>7, <1>12 DEF t, s, k, g, n

\* The levels of the trie are further and further down.
LEMMA LevelsGrow ==
    ASSUME NEW i \in Levels, NEW j \in 1..i
    PROVE  LevelDepths[j] \in Nat /\ LevelDepths[j] <= LevelDepths[i]
  <1> DEFINE N == Len(LevelDepths) - 1
             T == {t \in 0..N : \A x \in 1..(t + 1) : LevelDepths[x] <= LevelDepths[t + 1]}
  <1>1. N \in Nat /\ Levels = 1..N /\ \A x \in 1..(N + 1) : LevelDepths[x] \in Nat
    BY LevelsAssumption DEF Levels
  <1>2. 0 \in T
    BY <1>1
  <1>3. ASSUME NEW t \in 0..(N - 1), t \in T PROVE t + 1 \in T
    <2>1. t + 1 \in Levels /\ LevelDepths[t + 1] < LevelDepths[(t + 1) + 1]
      BY <1>1, LevelsAssumption
    <2>2. LevelDepths[t + 1] \in Nat /\ LevelDepths[(t + 1) + 1] \in Nat
      BY <1>1
    <2>3. ASSUME NEW x \in 1..((t + 1) + 1) PROVE LevelDepths[x] <= LevelDepths[(t + 1) + 1]
      <3>1. CASE x \in 1..(t + 1)
        <4>1. LevelDepths[x] <= LevelDepths[t + 1] /\ LevelDepths[x] \in Nat
          BY <1>1, <1>3, <3>1
        <4> QED BY <2>1, <2>2, <4>1
      <3>2. CASE x = (t + 1) + 1
        BY <2>2, <3>2
      <3> QED BY <3>1, <3>2
    <2> QED BY <1>1, <2>3
  <1> HIDE DEF T
  <1>4. 0..N \subseteq T
    BY <1>1, <1>2, <1>3, NatInd
  <1>5. i - 1 \in 0..N /\ (i - 1) + 1 = i /\ j \in 1..(N + 1)
    BY <1>1
  <1>6. i - 1 \in T
    BY <1>4, <1>5
  <1> QED BY <1>1, <1>5, <1>6 DEF T

\* Where GenerateProof fills in zero hashes there is no page below the sibling.
LEMMA NoProofNoPage ==
    ASSUME NEW m, IInv(m), NEW key \in PageKey, NEW d \in 1..PageKeySize,
           d \notin ProofDepths(m, key)
    PROVE  \A k \in DOMAIN m.pages : Prefix(k, d) # Sibling(Prefix(key, d))
  <1> SUFFICES ASSUME NEW k \in DOMAIN m.pages, Prefix(k, d) = Sibling(Prefix(key, d))
               PROVE  FALSE
    OBVIOUS
  <1>1. PageKeySize \in Nat /\ d - 1 \in 0..(PageKeySize - 1)
    BY Sizes
  <1>2. PICK i \in Levels : LevelDepths[i] <= d - 1 /\ d - 1 < LevelDepths[i + 1]
    BY <1>1, LevelsAssumption
  <1>3. LevelDepths[i] \in Nat /\ LevelDepths[i + 1] \in Nat
    BY Sizes
  <1>4. LevelDepths[i] < d /\ d <= LevelDepths[i + 1]
    BY <1>2, <1>3
  <1>5. i \notin ReachedLevels(m, key)
    BY <1>4 DEF ProofDepths
  <1>6. PICK j \in 2..i : Prefix(key, LevelDepths[j]) \notin m.Children
    BY <1>5 DEF ReachedLevels
  <1>7. j \in 1..i /\ j - 1 \in Levels /\ (j - 1) + 1 = j
    BY LevelsAssumption DEF Levels
  <1>8. LevelDepths[j] \in Nat /\ LevelDepths[j] <= LevelDepths[i]
    BY <1>7, LevelsGrow
  <1>9. Prefix(k, LevelDepths[j]) \in m.Children
    BY <1>7 DEF IInv, SpansPages
  <1> DEFINE e == LevelDepths[j]
  <1>10. e \in 0..d /\ \A x \in 1..e : x \in 1..(d - 1)
    BY <1>3, <1>4, <1>8
  <1>11. key \in Nodes(PageKeySize) /\ Len(key) = PageKeySize
    BY TrieNodes
  <1>12. Prefix(key, d) \in Nodes(PageKeySize) /\ Len(Prefix(key, d)) = d
    BY <1>1, <1>11, PrefixOfNode
  <1>13. \A x \in 1..(d - 1) : Sibling(Prefix(key, d))[x] = Prefix(key, d)[x]
    BY <1>1, <1>12, SiblingNode
  <1> HIDE DEF e
  <1>14. ASSUME NEW x \in 1..e PROVE k[x] = key[x]
    <2>1. x \in 1..(d - 1) /\ x \in 1..d
      BY <1>10
    <2>2. Prefix(k, d)[x] = k[x] /\ Prefix(key, d)[x] = key[x]
      BY <2>1 DEF Prefix
    <2> QED BY <1>13, <2>1, <2>2
  <1>15. Prefix(k, e) = Prefix(key, e)
    BY <1>14 DEF Prefix
  <1> QED BY <1>6, <1>9, <1>15 DEF e

\* With sound caches MerkleProof returns the proof of the leaf in the contents.
LEMMA ProofIsTrue ==
    ASSUME NEW m, IInv(m), Sound(m), NEW leaf \in Leaf
    PROVE  Proof(m, leaf) = ProofOf(Contents(m), leaf)
  <1> DEFINE key     == PageOf(leaf)
             c       == Contents(m)
             pageNow == PageHash(m.pages[key])
             hash    == MerkleizeNode(m)
             sib(d)  == IF d > PageKeySize
                        THEN IF ProofPage(m, key)
                             THEN pageNow[Sibling(Prefix(InPage(leaf), d - PageKeySize))]
                             ELSE zeroHashes[AddrSize - d]
                        ELSE IF d \in ProofDepths(m, key)
                             THEN hash[Sibling(Prefix(key, d))]
                             ELSE zeroHashes[AddrSize - d]
             value   == IF ProofPage(m, key) THEN pageNow[InPage(leaf)] ELSE ZeroLeaf
  <1>1. Proof(m, leaf) = [leaf |-> value, siblings |-> [d \in 1..AddrSize |-> sib(d)]]
    BY DEF Proof
  <1>2. key \in PageKey /\ InPage(leaf) \in LeafInPage /\ InPage(leaf) \in Nodes(PageDepth)
    BY LeafParts, PageNodes
  <1>3. ProofPage(m, key) <=> key \in DOMAIN m.pages
    BY <1>2, ProofReaches
  <1>4. key \in DOMAIN m.pages => \A g \in Nodes(PageDepth) : pageNow[g] = Tree(c)[Join(key, g)]
    BY PageSound DEF Sound
  <1>5. PageKeySize \in Nat /\ PageDepth \in Nat /\ AddrSize = PageKeySize + PageDepth
    BY Sizes, PageAssumption DEF AddrSize
  <1>6. value = c[leaf]
    <2>1. CASE key \in DOMAIN m.pages
      <3>1. value = Tree(c)[Join(key, InPage(leaf))]
        BY <1>2, <1>3, <1>4, <2>1
      <3>2. Join(key, InPage(leaf)) = leaf
        BY JoinLeaf
      <3> QED BY <3>1, <3>2, TreeAt
    <2>2. CASE key \notin DOMAIN m.pages
      <3>1. value = ZeroLeaf
        BY <1>3, <2>2
      <3>2. c[leaf] = ZeroLeaf
        BY <2>2 DEF Contents
      <3> QED BY <3>1, <3>2
    <2> QED BY <2>1, <2>2
  <1>7. ASSUME NEW d \in 1..AddrSize PROVE sib(d) = Tree(c)[Sibling(Prefix(leaf, d))]
    <2> DEFINE s == Sibling(Prefix(leaf, d))
    <2>1. AddrSize \in Nat /\ leaf \in Nodes(AddrSize) /\ Len(leaf) = AddrSize
      BY LeafNodes
    <2>2. Prefix(leaf, d) \in Nodes(AddrSize) /\ Len(Prefix(leaf, d)) = d
      BY <2>1, PrefixOfNode
    <2>3. /\ s \in Nodes(AddrSize) /\ Len(s) = d
          /\ \A i \in 1..(d - 1) : s[i] = Prefix(leaf, d)[i]
      BY <2>1, <2>2, SiblingNode
    <2>4. CASE d > PageKeySize /\ key \in DOMAIN m.pages
      <3> DEFINE j == d - PageKeySize
      <3>1. j \in 1..PageDepth /\ PageKeySize + j = d
        BY <1>5, <2>4
      <3>2. sib(d) = pageNow[Sibling(Prefix(InPage(leaf), j))]
        BY <1>3, <2>4
      <3> HIDE DEF j, sib, key, pageNow, c
      <3>3. /\ Sibling(Prefix(InPage(leaf), j)) \in Nodes(PageDepth)
            /\ Join(key, Sibling(Prefix(InPage(leaf), j))) = Sibling(Prefix(leaf, PageKeySize + j))
        BY <3>1, JoinSibling DEF key
      <3> QED BY <1>4, <2>4, <3>1, <3>2, <3>3
    <2>5. CASE d > PageKeySize /\ key \notin DOMAIN m.pages
      <3>1. sib(d) = zeroHashes[AddrSize - d]
        BY <1>3, <2>5
      <3>2. ASSUME NEW l \in Leaf, Prefix(l, d) = s PROVE c[l] = ZeroLeaf
        <4>1. PageOf(l) = key
          <5>1. ASSUME NEW i \in 1..PageKeySize PROVE l[i] = leaf[i]
            <6>1. i \in 1..(d - 1) /\ i \in 1..d
              BY <1>5, <2>5
            <6>2. Prefix(l, d)[i] = l[i] /\ Prefix(leaf, d)[i] = leaf[i]
              BY <6>1 DEF Prefix
            <6> QED BY <2>3, <3>2, <6>1, <6>2
          <5> QED BY <5>1 DEF PageOf, Prefix
        <4> QED BY <2>5, <4>1 DEF Contents
      <3> HIDE DEF s, sib, key, c
      <3>3. Tree(c)[s] = zeroHashes[AddrSize - d]
        BY <2>3, <3>2, EmptyTree
      <3> QED BY <3>1, <3>3 DEF s
    <2>6. CASE ~(d > PageKeySize)
      <3>1. d \in 1..PageKeySize /\ d \in 0..PageKeySize
        BY <1>5, <2>6
      <3>2. Prefix(key, d) = Prefix(leaf, d)
        BY <1>5, <3>1, PrefixPrefix DEF PageOf
      <3>3. s \in Nodes(PageKeySize)
        <4>1. Prefix(key, d) \in Nodes(PageKeySize) /\ Len(Prefix(key, d)) = d
          BY <1>2, <1>5, <3>1, TrieNodes, PrefixOfNode
        <4> QED BY <1>5, <3>1, <3>2, <4>1, SiblingNode
      <3>4. CASE d \in ProofDepths(m, key)
        <4>1. sib(d) = hash[Sibling(Prefix(key, d))]
          BY <2>6, <3>4
        <4> HIDE DEF sib, c, key, hash, s
        <4>2. hash[s] = Tree(c)[s]
          BY <3>3, TrieSound DEF hash, c
        <4> QED BY <3>2, <4>1, <4>2 DEF s
      <3>5. CASE d \notin ProofDepths(m, key)
        <4>1. sib(d) = zeroHashes[AddrSize - d]
          BY <2>6, <3>5
        <4>2. \A k \in DOMAIN m.pages : Prefix(k, d) # s
          BY <1>2, <3>1, <3>2, <3>5, NoProofNoPage
        <4> HIDE DEF sib, s, key, c
        <4>3. Tree(c)[s] = zeroHashes[AddrSize - d]
          BY <2>3, <3>3, <4>2, NoPageZero DEF c
        <4> QED BY <4>1, <4>3 DEF s
      <3> QED BY <3>4, <3>5
    <2> QED BY <2>4, <2>5, <2>6
  <1> HIDE DEF sib, value, c
  <1> QED BY <1>1, <1>6, <1>7 DEF ProofOf, c

=============================================================================
