---------------------------- MODULE LoaderProofs ----------------------------
(***************************************************************************)
(* Theorems about Loader, for every ELF file, every shape of the trie and  *)
(* every size of a page.                                                   *)
(***************************************************************************)
EXTENDS Loader, MemoryProofs

\* A memory nobody has merkleized yet: the only kind that SetMemoryRange, which
\* leaves the trie alone, is safe on.
Fresh(m) == IInv(m) /\ NoCaches(m)

\* The stages in which ranges are written, and those after the root is taken.
Building == {"machine", "segments", "symbols", "stack"}

Built == {"write", "loaded", "run"}

\* The inductive invariant: nothing is cached as long as a range may be written, no
\* range is under way once the trie is hashed, and the root is from then on that of
\* the memory, before it is written to the file and after it is read back.
LoadInv ==
    /\ IInv(mem)
    /\ stage \in Building => NoCaches(mem)
    /\ stage \in Built => Sound(mem) /\ root = TrueHash(mem)[Root]
    /\ range.open => stage \in Building
    /\ range.addr \in Nat
    /\ range.bytes \in Seq(Byte) /\ range.padding \in Seq(Byte)
    /\ file \in Files /\ sp \in Nat /\ next \in Nat \ {0}
    /\ stage = "loaded" => out = Serialize(mem)

-----------------------------------------------------------------------------
(* Addresses.                                                              *)

\* LeafAt gives a leaf.
LEMMA LeafAtLeaf == \A a : LeafAt(a) \in Leaf
  BY DEF LeafAt, Leaf, Bit

\* Division with remainder has one result.
LEMMA DivUnique ==
    ASSUME NEW a \in Nat, NEW d \in Nat \ {0}, NEW q \in Nat, NEW r \in Nat, r < d,
           a = d * q + r
    PROVE  a \div d = q /\ a % d = r
  OBVIOUS

\* A number is its quotient times the divisor and the remainder.
LEMMA DivParts ==
    ASSUME NEW a \in Nat, NEW d \in Nat \ {0}
    PROVE  /\ a \div d \in Nat /\ a % d \in Nat /\ a % d < d
           /\ a = d * (a \div d) + (a % d)
  <1>1. a % d \in Nat /\ a % d < d
    OBVIOUS
  <1>2. a \div d \in Nat
    OBVIOUS
  <1>3. a = d * (a \div d) + (a % d)
    OBVIOUS
  <1> QED BY <1>1, <1>2, <1>3

\* Dividing by twice as much halves the quotient.
LEMMA DivHalf ==
    ASSUME NEW a \in Nat, NEW d \in Nat \ {0}
    PROVE  a \div (2 * d) = (a \div d) \div 2
  <1> DEFINE q == a \div d
             r == a % d
             s == q \div 2
             t == q % 2
  <1>1. q \in Nat /\ r \in Nat /\ r < d /\ a = d * q + r
    BY DivParts
  <1> HIDE DEF q, r
  <1>2. s \in Nat /\ t \in {0, 1} /\ q = 2 * s + t
    BY <1>1
  <1> HIDE DEF s, t
  <1>3. 2 * d \in Nat \ {0}
    OBVIOUS
  <1>4. CASE t = 0
    <2>1. a = (2 * d) * s + r /\ r < 2 * d
      BY <1>1, <1>2, <1>4
    <2>2. a \div (2 * d) = s
      BY <1>1, <1>2, <1>3, <2>1, DivUnique
    <2> QED BY <2>2 DEF q, s
  <1>5. CASE t = 1
    <2>1. d * q = (2 * d) * s + d
      <3>1. d * (2 * s + 1) = d * (2 * s) + d
        BY <1>2
      <3>2. d * (2 * s) = (2 * d) * s
        BY <1>2
      <3> QED BY <1>2, <1>5, <3>1, <3>2
    <2>2. a = (2 * d) * s + (d + r) /\ d + r < 2 * d /\ d + r \in Nat
      <3> DEFINE p == (2 * d) * s
      <3>1. p \in Nat
        BY <1>2
      <3>2. a = (p + d) + r
        BY <1>1, <2>1
      <3> HIDE DEF p
      <3>3. a = p + (d + r) /\ d + r < 2 * d /\ d + r \in Nat
        BY <1>1, <3>1, <3>2
      <3> QED BY <3>3 DEF p
    <2>3. a \div (2 * d) = s
      BY <1>1, <1>2, <1>3, <2>2, DivUnique
    <2> QED BY <2>3 DEF q, s
  <1> QED BY <1>2, <1>4, <1>5

\* The bytes below a node of the tree at depth i.
Weight(i) == LeafBytes * 2 ^ (AddrSize - i)

\* They halve with every bit, from the whole memory to a page and to a leaf.
LEMMA Weights ==
    /\ \A i \in 0..AddrSize : Weight(i) \in Nat \ {0}
    /\ \A i \in 0..(AddrSize - 1) : Weight(i) = 2 * Weight(i + 1)
    /\ Weight(0) = AddrCount /\ Weight(AddrSize) = LeafBytes
    /\ Weight(PageKeySize) = PageBytes
  <1>1. AddrSize \in Nat /\ PageDepth \in Nat /\ PageKeySize \in 0..AddrSize
        /\ AddrSize - PageKeySize = PageDepth
    BY Sizes, PageAssumption DEF AddrSize
  <1>2. ASSUME NEW i \in 0..AddrSize PROVE Weight(i) \in Nat \ {0}
    <2>1. AddrSize - i \in 0..AddrSize
      BY <1>1
    <2>2. 2 ^ (AddrSize - i) \in Nat \ {0}
      BY <2>1, PowersAssumption
    <2> QED BY <2>2, PageAssumption DEF Weight
  <1>3. ASSUME NEW i \in 0..(AddrSize - 1) PROVE Weight(i) = 2 * Weight(i + 1)
    <2> DEFINE n == AddrSize - (i + 1)
    <2>1. n \in 0..AddrSize /\ AddrSize - i = n + 1
      BY <1>1
    <2>2. 2 ^ n \in Nat \ {0} /\ 2 ^ (n + 1) = 2 * 2 ^ n
      BY <2>1, PowersAssumption
    <2> DEFINE p == 2 ^ n
    <2>3. Weight(i) = LeafBytes * (2 * p) /\ Weight(i + 1) = LeafBytes * p
      BY <2>1, <2>2 DEF Weight
    <2> HIDE DEF p
    <2> QED BY <2>2, <2>3, PageAssumption DEF p
  <1>4. Weight(0) = AddrCount
    BY <1>1 DEF Weight, AddrCount
  <1>5. Weight(AddrSize) = LeafBytes
    BY <1>1, PowersAssumption, PageAssumption DEF Weight
  <1>6. Weight(PageKeySize) = PageBytes
    BY <1>1 DEF Weight, PageBytes
  <1> QED BY <1>2, <1>3, <1>4, <1>5, <1>6

\* The block one bit above a block.
LEMMA HalfWeight ==
    ASSUME NEW a \in Nat, NEW i \in 0..(AddrSize - 1)
    PROVE  a \div Weight(i) = (a \div Weight(i + 1)) \div 2
  <1>1. Weight(i + 1) \in Nat \ {0} /\ Weight(i) = 2 * Weight(i + 1)
    BY Weights, Sizes
  <1> QED BY <1>1, DivHalf

\* a and b agree in the first k bits.
Agree(a, b, k) == \A i \in 1..k : LeafAt(a)[i] = LeafAt(b)[i]

\* A bit of an address tells which half of a block it is in.
LEMMA BitOf ==
    ASSUME NEW a \in Nat, NEW i \in 1..AddrSize
    PROVE  /\ a \div Weight(i) \in Nat /\ a \div Weight(i - 1) \in Nat
           /\ a \div Weight(i) = 2 * (a \div Weight(i - 1)) + LeafAt(a)[i]
  <1>1. Weight(i) \in Nat \ {0} /\ Weight(i - 1) \in Nat \ {0}
    BY Weights, Sizes
  <1> DEFINE q == a \div Weight(i)
  <1>2. q \in Nat
    BY <1>1, DivParts
  <1>3. a \div Weight(i - 1) = q \div 2
    <2>1. i - 1 \in 0..(AddrSize - 1) /\ (i - 1) + 1 = i
      BY Sizes
    <2> QED BY <2>1, HalfWeight
  <1>4. LeafAt(a)[i] = IF q % 2 = 1 THEN 1 ELSE 0
    BY DEF LeafAt, Weight
  <1> HIDE DEF q
  <1>5. q = 2 * (q \div 2) + (IF q % 2 = 1 THEN 1 ELSE 0) /\ q \div 2 \in Nat
    BY <1>2
  <1> QED BY <1>2, <1>3, <1>4, <1>5 DEF q

\* The first k bits of an address tell which block of Weight(k) bytes it is in.
LEMMA AgreeBlock ==
    ASSUME NEW a \in Uint64, NEW b \in Uint64, NEW k \in 0..AddrSize
    PROVE  Agree(a, b, k) <=> a \div Weight(k) = b \div Weight(k)
  <1>0. AddrSize \in Nat /\ AddrCount \in Nat \ {0} /\ a \in Nat /\ b \in Nat
    BY Sizes, Weights DEF Uint64
  <1> DEFINE T == {i \in 0..AddrSize : Agree(a, b, i) <=> a \div Weight(i) = b \div Weight(i)}
  <1>1. 0 \in T
    <2>1. Agree(a, b, 0)
      BY DEF Agree
    <2>2. a \div AddrCount = 0 /\ b \div AddrCount = 0
      <3>1. a = AddrCount * 0 + a /\ a < AddrCount /\ b = AddrCount * 0 + b /\ b < AddrCount
        BY <1>0 DEF Uint64
      <3> QED BY <1>0, <3>1, DivUnique
    <2> QED BY <1>0, <2>1, <2>2, Weights
  <1>2. ASSUME NEW j \in 0..(AddrSize - 1), j \in T PROVE j + 1 \in T
    <2>1. j + 1 \in 1..AddrSize /\ (j + 1) - 1 = j
      BY <1>0
    <2> DEFINE qa == a \div Weight(j)
               qb == b \div Weight(j)
               ra == LeafAt(a)[j + 1]
               rb == LeafAt(b)[j + 1]
    <2>2. /\ qa \in Nat /\ qb \in Nat /\ ra \in {0, 1} /\ rb \in {0, 1}
          /\ a \div Weight(j + 1) = 2 * qa + ra /\ b \div Weight(j + 1) = 2 * qb + rb
      <3>1. ra \in {0, 1} /\ rb \in {0, 1}
        BY <2>1 DEF LeafAt
      <3> QED BY <1>0, <2>1, <3>1, BitOf
    <2>3. Agree(a, b, j + 1) <=> Agree(a, b, j) /\ ra = rb
      <3>1. 1..(j + 1) = 1..j \union {j + 1}
        OBVIOUS
      <3> QED BY <3>1 DEF Agree
    <2>4. Agree(a, b, j) <=> qa = qb
      BY <1>2
    <2> HIDE DEF qa, qb, ra, rb
    <2>5. (2 * qa + ra = 2 * qb + rb) <=> qa = qb /\ ra = rb
      BY <2>2
    <2> QED BY <1>0, <2>2, <2>3, <2>4, <2>5
  <1>3. 0..AddrSize \subseteq T
    <2> HIDE DEF T
    <2> QED BY <1>0, <1>1, <1>2, NatInd
  <1> QED BY <1>3

\* A page holds the addresses that agree in the bits of its key,
LEMMA SamePage ==
    ASSUME NEW a \in Uint64, NEW b \in Uint64
    PROVE  PageOf(LeafAt(a)) = PageOf(LeafAt(b)) <=> a \div PageBytes = b \div PageBytes
  <1>1. PageKeySize \in 0..AddrSize /\ Weight(PageKeySize) = PageBytes
    BY Sizes, Weights, PageAssumption DEF AddrSize
  <1>2. Agree(a, b, PageKeySize) <=> a \div PageBytes = b \div PageBytes
    BY <1>1, AgreeBlock
  <1>3. PageOf(LeafAt(a)) = PageOf(LeafAt(b)) <=> Agree(a, b, PageKeySize)
    BY DEF PageOf, Prefix, Agree
  <1> QED BY <1>2, <1>3

\* and a leaf the addresses that agree in all of them.
LEMMA SameLeaf ==
    ASSUME NEW a \in Uint64, NEW b \in Uint64
    PROVE  LeafAt(a) = LeafAt(b) <=> a \div LeafBytes = b \div LeafBytes
  <1>1. AddrSize \in 0..AddrSize /\ Weight(AddrSize) = LeafBytes
    BY Sizes, Weights
  <1>2. Agree(a, b, AddrSize) <=> a \div LeafBytes = b \div LeafBytes
    BY <1>1, AgreeBlock
  <1>3. LeafAt(a) = LeafAt(b) <=> Agree(a, b, AddrSize)
    BY DEF LeafAt, Agree
  <1> QED BY <1>2, <1>3

\* A product grows with its factor.
LEMMA MulMono ==
    ASSUME NEW d \in Nat, NEW x \in Nat, NEW y \in Nat, x < y
    PROVE  d * x + d <= d * y
  <1>1. y - x - 1 \in Nat /\ y = x + 1 + (y - x - 1)
    OBVIOUS
  <1> DEFINE z == y - x - 1
  <1>2. z \in Nat /\ y = x + 1 + z
    BY <1>1
  <1> HIDE DEF z
  <1>3. d * y = (d * x + d) + d * z /\ d * x \in Nat /\ d * z \in Nat
    BY <1>2
  <1> DEFINE p == d * x
             q == d * z
  <1>4. d * y = (p + d) + q /\ p \in Nat /\ q \in Nat
    BY <1>3
  <1> HIDE DEF p, q
  <1>5. p + d <= (p + d) + q
    BY <1>4
  <1> QED BY <1>4, <1>5 DEF p

\* Memory is a whole number of pages.
LEMMA WholePages == \E k \in Nat : AddrCount = PageBytes * k
  <1>1. /\ PageKeySize \in Nat /\ PageKeySize <= AddrSize
        /\ AddrSize \in Nat /\ PageBytes \in Nat \ {0}
    <2>1. PageKeySize \in Nat /\ PageKeySize <= AddrSize /\ AddrSize \in Nat
      BY Sizes, PageAssumption DEF AddrSize
    <2> QED BY <2>1, Weights
  <1> DEFINE T == {j \in 0..PageKeySize : \E k \in Nat : Weight(PageKeySize - j) = PageBytes * k}
  <1>2. 0 \in T
    <2>1. PageKeySize - 0 = PageKeySize /\ PageBytes = PageBytes * 1
      BY <1>1
    <2>2. Weight(PageKeySize - 0) = PageBytes * 1
      BY <2>1, Weights
    <2> QED BY <1>1, <2>2
  <1>3. ASSUME NEW j \in 0..(PageKeySize - 1), j \in T PROVE j + 1 \in T
    <2>1. PICK k \in Nat : Weight(PageKeySize - j) = PageBytes * k
      BY <1>3
    <2> DEFINE i == PageKeySize - (j + 1)
    <2>2. i \in 0..(AddrSize - 1) /\ i + 1 = PageKeySize - j
      BY <1>1
    <2>3. Weight(i) = 2 * Weight(i + 1)
      BY <2>2, Weights
    <2>4. 2 * (PageBytes * k) = PageBytes * (2 * k)
      BY <1>1
    <2>5. Weight(i) = PageBytes * (2 * k) /\ 2 * k \in Nat
      BY <2>1, <2>2, <2>3, <2>4
    <2>6. j + 1 \in 0..PageKeySize
      BY <1>1
    <2> QED BY <2>5, <2>6
  <1>4. 0..PageKeySize \subseteq T
    <2> HIDE DEF T
    <2> QED BY <1>1, <1>2, <1>3, NatInd
  <1>5. PICK k \in Nat : Weight(PageKeySize - PageKeySize) = PageBytes * k
    BY <1>1, <1>4
  <1>6. PageKeySize - PageKeySize = 0
    BY <1>1
  <1> QED BY <1>5, <1>6, Weights

\* What a page has room for stays in the page.
LEMMA RoomInPage ==
    ASSUME NEW addr \in Uint64, NEW j \in Nat, j < Room(addr)
    PROVE  /\ addr + j \in Uint64
           /\ (addr + j) \div PageBytes = addr \div PageBytes
  <1>1. PageBytes \in Nat \ {0} /\ AddrCount \in Nat /\ addr \in Nat
    <2>1. PageKeySize \in 0..AddrSize /\ 0 \in 0..AddrSize
      BY Sizes, PageAssumption DEF AddrSize
    <2> QED BY <2>1, Weights DEF Uint64
  <1> DEFINE q == addr \div PageBytes
             r == addr % PageBytes
             p == PageBytes * q
  <1>2. q \in Nat /\ r \in Nat /\ addr = p + r /\ r + j < PageBytes /\ p \in Nat
    <2>1. q \in Nat /\ r \in Nat /\ addr = p + r
      BY <1>1, DivParts
    <2>2. r + j < PageBytes
      BY <1>1, <2>1 DEF Room
    <2>3. p \in Nat
      BY <1>1, <2>1
    <2> QED BY <2>1, <2>2, <2>3
  <1>3. PICK k \in Nat : AddrCount = PageBytes * k
    BY WholePages
  <1>4. q < k
    <2> SUFFICES ASSUME k <= q PROVE FALSE
      BY <1>2
    <2>1. CASE k = q
      <3> HIDE DEF r, p
      <3>1. AddrCount = p
        BY <1>3, <2>1 DEF p
      <3> HIDE DEF q
      <3> QED BY <1>1, <1>2, <3>1 DEF Uint64
    <2>2. CASE k < q
      <3> HIDE DEF q, r
      <3>1. PageBytes * k + PageBytes <= PageBytes * q
        BY <1>1, <1>2, <2>2, MulMono
      <3>2. AddrCount + PageBytes <= p
        BY <1>3, <3>1
      <3> HIDE DEF p
      <3> QED BY <1>1, <1>2, <3>2 DEF Uint64
    <2> HIDE DEF q
    <2> QED BY <1>2, <2>1, <2>2
  <1> HIDE DEF q, r
  <1>5. p + PageBytes <= AddrCount
    BY <1>1, <1>2, <1>3, <1>4, MulMono
  <1>6. addr + j = p + (r + j) /\ r + j \in Nat
    BY <1>2
  <1>7. (addr + j) \div PageBytes = q
    BY <1>1, <1>2, <1>6, DivUnique
  <1> HIDE DEF p
  <1>8. addr + j \in Uint64
    BY <1>1, <1>2, <1>5, <1>6 DEF Uint64
  <1> QED BY <1>7, <1>8 DEF q

\* A leaf and a place in it are one address.
LEMMA OneAddress ==
    ASSUME NEW a \in Uint64, NEW b \in Uint64
    PROVE  /\ PageOf(LeafAt(a)) = PageOf(LeafAt(b)) /\ InPage(LeafAt(a)) = InPage(LeafAt(b))
              /\ a % LeafBytes = b % LeafBytes
           <=> a = b
  <1> SUFFICES ASSUME PageOf(LeafAt(a)) = PageOf(LeafAt(b)), InPage(LeafAt(a)) = InPage(LeafAt(b)),
                      a % LeafBytes = b % LeafBytes
               PROVE  a = b
    OBVIOUS
  <1>1. LeafAt(a) = LeafAt(b)
    <2> DEFINE x == LeafAt(a)
               y == LeafAt(b)
    <2>1. x \in Leaf /\ y \in Leaf
      BY DEF LeafAt, Leaf, Bit
    <2> HIDE DEF x, y
    <2>2. ASSUME NEW i \in 1..AddrSize PROVE x[i] = y[i]
      <3>1. CASE i <= PageKeySize
        <4>1. i \in 1..PageKeySize
          BY <3>1, Sizes
        <4>2. PageOf(x)[i] = PageOf(y)[i]
          BY DEF x, y
        <4> QED BY <4>1, <4>2 DEF PageOf, Prefix
      <3>2. CASE i > PageKeySize
        <4>1. i - PageKeySize \in 1..PageDepth /\ PageKeySize + (i - PageKeySize) = i
          BY <3>2, Sizes, PageAssumption DEF AddrSize
        <4>2. InPage(x)[i - PageKeySize] = InPage(y)[i - PageKeySize]
          BY DEF x, y
        <4> QED BY <4>1, <4>2 DEF InPage
      <3> QED BY <3>1, <3>2, Sizes
    <2>3. x = y
      <3> DEFINE S == 1..AddrSize
      <3>1. x \in [S -> Bit] /\ y \in [S -> Bit]
        BY <2>1 DEF Leaf
      <3>2. \A i \in S : x[i] = y[i]
        BY <2>2
      <3> HIDE DEF S
      <3> QED BY <3>1, <3>2
    <2> QED BY <2>3 DEF x, y
  <1>2. a \div LeafBytes = b \div LeafBytes
    BY <1>1, SameLeaf
  <1>3. a \in Nat /\ b \in Nat /\ LeafBytes \in Nat \ {0}
    BY PageAssumption DEF Uint64
  <1>4. a = LeafBytes * (a \div LeafBytes) + (a % LeafBytes)
    BY <1>3, DivParts
  <1>5. b = LeafBytes * (b \div LeafBytes) + (b % LeafBytes)
    BY <1>3, DivParts
  <1> QED BY <1>2, <1>4, <1>5

\* The byte of a page that is filled.
LEMMA FilledByte ==
    ASSUME NEW p, IsPage(p), NEW addr \in Uint64, NEW dat \in Seq(Byte), Len(dat) <= Room(addr),
           NEW a \in Uint64, PageOf(LeafAt(a)) = PageOf(LeafAt(addr))
    PROVE  FillPage(p, addr, dat).Data[InPage(LeafAt(a))][a % LeafBytes] =
             IF addr <= a /\ a < addr + Len(dat) THEN dat[a - addr + 1]
             ELSE p.Data[InPage(LeafAt(a))][a % LeafBytes]
  <1> DEFINE at(l, b) == {j \in DOMAIN dat : /\ InPage(LeafAt(addr + j - 1)) = l
                                             /\ (addr + j - 1) % LeafBytes = b}
             new(l, b) == IF at(l, b) = {} THEN p.Data[l][b]
                          ELSE dat[CHOOSE j \in at(l, b) : TRUE]
             data == [l \in LeafInPage |-> [b \in 0..(LeafBytes - 1) |-> new(l, b)]]
             here == InPage(LeafAt(a))
             byte == a % LeafBytes
  <1>1. FillPage(p, addr, dat).Data = data
    <2>1. FillPage(p, addr, dat) = [p EXCEPT !.Data = data]
      BY DEF FillPage
    <2> HIDE DEF data
    <2> QED BY <2>1 DEF IsPage
  <1>2. a \in Nat /\ addr \in Nat /\ LeafBytes \in Nat \ {0} /\ Len(dat) \in Nat
    BY PageAssumption DEF Uint64
  <1>3. here \in LeafInPage /\ byte \in 0..(LeafBytes - 1)
    BY <1>2, LeafAtLeaf, LeafParts
  <1>4. ASSUME NEW j \in DOMAIN dat
        PROVE  j \in at(here, byte) <=> addr + j - 1 = a
    <2>1. j - 1 \in Nat /\ j - 1 < Room(addr) /\ j \in Nat /\ addr + (j - 1) = addr + j - 1
      <3>1. j \in 1..Len(dat)
        OBVIOUS
      <3>2. Room(addr) \in Int
        <4>1. PageBytes \in Nat \ {0}
          BY Weights, Sizes, PageAssumption DEF AddrSize
        <4> QED BY <1>2, <4>1 DEF Room
      <3> QED BY <1>2, <3>1, <3>2
    <2> DEFINE c == addr + j - 1
    <2>2. c \in Uint64 /\ c \div PageBytes = addr \div PageBytes
      BY <2>1, RoomInPage
    <2> HIDE DEF c
    <2>3. PageOf(LeafAt(c)) = PageOf(LeafAt(a))
      BY <2>2, SamePage
    <2>4. (InPage(LeafAt(c)) = here /\ c % LeafBytes = byte) <=> c = a
      BY <2>2, <2>3, OneAddress
    <2> QED BY <2>4 DEF c
  <1>5. data[here][byte] = new(here, byte)
    BY <1>3
  <1>6. CASE addr <= a /\ a < addr + Len(dat)
    <2> DEFINE k == a - addr + 1
    <2>1. k \in DOMAIN dat /\ addr + k - 1 = a
      BY <1>2, <1>6
    <2>2. \A j \in DOMAIN dat : addr + j - 1 = a => j = k
      BY <1>2
    <2> HIDE DEF k
    <2>3. k \in at(here, byte) /\ \A j \in at(here, byte) : j = k
      BY <1>4, <2>1, <2>2
    <2> HIDE DEF at
    <2>4. (CHOOSE j \in at(here, byte) : TRUE) = k
      BY <2>3
    <2>5. at(here, byte) # {}
      BY <2>3
    <2>6. new(here, byte) = dat[k]
      BY <2>4, <2>5
    <2> QED BY <1>1, <1>5, <1>6, <2>6 DEF k
  <1>7. CASE ~(addr <= a /\ a < addr + Len(dat))
    <2>1. ASSUME NEW j \in DOMAIN dat PROVE addr + j - 1 # a
      BY <1>2, <1>7
    <2>2. at(here, byte) = {}
      BY <1>4, <2>1
    <2> HIDE DEF at
    <2>3. new(here, byte) = p.Data[here][byte]
      BY <2>2
    <2> QED BY <1>1, <1>5, <1>7, <2>3
  <1> QED BY <1>6, <1>7

\* A turn of the loop of SetMemoryRange writes what it read, where it belongs, and
\* nothing else.
LEMMA PageWrites ==
    ASSUME NEW m, IInv(m), NEW addr \in Uint64, NEW dat \in Seq(Byte), Len(dat) <= Room(addr),
           NEW a \in Uint64
    PROVE  ByteAt(SetMemoryPage(m, addr, dat), a) =
             IF addr <= a /\ a < addr + Len(dat) THEN dat[a - addr + 1] ELSE ByteAt(m, a)
  <1> DEFINE key   == PageOf(LeafAt(addr))
             found == IF pageExists(m, key) THEN pageLookup(m, key) ELSE AllocPage(m, key)
             old   == InvalidateFull(found.pages[key])
             page  == FillPage(old, addr, dat)
             r     == SetMemoryPage(m, addr, dat)
             leaf  == LeafAt(a)
             pk    == PageOf(leaf)
             inp   == InPage(leaf)
             byte  == a % LeafBytes
  <1>1. key \in PageKey /\ leaf \in Leaf /\ pk \in PageKey /\ inp \in LeafInPage
    BY LeafAtLeaf, LeafParts
  <1>2. /\ IInv(found) /\ DOMAIN found.pages = DOMAIN m.pages \union {key}
        /\ \A k \in DOMAIN m.pages : found.pages[k] = m.pages[k]
        /\ key \notin DOMAIN m.pages => found.pages[key] = NewPage
    <2>1. CASE key \in DOMAIN m.pages
      <3>1. found = pageLookup(m, key) /\ found.pages = m.pages /\ IInv(found)
        BY <1>1, <2>1, LookupStep
      <3> HIDE DEF found
      <3> QED BY <2>1, <3>1
    <2>2. CASE key \notin DOMAIN m.pages
      <3>1. found = AllocPage(m, key)
        BY <1>1, <2>2, LookupStep
      <3>2. IInv(found)
        BY <1>1, <2>2, <3>1, AllocStep
      <3> DEFINE path == {Prefix(key, d) : d \in 0..(PageKeySize - 1)}
      <3>3. /\ AllocPage(m, key).pages = [k \in DOMAIN m.pages \union {key} |->
                                             IF k = key THEN NewPage ELSE m.pages[k]]
            /\ AllocPage(m, key).Children
                 = m.Children \union {Prefix(key, LevelDepths[i + 1]) : i \in Levels}
            /\ AllocPage(m, key).HashExists = m.HashExists \union path
            /\ AllocPage(m, key).Hashes = Restrict(m.Hashes, DOMAIN m.Hashes \ path)
        <4>1. IsMemory(m)
          BY DEF IInv
        <4> HIDE DEF key
        <4> QED BY <1>1, <4>1, AllocParts
      <3> HIDE DEF found, key
      <3> QED BY <2>2, <3>1, <3>2, <3>3
    <2> QED BY <2>1, <2>2
  <1>3. r = SetPage(found, key, page)
    BY DEF SetMemoryPage
  <1> HIDE DEF found, r, key
  <1>4. IsPage(found.pages[key]) /\ IsPage(old) /\ old.Data = found.pages[key].Data
    BY <1>2 DEF IInv, IsMemory, InvalidateFull, IsPage, EmptyFcn
  <1> HIDE DEF old, page
  <1>5. /\ DOMAIN r = DOMAIN found
        /\ r.pages = [k \in DOMAIN found.pages |-> IF k = key THEN page ELSE found.pages[k]]
        /\ r.Children = found.Children /\ r.HashExists = found.HashExists
        /\ r.Hashes = found.Hashes /\ r.lastPageKeys = found.lastPageKeys
    <2>1. IsMemory(found)
      BY <1>2 DEF IInv
    <2> QED BY <1>3, <2>1, SetPageParts
  <1>6. ByteAt(r, a) = (IF pk \in DOMAIN r.pages THEN r.pages[pk].Data[inp] ELSE ZeroLeaf)[byte]
    BY <1>1 DEF ByteAt, Contents
  <1>7. ByteAt(m, a) = (IF pk \in DOMAIN m.pages THEN m.pages[pk].Data[inp] ELSE ZeroLeaf)[byte]
    BY <1>1 DEF ByteAt, Contents
  <1>8. CASE pk = key
    <2>1. page.Data[inp][byte] = IF addr <= a /\ a < addr + Len(dat) THEN dat[a - addr + 1]
                                 ELSE old.Data[inp][byte]
      <3>1. PageOf(LeafAt(a)) = PageOf(LeafAt(addr))
        BY <1>8 DEF key
      <3> QED BY <1>4, <3>1, FilledByte DEF page
    <2>2. ByteAt(r, a) = page.Data[inp][byte]
      <3> HIDE DEF inp, byte
      <3> QED BY <1>2, <1>5, <1>6, <1>8
    <2>3. ByteAt(m, a) = old.Data[inp][byte]
      <3>1. NewPage.Data[inp] = ZeroLeaf
        BY <1>1 DEF NewPage
      <3> HIDE DEF inp, byte
      <3> QED BY <1>2, <1>4, <1>7, <1>8, <3>1
    <2> QED BY <2>1, <2>2, <2>3 DEF r
  <1>9. CASE pk # key
    <2>1. ByteAt(r, a) = ByteAt(m, a)
      <3> HIDE DEF pk, inp, byte
      <3> QED BY <1>2, <1>5, <1>6, <1>7, <1>9
    <2>2. ~(addr <= a /\ a < addr + Len(dat))
      <3> SUFFICES ASSUME addr <= a, a < addr + Len(dat) PROVE pk = key
        BY <1>9
      <3>1. a \in Nat /\ addr \in Nat /\ Len(dat) \in Nat /\ Room(addr) \in Int
        <4>1. PageBytes \in Nat \ {0}
          BY Weights, Sizes, PageAssumption DEF AddrSize
        <4> QED BY <4>1 DEF Room, Uint64
      <3>2. a - addr \in Nat /\ a - addr < Room(addr) /\ addr + (a - addr) = a
        BY <3>1
      <3>3. a \div PageBytes = addr \div PageBytes
        BY <3>2, RoomInPage
      <3> QED BY <3>3, SamePage DEF key
    <2> QED BY <2>1, <2>2 DEF r
  <1> QED BY <1>8, <1>9

-----------------------------------------------------------------------------
(* Images.                                                                 *)

\* The bytes of memory, by address.
Bytes(m) == [a \in Uint64 |-> ByteAt(m, a)]

\* The bytes the first k writes leave.
Image(writes, k) == [a \in Uint64 |-> ImageAfter(writes, k, a)]

\* The first n bytes of a write, over what was there.
Over(w, n, old) ==
    [a \in Uint64 |-> IF Reach(w, a) < n THEN w.bytes[Reach(w, a) + 1] ELSE old[a]]

\* A write of no more bytes than memory has.
IsWrite(w) == w.addr \in Uint64 /\ w.bytes \in Seq(Byte) /\ Len(w.bytes) <= AddrCount

\* Sizes are numbers.
LEMMA AddrCountNat == AddrCount \in Nat \ {0} /\ PageBytes \in Nat \ {0}
  <1>1. 0 \in 0..AddrSize /\ PageKeySize \in 0..AddrSize
    BY Sizes, PageAssumption DEF AddrSize
  <1> QED BY <1>1, Weights

\* An address, and a distance, in a memory of N bytes that wraps around.
Wrap(x, N) == IF x < N THEN x ELSE x - N
Back(a, b, N) == IF a >= b THEN a - b ELSE a - b + N

\* A remainder of less than twice the divisor.
LEMMA ModOnce ==
    ASSUME NEW x \in Nat, NEW d \in Nat \ {0}, x < 2 * d
    PROVE  x % d = Wrap(x, d)
  <1>1. CASE x < d
    BY <1>1 DEF Wrap
  <1>2. CASE x >= d
    <2>1. x = d * 1 + (x - d) /\ x - d \in Nat /\ x - d < d
      BY <1>2
    <2>2. x % d = x - d
      BY <2>1, DivUnique
    <2> QED BY <1>2, <2>2 DEF Wrap
  <1> QED BY <1>1, <1>2

\* How far an address is from the start of a write, without a remainder.
LEMMA ReachParts ==
    ASSUME NEW w, w.addr \in Uint64, NEW a \in Uint64
    PROVE  /\ Reach(w, a) = Back(a, w.addr, AddrCount)
           /\ Reach(w, a) \in Uint64
  <1> DEFINE x == a + AddrCount - w.addr
  <1>1. /\ AddrCount \in Nat \ {0} /\ a \in Nat /\ w.addr \in Nat
        /\ a < AddrCount /\ w.addr < AddrCount
    BY AddrCountNat DEF Uint64
  <1>2. x \in Nat /\ x < 2 * AddrCount
    BY <1>1
  <1>3. x % AddrCount = Wrap(x, AddrCount)
    <2> HIDE DEF x
    <2> QED BY <1>1, <1>2, ModOnce
  <1>4. Reach(w, a) = Wrap(x, AddrCount)
    BY <1>3 DEF Reach
  <1> QED BY <1>1, <1>4 DEF Uint64, Wrap, Back

\* No write leaves zeroes.
LEMMA ImageNone ==
    ASSUME NEW writes PROVE Image(writes, 0) = [a \in Uint64 |-> ZeroByte]
  <1>1. ASSUME NEW a \in Uint64 PROVE ImageAfter(writes, 0, a) = ZeroByte
    BY DEF ImageAfter
  <1> QED BY <1>1 DEF Image

\* One write more lies over those before it.
LEMMA ImageNext ==
    ASSUME NEW writes, NEW k \in Nat
    PROVE  Image(writes, k + 1) =
             Over(writes[k + 1], Len(writes[k + 1].bytes), Image(writes, k))
  <1> SUFFICES ASSUME NEW a \in Uint64
               PROVE  ImageAfter(writes, k + 1, a) =
                        IF Reach(writes[k + 1], a) < Len(writes[k + 1].bytes)
                        THEN writes[k + 1].bytes[Reach(writes[k + 1], a) + 1]
                        ELSE ImageAfter(writes, k, a)
    BY DEF Image, Over
  <1> DEFINE hit(i) == Reach(writes[i], a) < Len(writes[i].bytes)
             covers(n) == {i \in 1..n : hit(i)}
             val(c) == IF c = {} THEN ZeroByte
                       ELSE writes[CHOOSE i \in c : \A j \in c : j <= i].bytes[
                              Reach(writes[CHOOSE i \in c : \A j \in c : j <= i], a) + 1]
  <1>1. /\ ImageAfter(writes, k, a) = val(covers(k))
        /\ ImageAfter(writes, k + 1, a) = val(covers(k + 1))
    BY DEF ImageAfter
  <1> HIDE DEF hit
  <1>2. 1..(k + 1) = 1..k \union {k + 1}
    OBVIOUS
  <1>3. CASE hit(k + 1)
    <2>1. k + 1 \in covers(k + 1) /\ \A j \in covers(k + 1) : j \in Nat /\ j <= k + 1
      BY <1>3
    <2> HIDE DEF covers
    <2>2. (CHOOSE i \in covers(k + 1) : \A j \in covers(k + 1) : j <= i) = k + 1
      BY <2>1
    <2>3. val(covers(k + 1)) = writes[k + 1].bytes[Reach(writes[k + 1], a) + 1]
      BY <2>1, <2>2
    <2> QED BY <1>1, <1>3, <2>3 DEF hit
  <1>4. CASE ~hit(k + 1)
    <2>1. covers(k + 1) = covers(k)
      BY <1>2, <1>4
    <2> HIDE DEF covers, val
    <2> QED BY <1>1, <1>4, <2>1 DEF hit
  <1> QED BY <1>3, <1>4

\* A new memory holds zeroes.
LEMMA BlankBytes == Bytes(NewMemory) = [a \in Uint64 |-> ZeroByte]
  <1> SUFFICES ASSUME NEW a \in Uint64 PROVE ByteAt(NewMemory, a) = ZeroByte
    BY DEF Bytes
  <1>1. Contents(NewMemory)[LeafAt(a)] = ZeroLeaf
    BY LeafAtLeaf DEF Contents, NewMemory, EmptyFcn
  <1>2. a % LeafBytes \in 0..(LeafBytes - 1)
    BY PageAssumption DEF Uint64
  <1> QED BY <1>1, <1>2 DEF ByteAt, ZeroLeaf

\* Nothing of a write changes nothing.
LEMMA OverNone ==
    ASSUME NEW w, w.addr \in Uint64, NEW old, old = [a \in Uint64 |-> old[a]]
    PROVE  Over(w, 0, old) = old
  <1>1. ASSUME NEW a \in Uint64 PROVE ~(Reach(w, a) < 0)
    BY ReachParts, AddrCountNat DEF Uint64
  <1>2. Over(w, 0, old) = [a \in Uint64 |-> old[a]]
    BY <1>1 DEF Over
  <1> QED BY <1>2

\* L bytes from the n-th of a range that starts at b, which are at addr.
Wraps(N, b, n, L, addr) ==
    /\ N \in Nat \ {0} /\ b \in Nat /\ n \in Nat /\ L \in Nat /\ addr \in Nat
    /\ b < N /\ n + L <= N /\ addr + L <= N
    /\ addr = Wrap(b + n, N)

\* The place in the range of an address, which has the distance R from its start.
Placed(a, R, n, L, addr) ==
    /\ addr <= a /\ a < addr + L => R = n + (a - addr)
    /\ ~(addr <= a /\ a < addr + L) => (R < n + L <=> R < n)

\* The place of an address in a range that may wrap around.
LEMMA WrapReach ==
    ASSUME NEW N, NEW b, NEW n, NEW L, NEW addr, Wraps(N, b, n, L, addr),
           NEW a \in Nat, NEW R \in Nat, a < N, R = Back(a, b, N)
    PROVE  Placed(a, R, n, L, addr)
  BY DEF Wrap, Back, Wraps, Placed

\* The address after a part of a range.
LEMMA WrapAdvance ==
    ASSUME NEW N, NEW b, NEW n, NEW L, NEW addr, Wraps(N, b, n, L, addr)
    PROVE  (addr + L) % N = (b + (n + L)) % N
  <1> DEFINE x == addr + L
             y == b + (n + L)
  <1>1. x \in Nat /\ x < 2 * N /\ y \in Nat /\ y < 2 * N /\ N \in Nat \ {0}
    BY DEF Wraps
  <1>2. y = x \/ y = x + N
    BY DEF Wrap, Wraps
  <1>3. x < N \/ x = N
    BY DEF Wraps
  <1> HIDE DEF x, y
  <1>4. x % N = Wrap(x, N) /\ y % N = Wrap(y, N)
    BY <1>1, ModOnce
  <1>5. Wrap(x, N) = Wrap(y, N)
    BY <1>1, <1>2, <1>3 DEF Wrap
  <1>6. x % N = y % N
    BY <1>4, <1>5
  <1> QED BY <1>6 DEF x, y

\* A part of a write, from its n-th byte.
PartOf(w, n, dat) ==
    /\ dat \in Seq(Byte) /\ n + Len(dat) <= Len(w.bytes)
    /\ \A j \in 1..Len(dat) : w.bytes[n + j] = dat[j]

\* A turn of the loop writes the next bytes.
LEMMA TurnWrites ==
    ASSUME NEW m, IInv(m), NEW w, IsWrite(w), NEW old, NEW n \in Nat, NEW addr,
           addr = (w.addr + n) % AddrCount, NEW dat, PartOf(w, n, dat),
           Len(dat) <= Room(addr), Bytes(m) = Over(w, n, old)
    PROVE  /\ Bytes(SetMemoryPage(m, addr, dat)) = Over(w, n + Len(dat), old)
           /\ Advance(addr, Len(dat)) = (w.addr + (n + Len(dat))) % AddrCount
           /\ addr \in Uint64
  <1> USE DEF PartOf
  <1> DEFINE N == AddrCount
             b == w.addr
             L == Len(dat)
  <1>1. /\ N \in Nat \ {0} /\ b \in Nat /\ b < N /\ L \in Nat /\ n + L <= N /\ n \in Nat
        /\ b + n \in Nat /\ b + n < 2 * N
    <2>1. N \in Nat \ {0} /\ b \in 0..(N - 1)
      BY AddrCountNat DEF IsWrite, Uint64
    <2>2. L \in Nat /\ Len(w.bytes) \in Nat /\ Len(w.bytes) <= N /\ n + L <= Len(w.bytes)
      BY DEF IsWrite
    <2> HIDE DEF N, b, L
    <2> QED BY <2>1, <2>2
  <1>2. addr = Wrap(b + n, N)
    <2> DEFINE x == b + n
    <2>1. x \in Nat /\ x < 2 * N /\ N \in Nat \ {0}
      BY <1>1
    <2>2. addr = x % N
      OBVIOUS
    <2> HIDE DEF x, N, b
    <2>3. addr = Wrap(x, N)
      BY <2>1, <2>2, ModOnce
    <2> QED BY <2>3 DEF x
  <1>3. addr \in Nat /\ addr < N
    <2> HIDE DEF N, b, L
    <2> QED BY <1>1, <1>2 DEF Wrap
  <1>4. addr \in Uint64
    BY <1>1, <1>3 DEF Uint64
  <1>5. addr + L <= N
    <2>1. CASE L = 0
      BY <1>1, <1>3, <2>1
    <2>2. CASE L > 0
      <3>1. PageBytes \in Nat \ {0} /\ Room(addr) \in Int
        BY <1>3, AddrCountNat DEF Room
      <3>2. L - 1 \in Nat /\ L - 1 < Room(addr)
        BY <1>1, <2>2, <3>1
      <3>3. addr + (L - 1) \in Uint64
        BY <1>4, <3>2, RoomInPage
      <3> QED BY <1>1, <1>3, <3>3 DEF Uint64
    <2> QED BY <1>1, <2>1, <2>2
  <1>6. Advance(addr, L) = (w.addr + (n + L)) % AddrCount
    <2> HIDE DEF N, L, b
    <2>1. Wraps(N, b, n, L, addr)
      BY <1>1, <1>2, <1>3, <1>5 DEF Wraps
    <2>2. (addr + L) % N = (b + (n + L)) % N
      BY <2>1, WrapAdvance
    <2> QED BY <2>2 DEF Advance, N, b
  <1>7. ASSUME NEW a \in Uint64
        PROVE  ByteAt(SetMemoryPage(m, addr, dat), a) = Over(w, n + L, old)[a]
    <2> DEFINE R == Reach(w, a)
    <2>1. R = Back(a, b, N) /\ R \in Uint64
      BY ReachParts DEF IsWrite
    <2>2. ByteAt(SetMemoryPage(m, addr, dat), a) =
             IF addr <= a /\ a < addr + L THEN dat[a - addr + 1] ELSE ByteAt(m, a)
      BY <1>4, PageWrites
    <2>3. ByteAt(m, a) = IF R < n THEN w.bytes[R + 1] ELSE old[a]
      <3>1. Bytes(m)[a] = ByteAt(m, a)
        BY DEF Bytes
      <3>2. Over(w, n, old)[a] = IF R < n THEN w.bytes[R + 1] ELSE old[a]
        BY DEF Over
      <3> QED BY <3>1, <3>2
    <2>4. Over(w, n + L, old)[a] = IF R < n + L THEN w.bytes[R + 1] ELSE old[a]
      BY DEF Over
    <2>5. a \in Nat /\ a < N /\ R \in Nat /\ R < N
      <3> HIDE DEF R
      <3> QED BY <1>1, <2>1 DEF Uint64
    <2> HIDE DEF R, N, b
    <2>6. /\ addr <= a /\ a < addr + L => R = n + (a - addr)
          /\ ~(addr <= a /\ a < addr + L) => (R < n + L <=> R < n)
      <3> HIDE DEF L
      <3>1. Wraps(N, b, n, L, addr)
        BY <1>1, <1>2, <1>3, <1>5 DEF Wraps
      <3>2. Placed(a, R, n, L, addr)
        BY <2>1, <2>5, <3>1, WrapReach
      <3> QED BY <3>2 DEF Placed
    <2>7. CASE addr <= a /\ a < addr + L
      <3> DEFINE j == a - addr + 1
      <3>1. j \in 1..Len(dat) /\ R + 1 = n + j /\ R < n + L
        BY <1>1, <1>3, <2>5, <2>6, <2>7, SMTT(20)
      <3>2. w.bytes[R + 1] = dat[j]
        BY <3>1
      <3> QED BY <2>2, <2>4, <2>7, <3>1, <3>2
    <2>8. CASE ~(addr <= a /\ a < addr + L)
      <3>1. R < n + L <=> R < n
        BY <2>6, <2>8
      <3> QED BY <2>2, <2>3, <2>4, <2>8, <3>1
    <2> QED BY <2>7, <2>8
  <1>8. Bytes(SetMemoryPage(m, addr, dat)) = Over(w, n + L, old)
    <2> DEFINE r == SetMemoryPage(m, addr, dat)
    <2> HIDE DEF r
    <2>1. \A a \in Uint64 : ByteAt(r, a) = Over(w, n + L, old)[a]
      BY <1>7 DEF r
    <2>2. Bytes(r) = [a \in Uint64 |-> Over(w, n + L, old)[a]]
      BY <2>1 DEF Bytes
    <2> QED BY <2>2 DEF Over, r
  <1> QED BY <1>4, <1>6, <1>8

\* The first n bytes of a write have been written, and the range holds the others.
Underway(m, r, w, n, old) ==
    /\ n + Len(r.bytes) + Len(r.padding) = Len(w.bytes)
    /\ r.addr = (w.addr + n) % AddrCount
    /\ \A j \in 1..Len(r.bytes) : w.bytes[n + j] = r.bytes[j]
    /\ \A j \in 1..Len(r.padding) : w.bytes[n + Len(r.bytes) + j] = r.padding[j]
    /\ Bytes(m) = Over(w, n, old)

\* What a reader holds, and what is left after n bytes are read.
LeftOf(r) == IF r.bytes # << >> THEN r.bytes ELSE r.padding
RestOf(r, n) == SubSeq(LeftOf(r), n + 1, Len(LeftOf(r)))

\* A range that is opened is under way.
LEMMA StartUnderway ==
    ASSUME NEW m, NEW r, NEW w, IsWrite(w), r.addr = w.addr,
           r.bytes \in Seq(Byte), r.padding \in Seq(Byte),
           Len(r.bytes) + Len(r.padding) = Len(w.bytes),
           \A j \in 1..Len(r.bytes) : w.bytes[j] = r.bytes[j],
           \A j \in 1..Len(r.padding) : w.bytes[Len(r.bytes) + j] = r.padding[j]
    PROVE  Underway(m, r, w, 0, Bytes(m))
  <1>1. Over(w, 0, Bytes(m)) = Bytes(m)
    <2>1. Bytes(m) = [a \in Uint64 |-> Bytes(m)[a]]
      BY DEF Bytes
    <2> QED BY <2>1, OverNone DEF IsWrite
  <1>2. (w.addr + 0) % AddrCount = w.addr
    <2> DEFINE x == w.addr
    <2>1. x \in Nat /\ x < AddrCount /\ AddrCount \in Nat \ {0}
      BY AddrCountNat DEF IsWrite, Uint64
    <2> HIDE DEF x
    <2>2. x + 0 = x /\ x < 2 * AddrCount
      BY <2>1
    <2>3. x % AddrCount = x
      BY <2>1, <2>2, ModOnce DEF Wrap
    <2> QED BY <2>2, <2>3 DEF x
  <1>3. Len(r.bytes) \in Nat /\ Len(r.padding) \in Nat
    OBVIOUS
  <1>4. 0 + Len(r.bytes) + Len(r.padding) = Len(w.bytes)
    <2>1. 0 + Len(r.bytes) = Len(r.bytes)
      BY <1>3
    <2> QED BY <2>1
  <1>5. \A j \in 1..Len(r.bytes) : w.bytes[0 + j] = r.bytes[j]
    BY <1>3
  <1>6. \A j \in 1..Len(r.padding) : w.bytes[0 + Len(r.bytes) + j] = r.padding[j]
    BY <1>3
  <1> QED BY <1>1, <1>2, <1>4, <1>5, <1>6 DEF Underway

\* The parts of a sequence that is read from.
LEMMA ReadParts ==
    ASSUME NEW s \in Seq(Byte), NEW k \in 0..Len(s)
    PROVE  /\ SubSeq(s, 1, k) \in Seq(Byte) /\ Len(SubSeq(s, 1, k)) = k
           /\ \A j \in 1..k : SubSeq(s, 1, k)[j] = s[j]
           /\ SubSeq(s, k + 1, Len(s)) \in Seq(Byte)
           /\ Len(SubSeq(s, k + 1, Len(s))) = Len(s) - k
           /\ \A j \in 1..(Len(s) - k) : SubSeq(s, k + 1, Len(s))[j] = s[k + j]
  OBVIOUS

\* A turn of the loop leaves the range under way.
LEMMA TurnUnderway ==
    ASSUME NEW m, IInv(m), NEW w, IsWrite(w), NEW n \in Nat, NEW old, NEW r,
           r.bytes \in Seq(Byte), r.padding \in Seq(Byte), Underway(m, r, w, n, old),
           NEW k \in 0..Len(LeftOf(r)), k <= Room(r.addr),
           NEW r2, r2.addr = Advance(r.addr, k),
           r2.bytes = (IF r.bytes # << >> THEN RestOf(r, k) ELSE << >>),
           r2.padding = (IF r.bytes # << >> THEN r.padding ELSE RestOf(r, k))
    PROVE  /\ Underway(SetMemoryPage(m, r.addr, SubSeq(LeftOf(r), 1, k)), r2, w, n + k, old)
           /\ r.addr \in Uint64
  <1> DEFINE s   == LeftOf(r)
             dat == SubSeq(s, 1, k)
             tl  == RestOf(r, k)
             m2  == SetMemoryPage(m, r.addr, dat)
  <1>1. s \in Seq(Byte) /\ Len(s) \in Nat /\ k \in Nat /\ k <= Len(s)
    BY DEF LeftOf
  <1>2. /\ dat \in Seq(Byte) /\ Len(dat) = k
        /\ \A j \in 1..k : dat[j] = s[j]
        /\ tl \in Seq(Byte)
        /\ Len(tl) = Len(s) - k
        /\ \A j \in 1..(Len(s) - k) : tl[j] = s[k + j]
    <2> HIDE DEF s
    <2> QED BY <1>1, ReadParts DEF RestOf, s
  <1>3. Len(r.bytes) \in Nat /\ Len(r.padding) \in Nat /\ Len(w.bytes) \in Nat
    BY DEF IsWrite
  <1>4. n + Len(r.bytes) + Len(r.padding) = Len(w.bytes)
    BY DEF Underway
  <1>5. n + Len(s) <= Len(w.bytes) /\ \A j \in 1..Len(s) : w.bytes[n + j] = s[j]
    <2>1. CASE r.bytes # << >>
      <3>1. s = r.bytes
        BY <2>1 DEF LeftOf
      <3>2. \A j \in 1..Len(r.bytes) : w.bytes[n + j] = r.bytes[j]
        BY DEF Underway
      <3>3. n + Len(r.bytes) <= Len(w.bytes)
        <4> DEFINE p == Len(r.bytes)
                   q == Len(r.padding)
        <4>1. p \in Nat /\ q \in Nat /\ n + p + q = Len(w.bytes)
          BY <1>3, <1>4
        <4> HIDE DEF p, q
        <4>2. n + p <= n + p + q
          BY <4>1
        <4> QED BY <4>1, <4>2 DEF p
      <3> QED BY <3>1, <3>2, <3>3
    <2>2. CASE r.bytes = << >>
      <3>1. Len(r.bytes) = 0 /\ s = r.padding
        BY <2>2 DEF LeftOf
      <3>2. \A j \in 1..Len(r.padding) : w.bytes[n + 0 + j] = r.padding[j]
        BY <3>1 DEF Underway
      <3> QED BY <1>3, <3>1, <3>2 DEF Underway
    <2> QED BY <2>1, <2>2
  <1> HIDE DEF s, dat, tl
  <1>6. /\ Bytes(m2) = Over(w, n + Len(dat), old)
        /\ Advance(r.addr, Len(dat)) = (w.addr + (n + Len(dat))) % AddrCount
        /\ r.addr \in Uint64
    <2>1. r.addr = (w.addr + n) % AddrCount /\ Bytes(m) = Over(w, n, old)
      BY DEF Underway
    <2>2. n + Len(dat) <= Len(w.bytes) /\ Len(dat) <= Room(r.addr)
      BY <1>1, <1>2, <1>3, <1>5
    <2>3. PartOf(w, n, dat)
      <3>1. \A j \in 1..k : w.bytes[n + j] = dat[j]
        <4> TAKE j \in 1..k
        <4>1. j \in 1..Len(s)
          BY <1>1
        <4> QED BY <1>2, <1>5, <4>1
      <3> QED BY <1>2, <2>2, <3>1 DEF PartOf
    <2> DEFINE addr == r.addr
    <2>4. addr = (w.addr + n) % AddrCount /\ Len(dat) <= Room(addr)
      BY <2>1, <2>2
    <2> HIDE DEF addr
    <2>5. /\ Bytes(SetMemoryPage(m, addr, dat)) = Over(w, n + Len(dat), old)
          /\ Advance(addr, Len(dat)) = (w.addr + (n + Len(dat))) % AddrCount
          /\ addr \in Uint64
      BY <2>1, <2>3, <2>4, TurnWrites
    <2> QED BY <2>5 DEF addr
  <1>7. /\ n + k + Len(r2.bytes) + Len(r2.padding) = Len(w.bytes)
        /\ \A j \in 1..Len(r2.bytes) : w.bytes[n + k + j] = r2.bytes[j]
        /\ \A j \in 1..Len(r2.padding) : w.bytes[n + k + Len(r2.bytes) + j] = r2.padding[j]
    <2>1. CASE r.bytes # << >>
      <3>1. s = r.bytes /\ r2.bytes = tl /\ r2.padding = r.padding
        BY <2>1 DEF s, tl, LeftOf
      <3>2. n + k + Len(tl) + Len(r.padding) = Len(w.bytes)
        <4>1. Len(tl) = Len(r.bytes) - k
          BY <1>2, <3>1
        <4> DEFINE p == Len(r.bytes)
                   q == Len(r.padding)
        <4> HIDE DEF p, q
        <4>3. p \in Nat /\ k \in Nat /\ q \in Nat
          BY <1>1, <1>3 DEF p, q
        <4>2. n + k + (p - k) + q = n + p + q
          BY <4>3
        <4> QED BY <1>4, <4>1, <4>2 DEF p, q
      <3>3. \A j \in 1..Len(tl) : w.bytes[n + k + j] = tl[j]
        <4> TAKE j \in 1..Len(tl)
        <4>1. j \in 1..(Len(s) - k) /\ k + j \in 1..Len(s) /\ n + (k + j) = n + k + j
          BY <1>1, <1>2
        <4> QED BY <1>2, <1>5, <4>1
      <3>4. \A j \in 1..Len(r.padding) : w.bytes[n + k + Len(tl) + j] = r.padding[j]
        <4> TAKE j \in 1..Len(r.padding)
        <4>1. n + k + Len(tl) + j = n + Len(r.bytes) + j
          <5>1. Len(tl) = Len(r.bytes) - k
            BY <1>2, <3>1
          <5> DEFINE p == Len(r.bytes)
          <5> HIDE DEF p
          <5>3. p \in Nat /\ k \in Nat /\ j \in Nat
            BY <1>1, <1>3 DEF p
          <5>2. n + k + (p - k) + j = n + p + j
            BY <5>3
          <5> QED BY <5>1, <5>2 DEF p
        <4> QED BY <4>1 DEF Underway
      <3> QED BY <3>1, <3>2, <3>3, <3>4
    <2>2. CASE r.bytes = << >>
      <3>1. s = r.padding /\ r2.bytes = << >> /\ r2.padding = tl /\ Len(r.bytes) = 0
        BY <2>2 DEF s, tl, LeftOf
      <3>2. Len(r2.bytes) = 0
        BY <3>1
      <3>3. n + 0 + Len(r.padding) = Len(w.bytes)
        BY <3>1 DEF Underway
      <3>4. \A j \in 1..Len(tl) : w.bytes[n + k + 0 + j] = tl[j]
        <4> TAKE j \in 1..Len(tl)
        <4>1. j \in 1..(Len(s) - k) /\ k + j \in 1..Len(s) /\ n + (k + j) = n + k + 0 + j
          BY <1>1, <1>2
        <4> QED BY <1>2, <1>5, <4>1
      <3>5. n + k + 0 + Len(tl) = Len(w.bytes)
        BY <1>1, <1>2, <1>3, <3>1, <3>3
      <3>6. \A j \in 1..Len(r2.bytes) : w.bytes[n + k + j] = r2.bytes[j]
        BY <3>2
      <3>7. \A j \in 1..Len(r2.padding) : w.bytes[n + k + Len(r2.bytes) + j] = r2.padding[j]
        BY <3>1, <3>2, <3>4
      <3> QED BY <3>1, <3>2, <3>5, <3>6, <3>7
    <2> QED BY <2>1, <2>2
  <1>8. r2.addr = (w.addr + (n + k)) % AddrCount /\ Bytes(m2) = Over(w, n + k, old)
    BY <1>2, <1>6
  <1> QED BY <1>6, <1>7, <1>8 DEF Underway, m2, dat, s

\* The end of a range.
LEMMA EndUnderway ==
    ASSUME NEW m, IInv(m), NEW w, IsWrite(w), NEW n \in Nat, NEW old, NEW r,
           r.bytes = << >>, r.padding = << >>, Underway(m, r, w, n, old)
    PROVE  Bytes(SetMemoryPage(m, r.addr, << >>)) = Over(w, Len(w.bytes), old)
  <1> DEFINE addr == r.addr
             dat  == << >>
  <1>1. Len(r.bytes) = 0 /\ Len(r.padding) = 0 /\ Len(dat) = 0 /\ dat \in Seq(Byte)
    OBVIOUS
  <1>2. addr = (w.addr + n) % AddrCount /\ Bytes(m) = Over(w, n, old) /\ Len(w.bytes) = n
    BY <1>1 DEF Underway
  <1>3. Len(dat) <= Room(addr) /\ n + Len(dat) = n /\ n + Len(dat) <= Len(w.bytes)
    <2>1. addr \in Nat
      BY <1>2, AddrCountNat DEF IsWrite, Uint64
    <2>2. Room(addr) \in Nat
      <3> HIDE DEF addr
      <3> QED BY <2>1, AddrCountNat DEF Room
    <2> QED BY <1>1, <1>2, <2>2
  <1>4. PartOf(w, n, dat)
    BY <1>1, <1>3 DEF PartOf
  <1> HIDE DEF addr, dat
  <1>5. /\ Bytes(SetMemoryPage(m, addr, dat)) = Over(w, n + Len(dat), old)
        /\ Advance(addr, Len(dat)) = (w.addr + (n + Len(dat))) % AddrCount
        /\ addr \in Uint64
    BY <1>2, <1>3, <1>4, TurnWrites
  <1> QED BY <1>2, <1>3, <1>5 DEF addr, dat

-----------------------------------------------------------------------------
(* What every step keeps of the trie and of the root.                      *)

\* Reading into a page keeps it a page, and its cache.
LEMMA FillStep ==
    ASSUME NEW p, IsPage(p), NEW addr, NEW dat \in Seq(Byte)
    PROVE  IsPage(FillPage(p, addr, dat)) /\ FillPage(p, addr, dat).Cache = p.Cache
  <1> DEFINE at(l, b) == {j \in DOMAIN dat : /\ InPage(LeafAt(addr + j - 1)) = l
                                             /\ (addr + j - 1) % LeafBytes = b}
             new(l, b) == IF at(l, b) = {} THEN p.Data[l][b]
                          ELSE dat[CHOOSE j \in at(l, b) : TRUE]
             r == FillPage(p, addr, dat)
  <1>1. r = [p EXCEPT !.Data = [l \in LeafInPage |-> [b \in 0..(LeafBytes - 1) |-> new(l, b)]]]
    BY DEF FillPage
  <1>2. ASSUME NEW l \in LeafInPage, NEW b \in 0..(LeafBytes - 1)
        PROVE  new(l, b) \in Byte
    <2>1. CASE at(l, b) = {}
      BY <2>1 DEF IsPage, LeafData
    <2>2. CASE at(l, b) # {}
      <3>1. (CHOOSE j \in at(l, b) : TRUE) \in DOMAIN dat
        BY <2>2
      <3> HIDE DEF at
      <3> QED BY <2>2, <3>1
    <2> QED BY <2>1, <2>2
  <1> HIDE DEF new, r
  <1>3. r.Data = [l \in LeafInPage |-> [b \in 0..(LeafBytes - 1) |-> new(l, b)]]
    BY <1>1 DEF IsPage
  <1>4. r.Data \in [LeafInPage -> LeafData]
    BY <1>2, <1>3 DEF LeafData
  <1>5. DOMAIN r = {"Data", "Cache"} /\ r.Cache = p.Cache
    BY <1>1 DEF IsPage
  <1> QED BY <1>4, <1>5 DEF IsPage, r

\* One page of a range: everything above the page is invalid already.
LEMMA RangeStep ==
    ASSUME NEW m, Fresh(m), NEW addr, NEW dat \in Seq(Byte)
    PROVE  Fresh(SetMemoryPage(m, addr, dat))
  <1> DEFINE key   == PageOf(LeafAt(addr))
             found == IF pageExists(m, key) THEN pageLookup(m, key) ELSE AllocPage(m, key)
             page  == FillPage(InvalidateFull(found.pages[key]), addr, dat)
             r     == SetMemoryPage(m, addr, dat)
  <1>1. key \in PageKey
    BY LeafAtLeaf, LeafParts
  <1>2. IInv(found) /\ key \in DOMAIN found.pages /\ NoCaches(found)
    <2>1. CASE key \in DOMAIN m.pages
      <3>1. NoCaches(pageLookup(m, key))
        BY <1>1, LookupSound DEF Fresh
      <3> QED BY <1>1, <2>1, <3>1, LookupStep DEF Fresh
    <2>2. CASE key \notin DOMAIN m.pages
      <3> DEFINE a    == AllocPage(m, key)
                 path == {Prefix(key, d) : d \in 0..(PageKeySize - 1)}
      <3>1. /\ a.pages = [k \in DOMAIN m.pages \union {key} |->
                             IF k = key THEN NewPage ELSE m.pages[k]]
            /\ a.Children = m.Children \union {Prefix(key, LevelDepths[i + 1]) : i \in Levels}
            /\ a.HashExists = m.HashExists \union path
            /\ a.Hashes = Restrict(m.Hashes, DOMAIN m.Hashes \ path)
        <4>1. IsMemory(m)
          BY DEF Fresh, IInv
        <4> HIDE DEF key
        <4> QED BY <1>1, <4>1, AllocParts
      <3>2. DOMAIN NewPage.Cache = {}
        BY DEF NewPage, EmptyFcn
      <3> HIDE DEF a, path
      <3>3. DOMAIN a.Hashes = {}
        BY <3>1 DEF Restrict, NoCaches, Fresh
      <3>4. \A k \in DOMAIN a.pages : DOMAIN a.pages[k].Cache = {}
        BY <3>1, <3>2 DEF NoCaches, Fresh
      <3>5. NoCaches(AllocPage(m, key))
        BY <3>3, <3>4 DEF NoCaches, a
      <3>6. found = AllocPage(m, key)
        BY <1>1, <2>2, LookupStep DEF Fresh
      <3> QED BY <1>1, <2>2, <3>5, <3>6, AllocStep DEF Fresh
    <2> QED BY <2>1, <2>2
  <1>3. r = SetPage(found, key, page)
    BY DEF SetMemoryPage
  <1> HIDE DEF found, key, r
  <1>4. /\ IsPage(InvalidateFull(found.pages[key]))
        /\ InvalidateFull(found.pages[key]).Cache = EmptyFcn
    BY <1>2 DEF InvalidateFull, IsPage, IInv, IsMemory, EmptyFcn
  <1>5. IsPage(page) /\ page.Cache = EmptyFcn
    BY <1>4, FillStep
  <1>6. DOMAIN page.Cache = {}
    BY <1>5 DEF EmptyFcn
  <1> HIDE DEF page
  <1>7. /\ DOMAIN r = DOMAIN found
        /\ r.pages = [k \in DOMAIN found.pages |-> IF k = key THEN page ELSE found.pages[k]]
        /\ r.Children = found.Children /\ r.HashExists = found.HashExists
        /\ r.Hashes = found.Hashes /\ r.lastPageKeys = found.lastPageKeys
    BY <1>2, <1>3, SetPageParts DEF IInv
  <1>8. DOMAIN r.pages = DOMAIN found.pages
    BY <1>7
  <1>9. IsMemory(r)
    BY <1>2, <1>5, <1>7, <1>8 DEF IInv, IsMemory
  <1>10. KeysAllocated(r) /\ SpansPages(r)
    BY <1>2, <1>7, <1>8 DEF IInv, KeysAllocated, SpansPages
  <1>11. RootCovers(r)
    BY <1>2, <1>6, <1>7, <1>8 DEF IInv, RootCovers
  <1>12. PathInvalid(r) /\ NoCaches(r)
    BY <1>2, <1>6, <1>7, <1>8 DEF PathInvalid, NoCaches
  <1> QED BY <1>9, <1>10, <1>11, <1>12 DEF Fresh, IInv, r

-----------------------------------------------------------------------------

\* LoadInv holds at the start.
LEMMA LoadInvInit == Init => LoadInv
  <1> SUFFICES ASSUME Init PROVE LoadInv
    OBVIOUS
  <1>1. IInv(mem)
    BY NewMemoryIInv DEF Init
  <1>2. NoCaches(mem)
    BY DEF Init, NewMemory, NoCaches, EmptyFcn
  <1> QED BY <1>1, <1>2 DEF Init, LoadInv, NoRange, Built

\* Opening a range while the state is built.
LEMMA OpensRange ==
    ASSUME LoadInv, stage \in Building, NEW addr \in Nat, NEW bytes \in Seq(Byte),
           NEW padding \in Seq(Byte), SetMemoryRange(addr, bytes, padding),
           UNCHANGED <<mem, sp, file, stage, root, out>>, next' = next + 1
    PROVE  LoadInv'
  BY DEF LoadInv, SetMemoryRange, Building, Built

\* A failure keeps LoadInv,
LEMMA FailKeeps == LoadInv /\ Fail => LoadInv'
  BY DEF LoadInv, Fail, NoRange, Building, Built

\* a page read from a segment keeps it,
LEMMA ReadPageKeeps == LoadInv /\ ReadPage => LoadInv'
  <1> SUFFICES ASSUME LoadInv, ReadPage PROVE LoadInv'
    OBVIOUS
  <1> DEFINE n == IF Len(Left) <= Room(range.addr) THEN Len(Left) ELSE Room(range.addr)
  <1>1. Left \in Seq(Byte)
    BY DEF LoadInv, Left
  <1>2. n \in 0..Len(Left)
    BY <1>1, AddrCountNat DEF LoadInv, Room
  <1>3. SubSeq(Left, 1, n) \in Seq(Byte) /\ Rest(n) \in Seq(Byte)
    BY <1>1, <1>2 DEF Rest
  <1>4. Advance(range.addr, n) \in Nat
    BY <1>2, <1>1, AddrCountNat DEF LoadInv, Advance
  <1>5. stage \in Building /\ Fresh(mem)
    BY DEF LoadInv, ReadPage, Fresh
  <1>6. /\ mem' = SetMemoryPage(mem, range.addr, SubSeq(Left, 1, n))
        /\ range' = [open    |-> TRUE,
                     addr    |-> Advance(range.addr, n),
                     bytes   |-> IF range.bytes # << >> THEN Rest(n) ELSE << >>,
                     padding |-> IF range.bytes # << >> THEN range.padding ELSE Rest(n)]
        /\ UNCHANGED <<sp, file, stage, next, root, out>>
    BY DEF ReadPage
  <1> HIDE DEF n
  <1>7. Fresh(mem')
    BY <1>3, <1>5, <1>6, RangeStep
  <1>8. /\ range'.addr \in Nat
        /\ range'.bytes \in Seq(Byte) /\ range'.padding \in Seq(Byte)
    BY <1>3, <1>4, <1>6 DEF LoadInv
  <1>9. stage' \notin Built /\ "loaded" \in Built
    BY <1>5, <1>6 DEF Building, Built
  <1> QED BY <1>5, <1>6, <1>7, <1>8, <1>9 DEF LoadInv, Fresh

\* the end of a segment keeps it,
LEMMA ReadEOFKeeps == LoadInv /\ ReadEOF => LoadInv'
  <1> SUFFICES ASSUME LoadInv, ReadEOF PROVE LoadInv'
    OBVIOUS
  <1>1. stage \in Building /\ Fresh(mem)
    BY DEF LoadInv, ReadEOF, Fresh
  <1>2. Fresh(mem')
    <2>1. << >> \in Seq(Byte)
      OBVIOUS
    <2>2. mem' = SetMemoryPage(mem, range.addr, << >>)
      BY DEF ReadEOF
    <2> QED BY <1>1, <2>1, <2>2, RangeStep
  <1>3. stage' \notin Built /\ "loaded" \in Built
    BY <1>1 DEF ReadEOF, Building, Built
  <1> QED BY <1>1, <1>2, <1>3 DEF LoadInv, Fresh, ReadEOF, NoRange

\* the start of a segment keeps it,
LEMMA LoadSegmentKeeps == LoadInv /\ LoadSegment => LoadInv'
  <1> SUFFICES ASSUME LoadInv, LoadSegment PROVE LoadInv'
    OBVIOUS
  <1> DEFINE prog == file.progs[next]
  <1>1. prog.vaddr \in Nat /\ prog.bytes \in Seq(Byte) /\ prog.memsz \in Nat
    <2>1. file.progs \in Seq(ElfProg)
      BY LoaderAssumption DEF LoadInv
    <2>2. next \in 1..Len(file.progs)
      BY <2>1 DEF LoadInv, LoadSegment
    <2>3. prog \in ElfProg
      BY <2>1, <2>2
    <2> QED BY <2>3 DEF ElfProg, Uint64
  <1>2. Segment(prog) /\ stage = "segments"
    BY DEF LoadSegment
  <1>3. CASE prog.type = "attributes"
    <2>1. next' = next + 1 /\ UNCHANGED <<mem, sp, file, stage, range, root, out>>
      BY <1>2, <1>3 DEF Segment
    <2> QED BY <2>1 DEF LoadInv
  <1>4. CASE prog.type # "attributes" /\ ~SizesFit(prog)
    BY <1>2, <1>4, FailKeeps DEF Segment
  <1>5. CASE prog.type # "attributes" /\ SizesFit(prog)
    <2>1. SetMemoryRange(prog.vaddr, prog.bytes, Padding(prog)) /\ next' = next + 1
          /\ UNCHANGED <<mem, sp, file, stage, root, out>>
      BY <1>2, <1>5 DEF Segment
    <2>2. prog.memsz - Len(prog.bytes) \in Nat
      BY <1>1, <1>5 DEF SizesFit
    <2>3. Padding(prog) \in Seq(Byte)
      BY <2>2, DataAssumption DEF Padding, Zeroes
    <2> HIDE DEF prog
    <2> QED BY <1>1, <1>2, <2>1, <2>3, OpensRange DEF Building
  <1> QED BY <1>3, <1>4, <1>5

\* a patched symbol keeps it,
LEMMA PatchSymbolKeeps == LoadInv /\ PatchSymbol => LoadInv'
  <1> SUFFICES ASSUME LoadInv, PatchSymbol PROVE LoadInv'
    OBVIOUS
  <1> DEFINE s == file.symbols[next]
  <1>1. s.value \in Nat
    <2>1. file.symbols \in Seq(ElfSymbol)
      BY LoaderAssumption DEF LoadInv
    <2>2. next \in 1..Len(file.symbols)
      BY <2>1 DEF LoadInv, PatchSymbol
    <2>3. s \in ElfSymbol
      BY <2>1, <2>2
    <2> QED BY <2>3 DEF ElfSymbol, Uint64
  <1>2. /\ \/ SetMemoryRange(s.value, RetPatch, << >>)
           \/ SetMemoryRange(s.value, MemProfile, << >>)
           \/ UNCHANGED range
        /\ stage = "symbols" /\ next' = next + 1
        /\ UNCHANGED <<mem, sp, file, stage, root, out>>
    BY DEF PatchSymbol
  <1>3. << >> \in Seq(Byte) /\ RetPatch \in Seq(Byte) /\ MemProfile \in Seq(Byte)
    BY LoaderAssumption
  <1> HIDE DEF s
  <1>4. CASE UNCHANGED range
    BY <1>2, <1>4 DEF LoadInv
  <1> QED BY <1>1, <1>2, <1>3, <1>4, OpensRange DEF Building

\* and so does a word of the initial stack.
LEMMA StoreWordKeeps == LoadInv /\ StoreWord => LoadInv'
  <1> SUFFICES ASSUME LoadInv, StoreWord PROVE LoadInv'
    OBVIOUS
  <1>1. next \in 1..Len(StackWords) /\ StackWords[next] \in Seq(Byte)
    BY LoaderAssumption DEF LoadInv, StoreWord
  <1>2. WordBytes * next \in Nat
    BY <1>1, LoaderAssumption
  <1>3. (sp + WordBytes * next) % AddrCount \in Nat
    BY <1>2, AddrCountNat DEF LoadInv
  <1>4. << >> \in Seq(Byte)
    OBVIOUS
  <1> QED BY <1>1, <1>3, <1>4, OpensRange DEF StoreWord, Building, Built

\* The steps that leave memory, or replace it as a whole.
LEMMA StageKeeps ==
    LoadInv /\ (CheckMachine \/ SegmentsDone \/ NoSymbols \/ SetStackPointer
                \/ SetWitnessAndStateHash \/ WriteState \/ StartRun) => LoadInv'
  <1> SUFFICES ASSUME LoadInv PROVE
        (CheckMachine \/ SegmentsDone \/ NoSymbols \/ SetStackPointer
         \/ SetWitnessAndStateHash \/ WriteState \/ StartRun) => LoadInv'
    OBVIOUS
  <1>1. CASE CheckMachine
    <2>1. CASE Fail
      BY <2>1, FailKeeps
    <2>2. CASE stage' = "segments" /\ next' = 1 /\ UNCHANGED <<mem, sp, file, range, root, out>>
      BY <1>1, <2>2 DEF CheckMachine, LoadInv, Building, Built
    <2> QED BY <1>1, <2>1, <2>2 DEF CheckMachine, Enter
  <1>2. CASE SegmentsDone
    BY <1>2 DEF SegmentsDone, LoadInv, Enter, Building, Built
  <1>3. CASE NoSymbols
    BY <1>3, FailKeeps DEF NoSymbols
  <1>4. CASE SetStackPointer
    BY <1>4, LoaderAssumption DEF SetStackPointer, LoadInv, Enter, Building, Built
  <1>5. CASE SetWitnessAndStateHash
    <2>1. mem' = Merkleize(mem, {Root}) /\ root' = RootHash(mem) /\ NoCaches(mem)
      BY <1>5 DEF SetWitnessAndStateHash, MerkleRoot, LoadInv, Building
    <2>2. IInv(mem) /\ Sound(mem)
      BY <2>1, NoCachesSound DEF LoadInv
    <2>3. IInv(mem') /\ Sound(mem') /\ Contents(mem') = Contents(mem)
      BY <2>1, <2>2, MerkleizeStep, MerkleizeSound, MerklePure
    <2>4. root' = TrueHash(mem')[Root]
      BY <2>1, <2>2, <2>3, SoundRoot, TrueIsTree
    <2> QED BY <1>5, <2>3, <2>4 DEF SetWitnessAndStateHash, LoadInv, Enter, Building
  <1>6. CASE WriteState
    BY <1>6 DEF WriteState, LoadInv, Enter, Building, Built
  <1>7. CASE StartRun
    <2>1. mem' = Deserialize(Serialize(mem)) /\ IInv(mem) /\ root' = root
      BY <1>7 DEF StartRun, LoadInv
    <2>2. IInv(mem') /\ Sound(mem') /\ Contents(mem') = Contents(mem)
      BY <2>1, ReloadStep, ReloadBare, ReloadParts, NoCachesSound
    <2>3. root' = TrueHash(mem')[Root]
      BY <1>7, <2>1, <2>2, TrueIsTree DEF StartRun, LoadInv, Built
    <2> QED BY <1>7, <2>2, <2>3 DEF StartRun, LoadInv, Enter, Building
  <1> QED BY <1>1, <1>2, <1>3, <1>4, <1>5, <1>6, <1>7

\* Every step keeps LoadInv.
LEMMA LoadInvariance == Spec => []LoadInv
  <1>1. LoadInv /\ [Next]_vars => LoadInv'
    <2> SUFFICES ASSUME LoadInv, [Next]_vars PROVE LoadInv'
      OBVIOUS
    <2>1. CASE ReadFails \/ WriteFails
      BY <2>1, FailKeeps DEF ReadFails, WriteFails
    <2>2. CASE UNCHANGED vars
      BY <2>2 DEF vars, LoadInv
    <2>3. CASE Load
      BY <2>3, ReadPageKeeps, ReadEOFKeeps, LoadSegmentKeeps, PatchSymbolKeeps,
         StoreWordKeeps, StageKeeps DEF Load
    <2> QED BY <2>1, <2>2, <2>3 DEF Next
  <1> QED BY LoadInvInit, <1>1, PTL DEF Spec

\* "If the page was already invalid, the nodes up to the root are also invalid",
\* and every page is reached from the root, in every state of load-elf, although
\* its range writes clear no node of the trie.
THEOREM LoaderKeepsTrie == Spec => []TrieReady
  <1>1. LoadInv => TrieReady
    BY DEF LoadInv, TrieReady, IInv
  <1> QED BY LoadInvariance, <1>1, PTL

\* The root in the absolute pre-state is the Merkle root, computed from scratch, of
\* the memory that run starts from, and run computes the same one from the file.
THEOREM PrestateAlwaysCommits == Spec => []PrestateCommits
  <1>1. LoadInv => PrestateCommits
    BY SoundRoot DEF LoadInv, PrestateCommits, Built
  <1> QED BY LoadInvariance, <1>1, PTL

-----------------------------------------------------------------------------
(* The image.                                                              *)

\* How many of the writes have begun.
Begun ==
    CASE stage = "segments" -> next - 1
      [] stage = "symbols"  -> Len(file.progs) + (next - 1)
      [] stage = "stack"    -> Len(file.progs) + Len(file.symbols) + (next - 1)
      [] OTHER              -> 0

\* The inductive invariant: between two ranges memory is the image of the writes that
\* have begun; while a range is under way it is the image of those before it, with
\* the part that has been read over it, and the reader holds the rest.
ImageInv ==
    /\ stage = "machine" => next = 1 /\ ~range.open
    /\ stage = "segments" => next <= Len(file.progs) + 1
    /\ stage = "symbols" => next <= Len(file.symbols) + 1
    /\ stage = "stack" => next <= Len(StackWords) + 1 /\ sp = StackPointer
    /\ stage \in Building /\ ~range.open => Bytes(mem) = Image(Writes, Begun)
    /\ stage \in Building /\ range.open =>
          /\ Begun \in 1..Len(Writes)
          /\ \E n \in Nat : Underway(mem, range, Writes[Begun], n, Image(Writes, Begun - 1))
    /\ stage \in Built => Bytes(mem) = Image(Writes, Len(Writes))

\* A function on the first numbers is a sequence.
LEMMA MapSeq ==
    ASSUME NEW W, NEW n \in Nat, NEW f, f = [i \in 1..n |-> f[i]], \A i \in 1..n : f[i] \in W
    PROVE  f \in Seq(W) /\ Len(f) = n
  OBVIOUS

\* The writes of a file, one by one.
LEMMA WriteParts ==
    ASSUME LoadInv
    PROVE  /\ Len(file.progs) \in Nat /\ Len(file.symbols) \in Nat /\ Len(StackWords) \in Nat
           /\ Len(Writes) = Len(file.progs) + Len(file.symbols) + Len(StackWords)
           /\ \A i \in 1..Len(file.progs) : Writes[i] = SegmentWrite(file.progs[i])
           /\ \A i \in 1..Len(file.symbols) :
                 Writes[Len(file.progs) + i] = PatchWrite(file.symbols[i])
           /\ \A i \in 1..Len(StackWords) :
                 Writes[Len(file.progs) + Len(file.symbols) + i] = StackWrite(i)
           /\ \A i \in 1..Len(Writes) : IsWrite(Writes[i])
  <1> DEFINE P == Len(file.progs)
             S == Len(file.symbols)
             K == Len(StackWords)
             A == [i \in 1..P |-> SegmentWrite(file.progs[i])]
             B == [i \in 1..S |-> PatchWrite(file.symbols[i])]
             C == [i \in 1..K |-> StackWrite(i)]
             W == {w \in [addr : Uint64, bytes : Seq(Byte)] : IsWrite(w)}
  <1>1. /\ file.progs \in Seq(ElfProg) /\ file.symbols \in Seq(ElfSymbol)
        /\ P \in Nat /\ S \in Nat /\ K \in Nat
    BY LoaderAssumption DEF LoadInv
  <1>2. ASSUME NEW i \in 1..P PROVE A[i] \in W
    <2> DEFINE g == file.progs[i]
    <2>1. g \in ElfProg
      BY <1>1
    <2>2. /\ g.vaddr \in Uint64 /\ g.memsz \in Nat /\ g.memsz <= AddrCount /\ g.bytes \in Seq(Byte)
      BY <2>1, AddrCountNat DEF ElfProg, Uint64
    <2> HIDE DEF g
    <2> DEFINE t == [j \in 1..g.memsz |-> IF j <= Len(g.bytes) THEN g.bytes[j] ELSE ZeroByte]
               u == IF g.type = "attributes" THEN << >> ELSE t
    <2>3. t \in Seq(Byte) /\ Len(t) = g.memsz
      <3>1. ASSUME NEW j \in 1..g.memsz
            PROVE  (IF j <= Len(g.bytes) THEN g.bytes[j] ELSE ZeroByte) \in Byte
        BY <2>2, <3>1, DataAssumption
      <3> QED BY <2>2, <3>1
    <2> HIDE DEF t
    <2>4. u \in Seq(Byte) /\ Len(u) <= AddrCount
      BY <2>2, <2>3, AddrCountNat
    <2>5. SegmentWrite(g) = [addr |-> g.vaddr, bytes |-> u]
      BY DEF SegmentWrite, t
    <2> HIDE DEF u
    <2>6. SegmentWrite(g) \in W
      BY <2>2, <2>4, <2>5 DEF IsWrite
    <2> QED BY <2>6 DEF g
  <1>3. ASSUME NEW i \in 1..S PROVE B[i] \in W
    <2> DEFINE g == file.symbols[i]
    <2>1. g \in ElfSymbol
      BY <1>1
    <2>2. g.value \in Uint64
      BY <2>1 DEF ElfSymbol
    <2> HIDE DEF g
    <2> DEFINE u == IF g.patch = "ret" THEN RetPatch
                    ELSE IF g.patch = "profile" THEN MemProfile ELSE << >>
    <2>3. u \in Seq(Byte) /\ Len(u) <= AddrCount
      BY LoaderAssumption, PatchAssumption, AddrCountNat
    <2>4. PatchWrite(g) = [addr |-> g.value, bytes |-> u]
      BY DEF PatchWrite
    <2> HIDE DEF u
    <2>5. PatchWrite(g) \in W
      BY <2>2, <2>3, <2>4 DEF IsWrite
    <2> QED BY <2>5 DEF g
  <1>4. ASSUME NEW i \in 1..K PROVE C[i] \in W
    <2> DEFINE x == (StackPointer + WordBytes * i) % AddrCount
    <2>1. x \in Uint64
      <3> DEFINE z == WordBytes * i
                 y == StackPointer + z
      <3>1. z \in Nat
        BY <1>1, LoaderAssumption
      <3>2. y \in Nat
        <4> HIDE DEF z
        <4> QED BY <3>1, LoaderAssumption
      <3> HIDE DEF y
      <3>3. y % AddrCount \in 0..(AddrCount - 1)
        BY <3>2, AddrCountNat
      <3> QED BY <3>3 DEF y, Uint64
    <2>2. StackWords[i] \in Seq(Byte) /\ Len(StackWords[i]) <= AddrCount
      BY LoaderAssumption, PatchAssumption
    <2>3. StackWrite(i) = [addr |-> x, bytes |-> StackWords[i]]
      BY DEF StackWrite
    <2> HIDE DEF x
    <2> QED BY <2>1, <2>2, <2>3 DEF IsWrite
  <1>5. A \in Seq(W) /\ Len(A) = P /\ B \in Seq(W) /\ Len(B) = S /\ C \in Seq(W) /\ Len(C) = K
    <2> HIDE DEF W
    <2>1. A \in Seq(W) /\ Len(A) = P
      <3>1. A = [i \in 1..P |-> A[i]]
        OBVIOUS
      <3>2. \A i \in 1..P : A[i] \in W
        BY <1>2
      <3> HIDE DEF A, P
      <3> QED BY <1>1, <3>1, <3>2, MapSeq
    <2>2. B \in Seq(W) /\ Len(B) = S
      <3>1. B = [i \in 1..S |-> B[i]]
        OBVIOUS
      <3>2. \A i \in 1..S : B[i] \in W
        BY <1>3
      <3> HIDE DEF B, S
      <3> QED BY <1>1, <3>1, <3>2, MapSeq
    <2>3. C \in Seq(W) /\ Len(C) = K
      <3>1. C = [i \in 1..K |-> C[i]]
        OBVIOUS
      <3>2. \A i \in 1..K : C[i] \in W
        BY <1>4
      <3> HIDE DEF C, K
      <3> QED BY <1>1, <3>1, <3>2, MapSeq
    <2> QED BY <2>1, <2>2, <2>3
  <1>6. Writes = (A \o B) \o C
    BY DEF Writes
  <1>7. /\ \A i \in 1..P : A[i] = SegmentWrite(file.progs[i])
        /\ \A i \in 1..S : B[i] = PatchWrite(file.symbols[i])
        /\ \A i \in 1..K : C[i] = StackWrite(i)
    OBVIOUS
  <1> HIDE DEF A, B, C, W, P, S, K
  <1> DEFINE D == A \o B
  <1>8. /\ D \in Seq(W) /\ Len(D) = P + S
        /\ \A i \in 1..P : D[i] = A[i]
        /\ \A i \in 1..S : D[P + i] = B[i]
    <2>1. /\ A \o B \in Seq(W) /\ Len(A \o B) = Len(A) + Len(B)
          /\ \A i \in 1..Len(A) : (A \o B)[i] = A[i]
          /\ \A i \in 1..Len(B) : (A \o B)[Len(A) + i] = B[i]
      <3>1. A \in Seq(W) /\ B \in Seq(W)
        BY <1>5
      <3> QED BY <3>1
    <2> QED BY <1>5, <2>1
  <1> HIDE DEF D
  <1> DEFINE F == D \o C
  <1>9. /\ F \in Seq(W) /\ Len(F) = P + S + K
        /\ \A i \in 1..(P + S) : F[i] = D[i]
        /\ \A i \in 1..K : F[P + S + i] = C[i]
    <2>1. /\ D \o C \in Seq(W) /\ Len(D \o C) = Len(D) + Len(C)
          /\ \A i \in 1..Len(D) : (D \o C)[i] = D[i]
          /\ \A i \in 1..Len(C) : (D \o C)[Len(D) + i] = C[i]
      <3>1. D \in Seq(W) /\ C \in Seq(W)
        BY <1>5, <1>8
      <3> QED BY <3>1
    <2> QED BY <1>5, <1>8, <2>1
  <1> HIDE DEF F
  <1>10. Writes = F
    BY <1>6 DEF F, D
  <1>11. \A i \in 1..P : F[i] = SegmentWrite(file.progs[i])
    BY <1>1, <1>7, <1>8, <1>9
  <1>12. \A i \in 1..S : F[P + i] = PatchWrite(file.symbols[i])
    <2> TAKE i \in 1..S
    <2>1. P + i \in 1..(P + S)
      BY <1>1
    <2> QED BY <1>7, <1>8, <1>9, <2>1
  <1>13. \A i \in 1..K : F[P + S + i] = StackWrite(i)
    BY <1>7, <1>9
  <1>14. \A i \in 1..Len(F) : IsWrite(F[i])
    <2> TAKE i \in 1..Len(F)
    <2>1. F[i] \in W
      BY <1>9
    <2> QED BY <2>1 DEF W
  <1> QED BY <1>1, <1>9, <1>10, <1>11, <1>12, <1>13, <1>14 DEF P, S, K

\* The image holds at the start,
LEMMA ImageInit == Init => ImageInv
  <1> SUFFICES ASSUME Init PROVE ImageInv
    OBVIOUS
  <1>1. Bytes(mem) = [a \in Uint64 |-> ZeroByte]
    BY BlankBytes DEF Init
  <1>2. Image(Writes, 0) = [a \in Uint64 |-> ZeroByte]
    BY ImageNone
  <1>3. Begun = 0
    BY DEF Init, Begun
  <1> QED BY <1>1, <1>2, <1>3 DEF Init, ImageInv, NoRange, Built

\* a failure ends it,
LEMMA FailImage == ImageInv /\ Fail => ImageInv'
  BY DEF ImageInv, Fail, Building, Built

\* The writes stay what they are.
LEMMA SameWrites == UNCHANGED file => Writes' = Writes
  BY DEF Writes

\* One item of a file more.
MovesOn ==
    /\ stage \in {"segments", "symbols", "stack"} /\ ~range.open
    /\ next' = next + 1 /\ UNCHANGED <<mem, sp, file, stage>>
    /\ stage = "segments" => next <= Len(file.progs)
    /\ stage = "symbols" => next <= Len(file.symbols)
    /\ stage = "stack" => next <= Len(StackWords)

\* It begins the next write.
LEMMA MovesOnBegins ==
    ASSUME LoadInv, ImageInv, MovesOn
    PROVE  /\ Begun \in Nat /\ Begun' = Begun + 1 /\ Begun + 1 \in 1..Len(Writes)
           /\ Writes' = Writes /\ Bytes(mem') = Image(Writes, Begun)
           /\ stage' \in Building /\ stage' \notin Built
           /\ stage' # "machine"
           /\ stage' = "segments" => next' <= Len(file'.progs) + 1
           /\ stage' = "symbols" => next' <= Len(file'.symbols) + 1
           /\ stage' = "stack" => next' <= Len(StackWords) + 1 /\ sp' = StackPointer
  <1>1. /\ Len(file.progs) \in Nat /\ Len(file.symbols) \in Nat /\ Len(StackWords) \in Nat
        /\ Len(Writes) = Len(file.progs) + Len(file.symbols) + Len(StackWords)
    BY WriteParts
  <1>2. next \in Nat \ {0}
    BY DEF LoadInv
  <1> DEFINE P == Len(file.progs)
             S == Len(file.symbols)
             K == Len(StackWords)
             L == Len(Writes)
  <1>3. /\ stage = "segments" => Begun = next - 1 /\ Begun' = (next + 1) - 1
        /\ stage = "symbols" => Begun = P + (next - 1) /\ Begun' = P + ((next + 1) - 1)
        /\ stage = "stack" => Begun = P + S + (next - 1) /\ Begun' = P + S + ((next + 1) - 1)
    BY DEF MovesOn, Begun
  <1>4. /\ P \in Nat /\ S \in Nat /\ K \in Nat /\ L = P + S + K
        /\ stage = "segments" => next <= P
        /\ stage = "symbols" => next <= S
        /\ stage = "stack" => next <= K
        /\ stage \in {"segments", "symbols", "stack"}
    BY <1>1 DEF MovesOn
  <1>5. Begun \in Nat /\ Begun + 1 \in 1..L /\ Begun' = Begun + 1
    <2> HIDE DEF P, S, K, L
    <2>1. CASE stage = "segments"
      <3>1. Begun = next - 1 /\ Begun' = (next + 1) - 1 /\ next <= P
        BY <1>3, <1>4, <2>1
      <3>2. next - 1 \in Nat /\ (next - 1) + 1 \in 1..L /\ (next + 1) - 1 = (next - 1) + 1
        BY <1>2, <1>4, <3>1
      <3> QED BY <3>1, <3>2
    <2>2. CASE stage = "symbols"
      <3>1. Begun = P + (next - 1) /\ Begun' = P + ((next + 1) - 1) /\ next <= S
        BY <1>3, <1>4, <2>2
      <3>2. /\ P + (next - 1) \in Nat /\ (P + (next - 1)) + 1 \in 1..L
            /\ P + ((next + 1) - 1) = (P + (next - 1)) + 1
        BY <1>2, <1>4, <3>1
      <3> QED BY <3>1, <3>2
    <2>3. CASE stage = "stack"
      <3>1. Begun = P + S + (next - 1) /\ Begun' = P + S + ((next + 1) - 1) /\ next <= K
        BY <1>3, <1>4, <2>3
      <3>2. /\ P + S + (next - 1) \in Nat /\ (P + S + (next - 1)) + 1 \in 1..L
            /\ P + S + ((next + 1) - 1) = (P + S + (next - 1)) + 1
        BY <1>2, <1>4, <3>1
      <3> QED BY <3>1, <3>2
    <2> QED BY <1>4, <2>1, <2>2, <2>3
  <1>6. Writes' = Writes
    BY SameWrites DEF MovesOn
  <1>7. Bytes(mem') = Image(Writes, Begun)
    BY DEF MovesOn, ImageInv, Building
  <1>8. stage' \in Building /\ stage' \notin Built /\ stage' # "machine"
    BY DEF MovesOn, Building, Built
  <1>9. /\ stage' = "segments" => next' <= Len(file'.progs) + 1
        /\ stage' = "symbols" => next' <= Len(file'.symbols) + 1
        /\ stage' = "stack" => next' <= Len(StackWords) + 1 /\ sp' = StackPointer
    BY <1>1, <1>2 DEF MovesOn, ImageInv
  <1> QED BY <1>5, <1>6, <1>7, <1>8, <1>9

\* A range that holds the bytes of a write, from its start.
Holds(r, w) ==
    /\ r.open = TRUE /\ r.addr = w.addr
    /\ r.bytes \in Seq(Byte) /\ r.padding \in Seq(Byte)
    /\ Len(r.bytes) + Len(r.padding) = Len(w.bytes)
    /\ \A j \in 1..Len(r.bytes) : w.bytes[j] = r.bytes[j]
    /\ \A j \in 1..Len(r.padding) : w.bytes[Len(r.bytes) + j] = r.padding[j]

\* an item that is written opens the range of its write,
LEMMA OpensImage ==
    ASSUME LoadInv, ImageInv, MovesOn, Holds(range', Writes[Begun + 1])
    PROVE  ImageInv'
  <1> DEFINE k == Begun
             w == Writes[k + 1]
  <1>1. /\ k \in Nat /\ Begun' = k + 1 /\ k + 1 \in 1..Len(Writes)
        /\ Writes' = Writes /\ Bytes(mem') = Image(Writes, k)
        /\ stage' \in Building /\ stage' \notin Built
        /\ stage' # "machine"
        /\ stage' = "segments" => next' <= Len(file'.progs) + 1
        /\ stage' = "symbols" => next' <= Len(file'.symbols) + 1
        /\ stage' = "stack" => next' <= Len(StackWords) + 1 /\ sp' = StackPointer
    BY MovesOnBegins
  <1>2. IsWrite(w)
    BY <1>1, WriteParts
  <1>3. Underway(mem', range', w, 0, Bytes(mem'))
    <2> HIDE DEF w
    <2>1. Holds(range', w)
      BY DEF w
    <2> QED BY <1>2, <2>1, StartUnderway DEF Holds
  <1>4. (k + 1) - 1 = k
    BY <1>1
  <1>5. range'.open
    BY DEF Holds
  <1>6. \E n \in Nat : Underway(mem', range', Writes'[Begun'], n, Image(Writes', Begun' - 1))
    BY <1>1, <1>3, <1>4
  <1>7. Begun' \in 1..Len(Writes')
    BY <1>1
  <1> HIDE DEF k, w
  <1> QED BY <1>1, <1>5, <1>6, <1>7 DEF ImageInv

\* one that is passed over changes nothing,
LEMMA SkipsImage ==
    ASSUME LoadInv, ImageInv, MovesOn, UNCHANGED range, Writes[Begun + 1].bytes = << >>
    PROVE  ImageInv'
  <1> DEFINE k == Begun
             w == Writes[k + 1]
  <1>1. /\ k \in Nat /\ Begun' = k + 1 /\ k + 1 \in 1..Len(Writes)
        /\ Writes' = Writes /\ Bytes(mem') = Image(Writes, k)
        /\ stage' \in Building /\ stage' \notin Built
        /\ stage' # "machine"
        /\ stage' = "segments" => next' <= Len(file'.progs) + 1
        /\ stage' = "symbols" => next' <= Len(file'.symbols) + 1
        /\ stage' = "stack" => next' <= Len(StackWords) + 1 /\ sp' = StackPointer
    BY MovesOnBegins
  <1>2. w.addr \in Uint64 /\ Len(w.bytes) = 0
    BY <1>1, WriteParts DEF IsWrite
  <1>3. Image(Writes, k + 1) = Over(w, Len(w.bytes), Image(Writes, k))
    BY <1>1, ImageNext
  <1>4. Over(w, 0, Image(Writes, k)) = Image(Writes, k)
    <2>1. Image(Writes, k) = [a \in Uint64 |-> Image(Writes, k)[a]]
      BY DEF Image
    <2> HIDE DEF w, k
    <2> QED BY <1>2, <2>1, OverNone
  <1>5. ~range'.open
    BY DEF MovesOn
  <1>6. Bytes(mem') = Image(Writes', Begun')
    BY <1>1, <1>2, <1>3, <1>4
  <1> HIDE DEF k, w
  <1> QED BY <1>1, <1>5, <1>6 DEF ImageInv

\* a page of a range leaves it under way,
LEMMA ReadPageImage == LoadInv /\ ImageInv /\ ReadPage => ImageInv'
  <1> SUFFICES ASSUME LoadInv, ImageInv, ReadPage PROVE ImageInv'
    OBVIOUS
  <1> DEFINE k == IF Len(Left) <= Room(range.addr) THEN Len(Left) ELSE Room(range.addr)
             w == Writes[Begun]
             old == Image(Writes, Begun - 1)
  <1>1. /\ mem' = SetMemoryPage(mem, range.addr, SubSeq(Left, 1, k))
        /\ range' = [open    |-> TRUE,
                     addr    |-> Advance(range.addr, k),
                     bytes   |-> IF range.bytes # << >> THEN Rest(k) ELSE << >>,
                     padding |-> IF range.bytes # << >> THEN range.padding ELSE Rest(k)]
        /\ UNCHANGED <<sp, file, stage, next, root, out>>
        /\ range.open
    BY DEF ReadPage
  <1>2. stage \in Building /\ stage \notin Built /\ IInv(mem)
    BY <1>1 DEF LoadInv, Building, Built
  <1>3. Begun \in 1..Len(Writes) /\ IsWrite(w)
    BY <1>1, <1>2, WriteParts DEF ImageInv
  <1>4. PICK n \in Nat : Underway(mem, range, w, n, old)
    BY <1>1, <1>2 DEF ImageInv
  <1>5. Left = LeftOf(range) /\ Rest(k) = RestOf(range, k)
    BY DEF Left, LeftOf, Rest, RestOf
  <1>6. k \in 0..Len(LeftOf(range)) /\ k <= Room(range.addr)
    <2>1. Left \in Seq(Byte)
      BY DEF LoadInv, Left
    <2>2. Len(Left) \in Nat /\ Room(range.addr) \in Nat
      BY <2>1, AddrCountNat DEF LoadInv, Room
    <2> QED BY <1>5, <2>2
  <1> HIDE DEF k, w, old
  <1>7. /\ range'.addr = Advance(range.addr, k)
        /\ range'.bytes = (IF range.bytes # << >> THEN RestOf(range, k) ELSE << >>)
        /\ range'.padding = (IF range.bytes # << >> THEN range.padding ELSE RestOf(range, k))
        /\ range'.open
    BY <1>1, <1>5
  <1>8. Underway(mem', range', w, n + k, old)
    <2>1. range.bytes \in Seq(Byte) /\ range.padding \in Seq(Byte)
      BY DEF LoadInv
    <2>2. Underway(SetMemoryPage(mem, range.addr, SubSeq(LeftOf(range), 1, k)),
                   range', w, n + k, old)
      BY <1>2, <1>3, <1>4, <1>6, <1>7, <2>1, TurnUnderway
    <2> QED BY <1>1, <1>5, <2>2
  <1>9. n + k \in Nat
    BY <1>6
  <1>10. Writes' = Writes /\ Begun' = Begun
    BY <1>1, SameWrites DEF Begun
  <1>11. \E i \in Nat : Underway(mem', range', Writes'[Begun'], i, Image(Writes', Begun' - 1))
    BY <1>8, <1>9, <1>10 DEF w, old
  <1> QED BY <1>1, <1>2, <1>3, <1>7, <1>10, <1>11 DEF ImageInv

\* its end completes the write,
LEMMA ReadEOFImage == LoadInv /\ ImageInv /\ ReadEOF => ImageInv'
  <1> SUFFICES ASSUME LoadInv, ImageInv, ReadEOF PROVE ImageInv'
    OBVIOUS
  <1> DEFINE w == Writes[Begun]
             old == Image(Writes, Begun - 1)
  <1>1. /\ mem' = SetMemoryPage(mem, range.addr, << >>) /\ range' = NoRange
        /\ UNCHANGED <<sp, file, stage, next, root, out>>
        /\ range.open /\ range.bytes = << >> /\ range.padding = << >>
    BY DEF ReadEOF, Left
  <1>2. stage \in Building /\ stage \notin Built /\ IInv(mem)
    BY <1>1 DEF LoadInv, Building, Built
  <1>3. Begun \in 1..Len(Writes) /\ IsWrite(w)
    BY <1>1, <1>2, WriteParts DEF ImageInv
  <1>4. PICK n \in Nat : Underway(mem, range, w, n, old)
    BY <1>1, <1>2 DEF ImageInv
  <1> HIDE DEF w, old
  <1>5. Bytes(mem') = Over(w, Len(w.bytes), old)
    BY <1>1, <1>2, <1>3, <1>4, EndUnderway
  <1>6. Image(Writes, Begun) = Over(w, Len(w.bytes), old)
    <2>1. Begun - 1 \in Nat /\ (Begun - 1) + 1 = Begun
      BY <1>3, WriteParts
    <2>2. Image(Writes, (Begun - 1) + 1) =
             Over(Writes[(Begun - 1) + 1], Len(Writes[(Begun - 1) + 1].bytes),
                  Image(Writes, Begun - 1))
      BY <2>1, ImageNext
    <2> QED BY <2>1, <2>2 DEF w, old
  <1>7. Writes' = Writes /\ Begun' = Begun
    BY <1>1, SameWrites DEF Begun
  <1>8. Bytes(mem') = Image(Writes', Begun')
    BY <1>5, <1>6, <1>7
  <1>9. ~range'.open
    BY <1>1 DEF NoRange
  <1> QED BY <1>1, <1>2, <1>8, <1>9 DEF ImageInv

\* a segment is written as it is in the file, with zeroes after it,
LEMMA LoadSegmentImage == LoadInv /\ ImageInv /\ LoadSegment => ImageInv'
  <1> SUFFICES ASSUME LoadInv, ImageInv, LoadSegment PROVE ImageInv'
    OBVIOUS
  <1> DEFINE prog == file.progs[next]
             w    == SegmentWrite(prog)
  <1>1. /\ stage = "segments" /\ ~range.open /\ next <= Len(file.progs) /\ Segment(prog)
        /\ next \in Nat \ {0} /\ Len(file.progs) \in Nat
    BY WriteParts DEF LoadSegment, LoadInv
  <1>2. next \in 1..Len(file.progs) /\ Begun + 1 = next
    BY <1>1 DEF Begun
  <1>3. Writes[Begun + 1] = w
    BY <1>2, WriteParts
  <1>4. prog.vaddr \in Uint64 /\ prog.bytes \in Seq(Byte) /\ prog.memsz \in Nat
    <2>1. file.progs \in Seq(ElfProg)
      BY LoaderAssumption DEF LoadInv
    <2>2. prog \in ElfProg
      BY <1>2, <2>1
    <2> QED BY <2>2, AddrCountNat DEF ElfProg, Uint64
  <1> HIDE DEF prog, w
  <1>5. CASE prog.type = "attributes"
    <2>1. next' = next + 1 /\ UNCHANGED <<mem, sp, file, stage, range, root, out>>
      BY <1>1, <1>5 DEF Segment
    <2>2. MovesOn
      BY <1>1, <2>1 DEF MovesOn
    <2>3. w.bytes = << >>
      BY <1>5 DEF w, SegmentWrite
    <2> QED BY <1>3, <2>1, <2>2, <2>3, SkipsImage
  <1>6. CASE prog.type # "attributes" /\ ~SizesFit(prog)
    BY <1>1, <1>6, FailImage DEF Segment
  <1>7. CASE prog.type # "attributes" /\ SizesFit(prog)
    <2> DEFINE pad == Padding(prog)
               n   == Len(prog.bytes)
               z   == prog.memsz
    <2>1. /\ range' = [open |-> TRUE, addr |-> prog.vaddr, bytes |-> prog.bytes, padding |-> pad]
          /\ next' = next + 1 /\ UNCHANGED <<mem, sp, file, stage, root, out>>
      BY <1>1, <1>7 DEF Segment, SetMemoryRange
    <2>2. MovesOn
      BY <1>1, <2>1 DEF MovesOn
    <2>3. n \in Nat /\ z \in Nat /\ n <= z
      BY <1>4, <1>7 DEF SizesFit
    <2>4. /\ pad \in Seq(Byte) /\ Len(pad) = z - n
          /\ \A j \in 1..(z - n) : pad[j] = ZeroByte
      <3>1. z - n \in Nat
        BY <2>3
      <3> QED BY <3>1, DataAssumption DEF Padding, Zeroes
    <2>5. /\ w.addr = prog.vaddr
          /\ w.bytes = [j \in 1..z |-> IF j <= n THEN prog.bytes[j] ELSE ZeroByte]
      BY <1>7 DEF w, SegmentWrite
    <2> HIDE DEF pad
    <2>6. Len(w.bytes) = z
      BY <2>3, <2>5
    <2>7. \A j \in 1..n : w.bytes[j] = prog.bytes[j]
      BY <2>3, <2>5
    <2>8. \A j \in 1..(z - n) : w.bytes[n + j] = pad[j]
      <3> TAKE j \in 1..(z - n)
      <3>1. n + j \in 1..z /\ ~(n + j <= n)
        BY <2>3
      <3>2. w.bytes[n + j] = ZeroByte
        <4> HIDE DEF n, z
        <4> QED BY <2>5, <3>1
      <3> QED BY <2>4, <3>2
    <2>9. n + (z - n) = z
      BY <2>3
    <2>10. Holds(range', w)
      <3>1. /\ range'.open = TRUE /\ range'.addr = prog.vaddr
            /\ range'.bytes = prog.bytes /\ range'.padding = pad
        BY <2>1
      <3> QED BY <1>4, <2>4, <2>5, <2>6, <2>7, <2>8, <2>9, <3>1, SMTT(20) DEF Holds
    <2> QED BY <1>3, <2>2, <2>10, OpensImage
  <1> QED BY <1>5, <1>6, <1>7

\* A write that comes with no padding.
LEMMA HoldsAll ==
    ASSUME NEW w, w.bytes \in Seq(Byte), NEW r,
           r = [open |-> TRUE, addr |-> w.addr, bytes |-> w.bytes, padding |-> << >>]
    PROVE  Holds(r, w)
  <1>1. r.open = TRUE /\ r.addr = w.addr /\ r.bytes = w.bytes /\ r.padding = << >>
    OBVIOUS
  <1>2. Len(r.padding) = 0 /\ r.padding \in Seq(Byte) /\ Len(w.bytes) \in Nat
    BY <1>1
  <1>3. Len(w.bytes) + 0 = Len(w.bytes)
    BY <1>2
  <1> QED BY <1>1, <1>2, <1>3 DEF Holds

\* a patch over it,
LEMMA PatchSymbolImage == LoadInv /\ ImageInv /\ PatchSymbol => ImageInv'
  <1> SUFFICES ASSUME LoadInv, ImageInv, PatchSymbol PROVE ImageInv'
    OBVIOUS
  <1> DEFINE s == file.symbols[next]
             w == PatchWrite(s)
  <1>1. /\ stage = "symbols" /\ ~range.open /\ next <= Len(file.symbols)
        /\ next \in Nat \ {0} /\ Len(file.symbols) \in Nat /\ Len(file.progs) \in Nat
        /\ next' = next + 1 /\ UNCHANGED <<mem, sp, file, stage>>
    BY WriteParts DEF PatchSymbol, LoadInv
  <1>2. next \in 1..Len(file.symbols) /\ Begun + 1 = Len(file.progs) + next
    BY <1>1 DEF Begun
  <1>3. Writes[Begun + 1] = w
    BY <1>2, WriteParts
  <1>4. MovesOn
    BY <1>1 DEF MovesOn
  <1>5. CASE s.patch = "none" /\ UNCHANGED range
    <2>1. w.bytes = << >>
      BY <1>5 DEF PatchWrite
    <2> HIDE DEF w
    <2> QED BY <1>3, <1>4, <1>5, <2>1, SkipsImage
  <1>6. CASE s.patch = "ret" /\ SetMemoryRange(s.value, RetPatch, << >>)
    <2>1. w.addr = s.value /\ w.bytes = RetPatch /\ RetPatch \in Seq(Byte)
      BY <1>6, LoaderAssumption DEF PatchWrite
    <2> HIDE DEF w, s
    <2>2. range' = [open |-> TRUE, addr |-> w.addr, bytes |-> w.bytes, padding |-> << >>]
      BY <1>6, <2>1 DEF SetMemoryRange
    <2>3. Holds(range', w)
      BY <2>1, <2>2, HoldsAll
    <2> QED BY <1>3, <1>4, <2>3, OpensImage
  <1>7. CASE s.patch = "profile" /\ SetMemoryRange(s.value, MemProfile, << >>)
    <2>1. w.addr = s.value /\ w.bytes = MemProfile /\ MemProfile \in Seq(Byte)
      BY <1>7, LoaderAssumption DEF PatchWrite
    <2> HIDE DEF w, s
    <2>2. range' = [open |-> TRUE, addr |-> w.addr, bytes |-> w.bytes, padding |-> << >>]
      BY <1>7, <2>1 DEF SetMemoryRange
    <2>3. Holds(range', w)
      BY <2>1, <2>2, HoldsAll
    <2> QED BY <1>3, <1>4, <2>3, OpensImage
  <1> QED BY <1>5, <1>6, <1>7 DEF PatchSymbol

\* and a word of the stack over that.
LEMMA StoreWordImage == LoadInv /\ ImageInv /\ StoreWord => ImageInv'
  <1> SUFFICES ASSUME LoadInv, ImageInv, StoreWord PROVE ImageInv'
    OBVIOUS
  <1> DEFINE w == StackWrite(next)
  <1>1. /\ stage = "stack" /\ ~range.open /\ next <= Len(StackWords)
        /\ next \in Nat \ {0} /\ Len(file.symbols) \in Nat /\ Len(file.progs) \in Nat
        /\ Len(StackWords) \in Nat
        /\ next' = next + 1 /\ UNCHANGED <<mem, sp, file, stage>>
        /\ SetMemoryRange((sp + WordBytes * next) % AddrCount, StackWords[next], << >>)
    BY WriteParts DEF StoreWord, LoadInv
  <1>2. next \in 1..Len(StackWords)
    BY <1>1
  <1>3. Begun + 1 = Len(file.progs) + Len(file.symbols) + next
    <2>1. Begun = Len(file.progs) + Len(file.symbols) + (next - 1)
      BY <1>1 DEF Begun
    <2> QED BY <1>1, <2>1
  <1>4. Writes[Begun + 1] = w
    BY <1>2, <1>3, WriteParts
  <1>5. MovesOn
    BY <1>1 DEF MovesOn
  <1>6. sp = StackPointer
    BY <1>1 DEF ImageInv
  <1>7. /\ w.addr = (sp + WordBytes * next) % AddrCount /\ w.bytes = StackWords[next]
        /\ w.bytes \in Seq(Byte)
    BY <1>2, <1>6, LoaderAssumption DEF StackWrite
  <1> HIDE DEF w
  <1>8. range' = [open |-> TRUE, addr |-> w.addr, bytes |-> w.bytes, padding |-> << >>]
    BY <1>1, <1>7 DEF SetMemoryRange
  <1>9. Holds(range', w)
    BY <1>7, <1>8, HoldsAll
  <1> QED BY <1>4, <1>5, <1>9, OpensImage

\* The steps from one stage to the next write nothing.
LEMMA StageImage ==
    LoadInv /\ ImageInv /\ (CheckMachine \/ SegmentsDone \/ NoSymbols \/ SetStackPointer
                            \/ SetWitnessAndStateHash \/ WriteState \/ StartRun) => ImageInv'
  <1> SUFFICES ASSUME LoadInv, ImageInv PROVE
        (CheckMachine \/ SegmentsDone \/ NoSymbols \/ SetStackPointer
         \/ SetWitnessAndStateHash \/ WriteState \/ StartRun) => ImageInv'
    OBVIOUS
  <1>1. /\ Len(file.progs) \in Nat /\ Len(file.symbols) \in Nat /\ Len(StackWords) \in Nat
        /\ Len(Writes) = Len(file.progs) + Len(file.symbols) + Len(StackWords)
        /\ next \in Nat \ {0}
    BY WriteParts DEF LoadInv
  <1>2. CASE CheckMachine
    <2>1. CASE Fail
      BY <2>1, FailImage
    <2>2. CASE stage' = "segments" /\ next' = 1 /\ UNCHANGED <<mem, sp, file, range, root, out>>
      <3>1. stage = "machine" /\ ~range.open
        BY <1>2, <2>2 DEF CheckMachine, ImageInv
      <3>2. Begun = 0 /\ Begun' = 0 /\ Writes' = Writes
        BY <2>2, <3>1, SameWrites DEF Begun
      <3> QED BY <1>1, <2>2, <3>1, <3>2 DEF ImageInv, Building, Built
    <2> QED BY <1>2, <2>1, <2>2 DEF CheckMachine, Enter
  <1>3. CASE SegmentsDone
    <2>1. /\ stage = "segments" /\ ~range.open /\ next > Len(file.progs)
          /\ stage' = "symbols" /\ next' = 1 /\ UNCHANGED <<mem, sp, file, range, root, out>>
      BY <1>3 DEF SegmentsDone, Enter
    <2>2. next - 1 = Len(file.progs)
      BY <1>1, <2>1 DEF ImageInv
    <2>3. Begun = next - 1 /\ Begun' = Len(file.progs) + (1 - 1) /\ Writes' = Writes
      BY <2>1, SameWrites DEF Begun
    <2>4. Begun' = Begun /\ next' <= Len(file'.symbols) + 1
      BY <1>1, <2>1, <2>2, <2>3
    <2>5. Bytes(mem') = Image(Writes', Begun')
      BY <2>1, <2>3, <2>4 DEF ImageInv, Building
    <2> HIDE DEF Begun
    <2> QED BY <2>1, <2>4, <2>5 DEF ImageInv, Building, Built
  <1>4. CASE NoSymbols
    BY <1>4, FailImage DEF NoSymbols
  <1>5. CASE SetStackPointer
    <2>1. /\ stage = "symbols" /\ ~range.open /\ next > Len(file.symbols) /\ sp' = StackPointer
          /\ stage' = "stack" /\ next' = 1 /\ UNCHANGED <<mem, file, range, root, out>>
      BY <1>5 DEF SetStackPointer, Enter
    <2>2. next - 1 = Len(file.symbols)
      BY <1>1, <2>1 DEF ImageInv
    <2>3. /\ Begun = Len(file.progs) + (next - 1) /\ Writes' = Writes
          /\ Begun' = Len(file.progs) + Len(file.symbols) + (1 - 1)
      BY <2>1, SameWrites DEF Begun
    <2>4. Begun' = Begun /\ next' <= Len(StackWords) + 1
      <3> DEFINE P == Len(file.progs)
                 S == Len(file.symbols)
      <3> HIDE DEF P, S
      <3>1. P \in Nat /\ S \in Nat /\ Begun = P + S /\ Begun' = P + S + (1 - 1)
        BY <1>1, <2>2, <2>3 DEF P, S
      <3>2. P + S + (1 - 1) = P + S
        BY <3>1
      <3> QED BY <1>1, <2>1, <3>1, <3>2
    <2>5. Bytes(mem') = Image(Writes', Begun')
      BY <2>1, <2>3, <2>4 DEF ImageInv, Building
    <2> QED BY <2>1, <2>4, <2>5 DEF ImageInv, Building, Built
  <1>6. CASE SetWitnessAndStateHash
    <2>1. /\ stage = "stack" /\ ~range.open /\ next > Len(StackWords)
          /\ stage' = "write" /\ mem' = Merkleize(mem, {Root}) /\ UNCHANGED file
      BY <1>6 DEF SetWitnessAndStateHash, Enter, MerkleRoot
    <2>2. next - 1 = Len(StackWords)
      BY <1>1, <2>1 DEF ImageInv
    <2>3. Begun = Len(file.progs) + Len(file.symbols) + (next - 1) /\ Writes' = Writes
      BY <2>1, SameWrites DEF Begun
    <2>4. Begun = Len(Writes)
      BY <1>1, <2>2, <2>3
    <2>5. Bytes(mem) = Image(Writes, Len(Writes))
      BY <2>1, <2>4 DEF ImageInv, Building
    <2>6. IInv(mem)
      BY DEF LoadInv
    <2>7. Contents(mem') = Contents(mem)
      BY <2>1, <2>6, MerklePure
    <2>8. Bytes(mem') = Bytes(mem)
      BY <2>7 DEF Bytes, ByteAt
    <2> QED BY <2>1, <2>3, <2>5, <2>8 DEF ImageInv, Building, Built
  <1>7. CASE WriteState
    <2>1. stage = "write" /\ stage' = "loaded" /\ UNCHANGED <<mem, file>>
      BY <1>7 DEF WriteState, Enter
    <2> QED BY <2>1, SameWrites DEF ImageInv, Building, Built
  <1>8. CASE StartRun
    <2>1. /\ stage = "loaded" /\ stage' = "run" /\ UNCHANGED file
          /\ mem' = Deserialize(Serialize(mem)) /\ IInv(mem)
      BY <1>8 DEF StartRun, Enter, LoadInv
    <2>2. Contents(mem') = Contents(mem)
      BY <2>1, ReloadParts
    <2>3. Bytes(mem') = Bytes(mem)
      BY <2>2 DEF Bytes, ByteAt
    <2> QED BY <2>1, <2>3, SameWrites DEF ImageInv, Building, Built
  <1> QED BY <1>2, <1>3, <1>4, <1>5, <1>6, <1>7, <1>8

\* Every step keeps the image.
LEMMA ImageInvariance == Spec => []ImageInv
  <1>1. LoadInv /\ ImageInv /\ [Next]_vars => ImageInv'
    <2> SUFFICES ASSUME LoadInv, ImageInv, [Next]_vars PROVE ImageInv'
      OBVIOUS
    <2>1. CASE ReadFails \/ WriteFails
      BY <2>1, FailImage DEF ReadFails, WriteFails
    <2>2. CASE UNCHANGED vars
      <3>1. Writes' = Writes /\ Begun' = Begun
        BY <2>2, SameWrites DEF vars, Begun
      <3> QED BY <2>2, <3>1 DEF vars, ImageInv
    <2>3. CASE Load
      BY <2>3, ReadPageImage, ReadEOFImage, LoadSegmentImage, PatchSymbolImage,
         StoreWordImage, StageImage DEF Load
    <2> QED BY <2>1, <2>2, <2>3 DEF Next
  <1> QED BY LoadInvariance, ImageInit, <1>1, PTL DEF Spec

\* The program is in memory byte for byte, in the state that is hashed, in the file
\* and in the memory that run starts from: whatever segments the file has, wherever
\* pages begin and end, ranges overlap or wrap around.
THEOREM ImageAlwaysLoaded == Spec => []ImageLoaded
  <1>1. ImageInv => ImageLoaded
    <2> SUFFICES ASSUME ImageInv, stage \in {"write", "loaded", "run"}, NEW a \in Uint64
                 PROVE  ByteAt(mem, a) = ImageAfter(Writes, Len(Writes), a)
      BY DEF ImageLoaded
    <2>1. Bytes(mem)[a] = Image(Writes, Len(Writes))[a]
      BY DEF ImageInv, Built
    <2> QED BY <2>1 DEF Bytes, Image
  <1> QED BY ImageInvariance, <1>1, PTL

=============================================================================
