----------------------------- MODULE AluProofs -----------------------------
(***************************************************************************)
(* Theorems about the arithmetic of the two VMs, for registers of every    *)
(* width that is a power of two and wide words of more than twice that     *)
(* width: 64 and 256 bits are one instance.                                *)
(*                                                                         *)
(* The invariant is only that registers hold words (Registers): whatever   *)
(* words they are, the results agree.  Two facts carry the proofs.  The    *)
(* slow VM computes in 256 bits and cuts to 64 afterwards, the fast VM in  *)
(* 64 bits at once: a cut first to the larger and then to the smaller size *)
(* is the smaller cut alone (RemainderTwice).  And masks are arithmetic: a *)
(* word is made of its ones (OfOnesOf), so that and-ing with a row of ones *)
(* is a remainder (AndMask), or-ing with one a sum (OrRow), and sign       *)
(* extension by masks is two's complement (SpreadValue).                   *)
(***************************************************************************)
EXTENDS AluLockstep, WellFoundedInduction, TLAPS

-----------------------------------------------------------------------------
(* Division and induction.                                                 *)

\* Quotient and remainder are unique.
LEMMA QuotientUnique ==
    ASSUME NEW i \in Int, NEW d \in Nat \ {0}, NEW q \in Int, NEW r \in 0..(d - 1),
           i = d * q + r
    PROVE  i \div d = q /\ i % d = r
  OBVIOUS

\* A number is its quotient times the divisor and the remainder.
LEMMA QuotientParts ==
    ASSUME NEW i \in Int, NEW d \in Nat \ {0}
    PROVE  /\ i \div d \in Int /\ i % d \in 0..(d - 1)
           /\ i = d * (i \div d) + (i % d)
  OBVIOUS

\* A set of natural numbers has a least one.
LEMMA LeastNumber ==
    ASSUME NEW T, T \subseteq Nat, T # {}
    PROVE  \E x \in T : \A y \in T : x <= y
  <1> DEFINE R == OpToRel(<, Nat)
  <1>1. IsWellFoundedOn(R, Nat)
    BY NatLessThanWellFounded
  <1>2. PICK x \in T : \A y \in T : <<y, x>> \notin R
    <2> HIDE DEF R
    <2> QED BY <1>1, WFMin
  <1>3. R = {p \in Nat \X Nat : p[1] < p[2]}
    BY DEF OpToRel
  <1>4. \A y \in T : ~(y < x)
    BY <1>2, <1>3
  <1> HIDE DEF R
  <1>5. \A y \in T : x <= y
    BY <1>4
  <1> QED BY <1>5

\* What holds of a number and of the one after each holds up to a bound.
LEMMA UpTo ==
    ASSUME NEW T, NEW m \in Nat, NEW N \in Nat, m \in T,
           \A j \in m..(N - 1) : j \in T => j + 1 \in T
    PROVE  m..N \subseteq T
  <1> DEFINE Bad == m..N \ T
  <1>1. ASSUME Bad # {} PROVE FALSE
    <2>1. PICK j \in Bad : \A y \in Bad : j <= y
      <3>1. Bad \subseteq Nat
        OBVIOUS
      <3> HIDE DEF Bad
      <3> QED BY <1>1, <3>1, LeastNumber
    <2>2. j \in m..N /\ j # m /\ j \notin T
      OBVIOUS
    <2>3. j - 1 \in m..(N - 1) /\ j - 1 \notin Bad
      BY <2>1, <2>2
    <2>4. j - 1 \in T /\ (j - 1) + 1 = j
      BY <2>3
    <2> QED BY <2>2, <2>3, <2>4
  <1> QED BY <1>1

-----------------------------------------------------------------------------
(* Powers of two.                                                          *)

\* The powers up to the width of a wide word.
LEMMA PowerStep ==
    ASSUME NEW n \in 0..WIDE
    PROVE  2 ^ n \in Nat \ {0} /\ 2 ^ (n + 1) = 2 * 2 ^ n
  BY PowersAssumption

\* A power is a multiple of the smaller ones.
LEMMA PowerDivides ==
    ASSUME NEW k \in 0..WIDE, NEW n \in k..WIDE
    PROVE  \E r \in Nat \ {0} : 2 ^ n = 2 ^ k * r
  <1> DEFINE T == {j \in Nat : j <= WIDE => \E r \in Nat \ {0} : 2 ^ j = 2 ^ k * r}
  <1>0. WIDE \in Nat /\ k \in Nat /\ n \in Nat /\ 2 ^ k \in Nat \ {0}
    BY WidthAssumption, PowerStep
  <1>1. k \in T
    <2>1. 2 ^ k = 2 ^ k * 1
      BY <1>0
    <2> QED BY <1>0, <2>1
  <1>2. ASSUME NEW j \in k..(WIDE - 1), j \in T PROVE j + 1 \in T
    <2>1. PICK r \in Nat \ {0} : 2 ^ j = 2 ^ k * r
      BY <1>0, <1>2
    <2>2. j \in 0..WIDE /\ j + 1 \in Nat
      BY <1>0
    <2>3. 2 ^ (j + 1) = 2 * 2 ^ j
      BY <2>2, PowerStep
    <2> DEFINE p == 2 ^ k
               t == 2 * r
    <2>4. t \in Nat \ {0}
      OBVIOUS
    <2>5. p * t = 2 * (p * r) /\ p \in Nat
      <3> HIDE DEF p
      <3>1. p \in Nat
        BY <1>0 DEF p
      <3> QED BY <3>1
    <2>6. 2 ^ (j + 1) = p * t
      BY <2>1, <2>3, <2>5
    <2> HIDE DEF t
    <2> QED BY <2>2, <2>4, <2>6
  <1> HIDE DEF T
  <1>3. k..WIDE \subseteq T
    BY <1>0, <1>1, <1>2, UpTo
  <1>4. n \in T
    BY <1>3
  <1> QED BY <1>0, <1>4 DEF T

\* A larger power is no smaller.
LEMMA PowerOrder ==
    ASSUME NEW k \in 0..WIDE, NEW n \in k..WIDE
    PROVE  2 ^ k <= 2 ^ n
  <1> DEFINE p == 2 ^ k
  <1>1. PICK r \in Nat \ {0} : 2 ^ n = p * r
    BY PowerDivides
  <1>2. p \in Nat \ {0}
    BY PowerStep
  <1> HIDE DEF p
  <1>3. PICK t \in Nat : r = 1 + t
    <2>1. r - 1 \in Nat /\ r = 1 + (r - 1)
      OBVIOUS
    <2> QED BY <2>1
  <1>4. p * r = p + p * t /\ p * t \in Nat
    BY <1>2, <1>3
  <1>5. p <= 2 ^ n
    <2> DEFINE x == p * t
    <2>1. 2 ^ n = p + x /\ x \in Nat
      BY <1>1, <1>4
    <2> HIDE DEF x
    <2> QED BY <1>2, <2>1
  <1> QED BY <1>5 DEF p

\* Remainders by a power and by a smaller one.
LEMMA RemainderTwice ==
    ASSUME NEW i \in Int, NEW k \in 0..WIDE, NEW n \in k..WIDE
    PROVE  (i % 2 ^ n) % 2 ^ k = i % 2 ^ k
  <1> DEFINE p == 2 ^ k
             w == 2 ^ n
             q == i \div w
             s == i % w
             u == s \div p
             t == s % p
  <1>1. PICK r \in Nat \ {0} : w = p * r
    BY PowerDivides
  <1>2. p \in Nat \ {0} /\ w \in Nat \ {0}
    <2>1. n \in 0..WIDE
      BY WidthAssumption
    <2> QED BY <2>1, PowerStep
  <1> HIDE DEF p, w
  <1>3. q \in Int /\ s \in 0..(w - 1) /\ i = w * q + s
    BY <1>2, QuotientParts
  <1> HIDE DEF q, s
  <1>4. u \in Int /\ t \in 0..(p - 1) /\ s = p * u + t
    BY <1>2, <1>3, QuotientParts
  <1> HIDE DEF u, t
  <1> DEFINE rq == r * q
             z == rq + u
  <1>5. rq \in Int /\ w * q = p * rq
    BY <1>1, <1>2, <1>3
  <1> HIDE DEF rq
  <1>6. z \in Int /\ p * z = p * rq + p * u
    BY <1>2, <1>4, <1>5
  <1> HIDE DEF z
  <1>7. i = p * z + t
    <2> DEFINE A == p * rq
               B == p * u
    <2>1. A \in Int /\ B \in Int /\ i = A + s /\ s = B + t /\ p * z = A + B
      BY <1>2, <1>3, <1>4, <1>5, <1>6
    <2> HIDE DEF A, B
    <2> QED BY <1>4, <2>1
  <1>8. i % p = t
    BY <1>2, <1>4, <1>6, <1>7, QuotientUnique
  <1> QED BY <1>8 DEF t, s, p, w

-----------------------------------------------------------------------------
(* The ones of a word.                                                     *)

\* The values of a wide word.
Wide == 0..(2 ^ WIDE - 1)

\* What a bit adds to the word that has the given ones.
Weight(ones, i) == IF i \in ones THEN 2 ^ i ELSE 0

\* The words of the lowest n ones, for each n.
Low(ones) ==
    CHOOSE f : f = [n \in 0..WIDE |-> IF n = 0 THEN 0 ELSE f[n - 1] + Weight(ones, n - 1)]

\* The last of them is the word that has all of these ones.
LEMMA OfOnesLow == \A ones : OfOnes(ones) = Low(ones)[WIDE]
  BY DEF OfOnes, Low, Weight

\* f has the words of the lowest ones, up to the first n.
Sums(f, n, ones) ==
    /\ f \in [0..n -> Nat]
    /\ f[0] = 0
    /\ \A i \in 1..n : f[i] = f[i - 1] + Weight(ones, i - 1)

\* A weight is a number.
LEMMA WeightNat ==
    ASSUME NEW ones, NEW i \in 0..WIDE
    PROVE  Weight(ones, i) \in Nat
  BY PowerStep DEF Weight

\* There are such words.
LEMMA SumsExist ==
    ASSUME NEW ones
    PROVE  \E f : Sums(f, WIDE, ones)
  <1> DEFINE T == {n \in Nat : \E f : Sums(f, n, ones)}
             z == 0
  <1>0. WIDE \in Nat /\ z \in Nat
    BY WidthAssumption
  <1>1. z \in T
    <2> DEFINE f == [i \in 0..0 |-> 0]
    <2>1. Sums(f, 0, ones)
      BY DEF Sums
    <2> QED BY <2>1
  <1>2. ASSUME NEW j \in z..(WIDE - 1), j \in T PROVE j + 1 \in T
    <2>1. PICK f : Sums(f, j, ones)
      BY <1>2
    <2> DEFINE x == f[j] + Weight(ones, j)
               g == [i \in 0..(j + 1) |-> IF i = j + 1 THEN x ELSE f[i]]
    <2>2. j \in Nat /\ j + 1 \in 1..WIDE /\ j \in 0..WIDE /\ j \in 0..j
      BY <1>0
    <2>3. x \in Nat
      <3>1. f[j] \in Nat
        BY <2>1, <2>2 DEF Sums
      <3>2. Weight(ones, j) \in Nat
        BY <2>2, WeightNat
      <3> QED BY <3>1, <3>2
    <2> HIDE DEF x
    <2>5. g \in [0..(j + 1) -> Nat]
      BY <2>1, <2>2, <2>3 DEF Sums
    <2>6. g[0] = 0
      BY <2>1, <2>2 DEF Sums
    <2>7. ASSUME NEW i \in 1..(j + 1) PROVE g[i] = g[i - 1] + Weight(ones, i - 1)
      <3>1. CASE i = j + 1
        <4>1. g[i] = x /\ g[i - 1] = f[j] /\ i - 1 = j
          BY <2>2, <3>1
        <4> QED BY <4>1 DEF x
      <3>2. CASE i # j + 1
        <4>1. i \in 1..j /\ g[i] = f[i] /\ g[i - 1] = f[i - 1]
          BY <2>2, <3>2
        <4>2. f[i] = f[i - 1] + Weight(ones, i - 1)
          BY <2>1, <4>1 DEF Sums
        <4> QED BY <4>1, <4>2
      <3> QED BY <3>1, <3>2
    <2>8. Sums(g, j + 1, ones)
      BY <2>5, <2>6, <2>7 DEF Sums
    <2>9. j + 1 \in Nat
      BY <2>2
    <2> HIDE DEF g
    <2> QED BY <2>8, <2>9
  <1> HIDE DEF T, z
  <1>3. z..WIDE \subseteq T
    BY <1>0, <1>1, <1>2, UpTo
  <1>4. WIDE \in T
    BY <1>0, <1>3 DEF z
  <1> QED BY <1>4 DEF T

\* The recursion defines them.
LEMMA LowSums ==
    ASSUME NEW ones
    PROVE  Sums(Low(ones), WIDE, ones)
  <1> DEFINE P == WIDE
             G(f) == [n \in 0..P |-> IF n = 0 THEN 0 ELSE f[n - 1] + Weight(ones, n - 1)]
             v == Low(ones)
  <1>0. P \in Nat
    BY WidthAssumption
  <1>1. PICK g : Sums(g, P, ones)
    BY SumsExist
  <1>2. g = G(g)
    <2>1. g = [i \in 0..P |-> g[i]]
      BY <1>1 DEF Sums
    <2>2. ASSUME NEW i \in 0..P PROVE g[i] = IF i = 0 THEN 0 ELSE g[i - 1] + Weight(ones, i - 1)
      <3>1. CASE i = 0
        BY <1>1, <3>1 DEF Sums
      <3>2. CASE i # 0
        <4>1. i \in 1..P
          BY <1>0, <3>2
        <4> QED BY <1>1, <3>2, <4>1 DEF Sums
      <3> QED BY <3>1, <3>2
    <2> QED BY <2>1, <2>2, Zenon
  <1>3. v = G(v)
    BY <1>2 DEF Low
  <1> HIDE DEF v
  <1>4. v[0] = 0 /\ \A i \in 1..P : v[i] = v[i - 1] + Weight(ones, i - 1)
    <2>1. v[0] = 0
      BY <1>0, <1>3
    <2>2. ASSUME NEW i \in 1..P PROVE v[i] = v[i - 1] + Weight(ones, i - 1)
      <3>1. i \in 0..P /\ i # 0
        BY <1>0
      <3> QED BY <1>3, <3>1
    <2> QED BY <2>1, <2>2
  <1> DEFINE T == {n \in Nat : n \in 0..P => v[n] = g[n]}
             z == 0
  <1>5. z \in T /\ z \in Nat
    BY <1>1, <1>4 DEF Sums
  <1>6. ASSUME NEW j \in z..(P - 1), j \in T PROVE j + 1 \in T
    <2>1. j \in 0..P /\ j + 1 \in 1..P /\ j + 1 \in Nat /\ (j + 1) - 1 = j
      BY <1>0
    <2>2. v[j + 1] = v[j] + Weight(ones, j)
      BY <1>4, <2>1
    <2>3. g[j + 1] = g[j] + Weight(ones, j)
      BY <1>1, <2>1 DEF Sums
    <2>4. v[j] = g[j]
      BY <1>6, <2>1
    <2> QED BY <2>1, <2>2, <2>3, <2>4
  <1> HIDE DEF T, z
  <1>7. z..P \subseteq T
    BY <1>0, <1>5, <1>6, UpTo
  <1>8. ASSUME NEW n \in 0..P PROVE v[n] \in Nat
    <2>1. n \in T
      BY <1>7 DEF z
    <2>2. g[n] \in Nat
      BY <1>1 DEF Sums
    <2> QED BY <2>1, <2>2 DEF T
  <1>9. v \in [0..P -> Nat]
    <2>1. v = [n \in 0..P |-> v[n]]
      BY <1>3
    <2> QED BY <1>8, <2>1
  <1> QED BY <1>4, <1>9 DEF Sums, v

\* One more of them.
LEMMA SumNext ==
    ASSUME NEW f, NEW ones, Sums(f, WIDE, ones), NEW j \in 0..(WIDE - 1)
    PROVE  /\ f[j] \in Nat /\ f[j + 1] \in Nat /\ 2 ^ j \in Nat \ {0}
           /\ f[j + 1] = f[j] + Weight(ones, j) /\ Weight(ones, j) \in {0, 2 ^ j}
           /\ 2 ^ (j + 1) = 2 * 2 ^ j
  <1>1. j \in 0..WIDE /\ j + 1 \in 0..WIDE /\ j + 1 \in 1..WIDE /\ (j + 1) - 1 = j
    BY WidthAssumption
  <1>2. f[j] \in Nat /\ f[j + 1] \in Nat /\ f[j + 1] = f[j] + Weight(ones, j)
    BY <1>1 DEF Sums
  <1>3. Weight(ones, j) \in {0, 2 ^ j}
    BY DEF Weight
  <1> QED BY <1>1, <1>2, <1>3, PowerStep

\* The words of the lowest n ones have n bits.
LEMMA SumBound ==
    ASSUME NEW f, NEW ones, Sums(f, WIDE, ones), NEW n \in 0..WIDE
    PROVE  f[n] \in 0..(2 ^ n - 1)
  <1> DEFINE T == {j \in Nat : j <= WIDE => f[j] \in 0..(2 ^ j - 1)}
             z == 0
  <1>0. WIDE \in Nat /\ z \in Nat
    BY WidthAssumption
  <1>1. z \in T
    BY PowersAssumption DEF Sums
  <1>2. ASSUME NEW j \in z..(WIDE - 1), j \in T PROVE j + 1 \in T
    <2>1. j \in 0..(WIDE - 1) /\ j <= WIDE /\ j \in Nat /\ j + 1 \in Nat
      BY <1>0
    <2>2. f[j] \in 0..(2 ^ j - 1)
      BY <1>2, <2>1
    <2> DEFINE p == 2 ^ j
               q == 2 ^ (j + 1)
               w == Weight(ones, j)
    <2>3. p \in Nat \ {0} /\ q = 2 * p /\ w \in {0, p} /\ f[j + 1] = f[j] + w
      BY <2>1, SumNext
    <2>4. f[j] \in 0..(p - 1)
      BY <2>2
    <2> HIDE DEF p, q, w
    <2>5. f[j + 1] \in 0..(q - 1)
      BY <2>3, <2>4
    <2> QED BY <2>1, <2>5 DEF q
  <1> HIDE DEF T, z
  <1>3. z..WIDE \subseteq T
    BY <1>0, <1>1, <1>2, UpTo
  <1>4. n \in T /\ n <= WIDE
    BY <1>0, <1>3 DEF z
  <1> QED BY <1>4 DEF T

\* Where two sets of ones agree, so do the words.
LEMMA SumSame ==
    ASSUME NEW f, NEW g, NEW A, NEW B, Sums(f, WIDE, A), Sums(g, WIDE, B), NEW k \in 0..WIDE,
           \A i \in 0..(k - 1) : i \in A <=> i \in B
    PROVE  f[k] = g[k]
  <1> DEFINE T == {j \in Nat : j <= k => f[j] = g[j]}
             z == 0
  <1>0. WIDE \in Nat /\ z \in Nat /\ k \in Nat
    BY WidthAssumption
  <1>1. z \in T
    BY DEF Sums
  <1>2. ASSUME NEW j \in z..(k - 1), j \in T PROVE j + 1 \in T
    <2>1. j \in 0..(WIDE - 1) /\ j <= k /\ j \in Nat /\ j + 1 \in Nat /\ j \in 0..(k - 1)
      BY <1>0
    <2>2. f[j] = g[j]
      BY <1>2, <2>1
    <2>3. f[j + 1] = f[j] + Weight(A, j) /\ g[j + 1] = g[j] + Weight(B, j)
      BY <2>1, SumNext
    <2>4. Weight(A, j) = Weight(B, j)
      BY <2>1 DEF Weight
    <2> QED BY <2>1, <2>2, <2>3, <2>4
  <1> HIDE DEF T, z
  <1>3. z..k \subseteq T
    BY <1>0, <1>1, <1>2, UpTo
  <1>4. k \in T
    BY <1>0, <1>3 DEF z
  <1> QED BY <1>0, <1>4 DEF T

\* Zeroes add nothing.
LEMMA SumZeroes ==
    ASSUME NEW f, NEW A, Sums(f, WIDE, A), NEW k \in 0..WIDE, NEW n \in k..WIDE,
           \A i \in k..(n - 1) : i \notin A
    PROVE  f[n] = f[k]
  <1> DEFINE T == {j \in Nat : j <= n => f[j] = f[k]}
  <1>0. WIDE \in Nat /\ k \in Nat /\ n \in Nat
    BY WidthAssumption
  <1>1. k \in T
    BY <1>0
  <1>2. ASSUME NEW j \in k..(n - 1), j \in T PROVE j + 1 \in T
    <2>1. j \in 0..(WIDE - 1) /\ j <= n /\ j \in Nat /\ j + 1 \in Nat
      BY <1>0
    <2>2. f[j] = f[k]
      BY <1>2, <2>1
    <2>3. f[j + 1] = f[j] + Weight(A, j) /\ f[j] \in Nat
      BY <2>1, SumNext
    <2>4. Weight(A, j) = 0
      BY DEF Weight
    <2> QED BY <2>1, <2>2, <2>3, <2>4
  <1> HIDE DEF T
  <1>3. k..n \subseteq T
    BY <1>0, <1>1, <1>2, UpTo
  <1>4. n \in T
    BY <1>0, <1>3
  <1> QED BY <1>0, <1>4 DEF T

\* A row of ones adds the difference of two powers.
LEMMA SumRow ==
    ASSUME NEW f, NEW A, Sums(f, WIDE, A), NEW k \in 0..WIDE, NEW n \in k..WIDE,
           \A i \in k..(n - 1) : i \in A
    PROVE  f[n] = f[k] + 2 ^ n - 2 ^ k
  <1> DEFINE T == {j \in Nat : j <= n => f[j] = f[k] + 2 ^ j - 2 ^ k}
  <1>0. WIDE \in Nat /\ k \in Nat /\ n \in Nat
    BY WidthAssumption
  <1>k. f[k] \in Nat /\ 2 ^ k \in Nat
    BY PowerStep DEF Sums
  <1>1. k \in T
    BY <1>0, <1>k
  <1>2. ASSUME NEW j \in k..(n - 1), j \in T PROVE j + 1 \in T
    <2>1. j \in 0..(WIDE - 1) /\ j <= n /\ j \in Nat /\ j + 1 \in Nat
      BY <1>0
    <2>2. f[j] = f[k] + 2 ^ j - 2 ^ k
      BY <1>2, <2>1
    <2>3. f[j + 1] = f[j] + Weight(A, j) /\ 2 ^ j \in Nat /\ 2 ^ (j + 1) = 2 * 2 ^ j
      BY <2>1, SumNext
    <2>4. Weight(A, j) = 2 ^ j
      BY DEF Weight
    <2> DEFINE p == 2 ^ j
               q == 2 ^ (j + 1)
               o == 2 ^ k
    <2>5. f[j] = f[k] + p - o /\ f[j + 1] = f[j] + p /\ p \in Nat /\ q = 2 * p /\ o \in Nat
      BY <1>k, <2>2, <2>3, <2>4
    <2> HIDE DEF p, q, o
    <2>6. f[j + 1] = f[k] + q - o
      BY <1>k, <2>5
    <2> QED BY <2>1, <2>6 DEF q, o
  <1> HIDE DEF T
  <1>3. k..n \subseteq T
    BY <1>0, <1>1, <1>2, UpTo
  <1>4. n \in T
    BY <1>0, <1>3
  <1> QED BY <1>0, <1>4 DEF T

\* The ones from the k-th on are a multiple of its power.
LEMMA SumTail ==
    ASSUME NEW f, NEW A, Sums(f, WIDE, A), NEW k \in 0..WIDE
    PROVE  \E q \in Nat : f[WIDE] = f[k] + 2 ^ k * q
  <1> DEFINE T == {j \in Nat : j <= WIDE => \E q \in Nat : f[j] = f[k] + 2 ^ k * q}
             p == 2 ^ k
  <1>0. WIDE \in Nat /\ k \in Nat /\ f[k] \in Nat /\ p \in Nat
    BY WidthAssumption, PowerStep DEF Sums
  <1>1. k \in T
    <2>1. f[k] = f[k] + 2 ^ k * 0
      BY <1>0
    <2> QED BY <1>0, <2>1
  <1>2. ASSUME NEW j \in k..(WIDE - 1), j \in T PROVE j + 1 \in T
    <2>1. j \in 0..(WIDE - 1) /\ j <= WIDE /\ j \in Nat /\ j + 1 \in Nat /\ j \in k..WIDE
      BY <1>0
    <2>2. PICK q \in Nat : f[j] = f[k] + p * q
      BY <1>2, <2>1
    <2>3. PICK r \in Nat \ {0} : 2 ^ j = p * r
      BY <2>1, PowerDivides
    <2>4. f[j + 1] = f[j] + Weight(A, j) /\ Weight(A, j) \in {0, 2 ^ j}
      BY <2>1, SumNext
    <2> HIDE DEF p
    <2>5. \E t \in Nat : f[j + 1] = f[k] + p * t
      <3>1. CASE Weight(A, j) = 0
        <4> DEFINE x == p * q
        <4>1. x \in Nat
          BY <1>0
        <4> HIDE DEF x
        <4>2. f[j + 1] = f[k] + x
          BY <1>0, <2>2, <2>4, <3>1, <4>1 DEF x
        <4> QED BY <4>2 DEF x
      <3>2. CASE Weight(A, j) # 0
        <4> DEFINE x == p * q
                   y == p * r
                   t == q + r
        <4>1. x \in Nat /\ y \in Nat /\ p * t = x + y /\ t \in Nat
          BY <1>0
        <4>2. f[j] = f[k] + x /\ f[j + 1] = f[j] + y
          BY <2>2, <2>3, <2>4, <3>2
        <4> HIDE DEF x, y, t
        <4>3. f[j + 1] = f[k] + p * t
          BY <1>0, <4>1, <4>2
        <4> QED BY <4>1, <4>3
      <3> QED BY <3>1, <3>2
    <2> QED BY <2>1, <2>5 DEF p
  <1> HIDE DEF T
  <1>3. k..WIDE \subseteq T
    BY <1>0, <1>1, <1>2, UpTo
  <1>4. WIDE \in T
    BY <1>0, <1>3
  <1> QED BY <1>0, <1>4 DEF T

\* The lowest k bits of the word are the word of the lowest k ones.
LEMMA SumLow ==
    ASSUME NEW f, NEW A, Sums(f, WIDE, A), NEW k \in 0..WIDE
    PROVE  f[WIDE] % 2 ^ k = f[k]
  <1> DEFINE p == 2 ^ k
             x == f[WIDE]
             r == f[k]
  <1>1. PICK q \in Nat : x = r + p * q
    BY SumTail
  <1>2. p \in Nat \ {0} /\ r \in 0..(p - 1)
    BY PowerStep, SumBound
  <1> HIDE DEF p, x, r
  <1>3. p * q \in Nat
    BY <1>2
  <1>4. x = p * q + r /\ x \in Int
    <2> DEFINE y == p * q
    <2>1. y \in Nat /\ x = r + y
      BY <1>1, <1>3
    <2> HIDE DEF y
    <2>2. x = y + r /\ x \in Int
      BY <1>2, <2>1
    <2> QED BY <2>2 DEF y
  <1>5. x % p = r
    BY <1>2, <1>4, QuotientUnique
  <1> QED BY <1>5 DEF p, x, r

\* A word has the ones it is made of.
LEMMA OnesOf ==
    ASSUME NEW A \in SUBSET (0..(WIDE - 1))
    PROVE  Ones(OfOnes(A)) = A
  <1> DEFINE f == Low(A)
             x == OfOnes(A)
  <1>1. Sums(f, WIDE, A) /\ x = f[WIDE]
    BY LowSums, OfOnesLow
  <1> HIDE DEF f, x
  <1>2. ASSUME NEW i \in 0..(WIDE - 1) PROVE (x \div 2 ^ i) % 2 = 1 <=> i \in A
    <2> DEFINE k == i + 1
               p == 2 ^ i
               w == Weight(A, i)
               r == f[i]
               c == IF i \in A THEN 1 ELSE 0
    <2>1. k \in 0..WIDE /\ i \in 0..WIDE
      BY WidthAssumption
    <2>2. PICK q \in Nat : x = f[k] + 2 ^ k * q
      BY <1>1, <2>1, SumTail
    <2>3. 2 ^ k = 2 * p /\ p \in Nat \ {0} /\ f[k] = r + w /\ r \in 0..(p - 1)
      BY <1>1, <2>1, SumNext, SumBound
    <2>4. w = p * c /\ c \in {0, 1}
      BY <2>3 DEF Weight
    <2> HIDE DEF k, p, w, r
    <2> DEFINE t == c + 2 * q
               y == p * q
    <2>5. y \in Nat /\ p * t = p * c + 2 * y /\ (2 * p) * q = 2 * y /\ t \in Nat
      BY <2>3, <2>4
    <2>6. t % 2 = c
      BY <2>4
    <2> HIDE DEF y, t, c
    <2>7. x = p * t + r /\ x \in Int
      <3> DEFINE z == p * t
      <3>1. z \in Int /\ z = w + 2 * y /\ w \in Nat
        BY <2>3, <2>4, <2>5
      <3>2. x = r + w + 2 * y
        BY <2>2, <2>3, <2>5, <3>1
      <3> HIDE DEF z
      <3>3. x = z + r /\ x \in Int
        BY <2>3, <2>5, <3>1, <3>2
      <3> QED BY <3>3 DEF z
    <2>8. x \div p = t
      <3>1. /\ x \in Int /\ p \in Nat \ {0} /\ t \in Int /\ r \in 0..(p - 1)
            /\ x = p * t + r
        BY <2>3, <2>5, <2>7
      <3> HIDE DEF x
      <3> QED BY ONLY <3>1, QuotientUnique
    <2>9. (x \div p) % 2 = c
      BY <2>6, <2>8
    <2> QED BY <2>9 DEF c, p
  <1>3. Ones(x) = A
    BY <1>2 DEF Ones
  <1> QED BY <1>3 DEF x

\* The ones of a word make up each of its lower parts.
LEMMA SumOfOnes ==
    ASSUME NEW x \in Nat, NEW f, Sums(f, WIDE, Ones(x)), NEW n \in 0..WIDE
    PROVE  f[n] = x % 2 ^ n
  <1> DEFINE T == {j \in Nat : j <= WIDE => f[j] = x % 2 ^ j}
             z == 0
  <1>0. WIDE \in Nat /\ z \in Nat
    BY WidthAssumption
  <1>1. z \in T
    <2>1. f[0] = 0 /\ 2 ^ 0 = 1
      BY PowersAssumption DEF Sums
    <2>2. x % 1 = 0
      OBVIOUS
    <2> QED BY <2>1, <2>2
  <1>2. ASSUME NEW j \in z..(WIDE - 1), j \in T PROVE j + 1 \in T
    <2>1. j \in 0..(WIDE - 1) /\ j <= WIDE /\ j \in Nat /\ j + 1 \in Nat
      BY <1>0
    <2> DEFINE p == 2 ^ j
               q == x \div p
               r == x % p
               c == q % 2
               u == q \div 2
               w == Weight(Ones(x), j)
               d == 2 * p
    <2>2. f[j] = r /\ f[j + 1] = f[j] + w /\ p \in Nat \ {0} /\ 2 ^ (j + 1) = d
      BY <1>2, <2>1, SumNext
    <2>3. j \in Ones(x) <=> c = 1
      BY <2>1 DEF Ones
    <2>4. w = IF c = 1 THEN p ELSE 0
      BY <2>3 DEF Weight
    <2> HIDE DEF p, w
    <2>5. q \in Int /\ r \in 0..(p - 1) /\ x = p * q + r
      <3>1. x \in Int /\ p \in Nat \ {0}
        BY <2>2
      <3> QED BY ONLY <3>1, QuotientParts
    <2> HIDE DEF q, r
    <2>6. u \in Int /\ c \in {0, 1} /\ q = 2 * u + c
      BY <2>5
    <2> HIDE DEF u, c
    <2>7. w = p * c
      BY <2>2, <2>4, <2>6
    <2> DEFINE y == p * u
               e == p * c
    <2>8. p * q = 2 * y + e /\ y \in Int /\ e \in Int /\ d * u = 2 * y
      BY <2>2, <2>6
    <2>9. e \in {0, p}
      BY <2>2, <2>6
    <2> HIDE DEF y, e, d
    <2>10. d \in Nat \ {0} /\ r + e \in 0..(d - 1)
      BY <2>2, <2>5, <2>9 DEF d
    <2>11. x = d * u + (r + e)
      <3> DEFINE g == d * u
                 h == p * q
      <3>1. g \in Int /\ h \in Int /\ g = 2 * y /\ h = g + e /\ x = h + r
        BY <2>5, <2>8
      <3> HIDE DEF g, h
      <3>2. x = g + (r + e)
        BY <2>5, <2>8, <3>1
      <3> QED BY <3>2 DEF g
    <2>12. x % d = r + e
      <3> DEFINE o == r + e
      <3> HIDE DEF o
      <3>1. o \in 0..(d - 1) /\ x = d * u + o
        BY <2>10, <2>11 DEF o
      <3>2. x % d = o
        <4>1. /\ x \in Int /\ d \in Nat \ {0} /\ u \in Int /\ o \in 0..(d - 1)
              /\ x = d * u + o
          BY <2>6, <2>10, <3>1
        <4> QED BY ONLY <4>1, QuotientUnique
      <3> QED BY <3>2 DEF o
    <2>13. f[j + 1] = x % 2 ^ (j + 1)
      BY <2>2, <2>7, <2>12 DEF e
    <2> QED BY <2>1, <2>13
  <1> HIDE DEF T, z
  <1>3. z..WIDE \subseteq T
    BY <1>0, <1>1, <1>2, UpTo
  <1>4. n \in T /\ n <= WIDE
    BY <1>0, <1>3 DEF z
  <1> QED BY <1>4 DEF T

\* A word is made of its ones.
LEMMA OfOnesOf ==
    ASSUME NEW x \in Wide
    PROVE  OfOnes(Ones(x)) = x
  <1>1. OfOnes(Ones(x)) = Low(Ones(x))[WIDE]
    BY OfOnesLow
  <1>2. Sums(Low(Ones(x)), WIDE, Ones(x))
    BY LowSums
  <1>3. WIDE \in 0..WIDE /\ 2 ^ WIDE \in Nat \ {0}
    <2>1. WIDE \in 0..WIDE
      BY WidthAssumption
    <2> QED BY <2>1, PowerStep
  <1>4. x \in Nat
    BY DEF Wide
  <1>5. Low(Ones(x))[WIDE] = x % 2 ^ WIDE
    BY <1>2, <1>3, <1>4, SumOfOnes
  <1>6. x % 2 ^ WIDE = x
    <2> DEFINE M == 2 ^ WIDE
    <2>1. M \in Nat \ {0} /\ x \in 0..(M - 1)
      BY <1>3 DEF Wide
    <2> HIDE DEF M
    <2>2. x % M = x
      BY <2>1
    <2> QED BY <2>2 DEF M
  <1> QED BY <1>1, <1>5, <1>6

\* Lower parts of the word that has given ones.
LEMMA Parts ==
    ASSUME NEW A
    PROVE  Sums(Low(A), WIDE, A) /\ OfOnes(A) = Low(A)[WIDE] /\ Low(A)[0] = 0
  <1>1. Sums(Low(A), WIDE, A)
    BY LowSums
  <1>2. Low(A)[0] = 0
    BY <1>1 DEF Sums
  <1> QED BY <1>1, <1>2, OfOnesLow

\* The ends of the range of bits.
LEMMA Ends ==
    /\ WIDE \in Nat /\ 0 \in 0..WIDE /\ WIDE \in 0..WIDE
    /\ \A k \in 0..WIDE : WIDE \in k..WIDE /\ k \in 0..k
  BY WidthAssumption

\* A word with no ones from k on is less than 2 ^ k.
LEMMA OfOnesBelow ==
    ASSUME NEW k \in 0..WIDE, NEW A, \A i \in k..(WIDE - 1) : i \notin A
    PROVE  OfOnes(A) \in 0..(2 ^ k - 1) /\ OfOnes(A) = Low(A)[k]
  <1>1. Low(A)[WIDE] = Low(A)[k]
    BY Parts, Ends, SumZeroes
  <1>2. Low(A)[k] \in 0..(2 ^ k - 1)
    BY Parts, SumBound
  <1> QED BY <1>1, <1>2, Parts

\* The ones of a word less than 2 ^ k.
LEMMA OnesBelow ==
    ASSUME NEW k \in 0..WIDE, NEW x \in 0..(2 ^ k - 1)
    PROVE  Ones(x) \subseteq 0..(k - 1)
  <1>1. ASSUME NEW i \in 0..(WIDE - 1), i \in Ones(x), i >= k PROVE FALSE
    <2> DEFINE p == 2 ^ i
               m == 2 ^ k
    <2>1. i \in 0..WIDE /\ i \in k..WIDE
      BY <1>1, WidthAssumption
    <2>2. p \in Nat \ {0} /\ m <= p /\ m \in Nat
      BY <2>1, PowerStep, PowerOrder
    <2>3. x \in 0..(m - 1)
      OBVIOUS
    <2>4. (x \div p) % 2 = 1
      BY <1>1 DEF Ones
    <2> HIDE DEF p, m
    <2>5. x \div p = 0
      <3>1. x \in Int /\ p \in Nat \ {0} /\ 0 \in Int /\ x \in 0..(p - 1) /\ x = p * 0 + x
        BY <2>2, <2>3
      <3> QED BY ONLY <3>1, QuotientUnique
    <2> QED BY <2>4, <2>5
  <1>2. Ones(x) \subseteq 0..(WIDE - 1)
    BY DEF Ones
  <1>3. k \in Nat /\ WIDE \in Nat
    BY WidthAssumption
  <1> QED BY <1>1, <1>2, <1>3

\* The ones of 2 ^ k - 1 are the k lowest.
LEMMA OnesOfMask ==
    ASSUME NEW k \in 0..WIDE
    PROVE  Ones(2 ^ k - 1) = 0..(k - 1)
  <1> DEFINE A == 0..(k - 1)
             f == Low(A)
  <1>1. /\ \A i \in k..(WIDE - 1) : i \notin A
        /\ \A i \in 0..(k - 1) : i \in A
        /\ A \in SUBSET (0..(WIDE - 1))
    BY WidthAssumption
  <1> HIDE DEF A
  <1>2. OfOnes(A) = f[k]
    BY <1>1, OfOnesBelow
  <1>3. f[0] = 0 /\ Sums(f, WIDE, A)
    BY Parts
  <1> HIDE DEF f
  <1>4. 0 \in 0..WIDE /\ k \in 0..WIDE
    BY Ends
  <1>5. f[k] = f[0] + 2 ^ k - 2 ^ 0
    BY <1>1, <1>3, <1>4, SumRow
  <1>6. 2 ^ 0 = 1 /\ 2 ^ k \in Nat
    BY PowersAssumption
  <1>7. OfOnes(A) = 2 ^ k - 1
    <2> DEFINE m == 2 ^ k
    <2>1. m \in Nat /\ OfOnes(A) = 0 + m - 1
      BY <1>2, <1>3, <1>5, <1>6
    <2> HIDE DEF m
    <2>2. OfOnes(A) = m - 1
      BY <2>1
    <2> QED BY <2>2 DEF m
  <1>8. Ones(OfOnes(A)) = A
    BY <1>1, OnesOf
  <1> QED BY <1>7, <1>8 DEF A

\* Masking with 2 ^ k - 1 is the remainder by 2 ^ k.
LEMMA AndMask ==
    ASSUME NEW x \in Nat, NEW k \in 0..WIDE
    PROVE  and(x, 2 ^ k - 1) = x % 2 ^ k
  <1> DEFINE B == Ones(x)
             A == B \cap (0..(k - 1))
  <1>1. and(x, 2 ^ k - 1) = OfOnes(A)
    BY OnesOfMask DEF and
  <1>2. /\ \A i \in k..(WIDE - 1) : i \notin A
        /\ \A i \in 0..(k - 1) : i \in A <=> i \in B
    BY WidthAssumption
  <1>3. Sums(Low(B), WIDE, B) /\ Sums(Low(A), WIDE, A)
    <2> HIDE DEF A, B
    <2> QED BY Parts
  <1>4. Low(B)[k] = x % 2 ^ k
    BY <1>3, SumOfOnes
  <1> HIDE DEF A, B
  <1>5. OfOnes(A) = Low(A)[k]
    BY <1>2, OfOnesBelow
  <1>6. Low(A)[k] = Low(B)[k]
    BY <1>2, <1>3, SumSame
  <1> QED BY <1>1, <1>4, <1>5, <1>6

\* Or-ing with ones from k on adds them to a word less than 2 ^ k.
LEMMA OrTop ==
    ASSUME NEW k \in 0..WIDE, NEW x \in 0..(2 ^ k - 1)
    PROVE  or(2 ^ WIDE - 2 ^ k, x) = 2 ^ WIDE - 2 ^ k + x
  <1> DEFINE A == k..(WIDE - 1)
             B == Ones(x)
             C == A \union B
             top == 2 ^ WIDE - 2 ^ k
             m == 2 ^ k
             w == 2 ^ WIDE
  <1>0. 0 \in 0..WIDE /\ k \in 0..k /\ WIDE \in k..WIDE /\ WIDE \in 0..WIDE
    BY Ends
  <1>1. /\ \A i \in 0..(k - 1) : i \notin A
        /\ \A i \in k..(WIDE - 1) : i \in A
        /\ A \in SUBSET (0..(WIDE - 1))
    BY WidthAssumption
  <1>2. B \subseteq 0..(k - 1)
    BY OnesBelow
  <1>3. m \in Nat \ {0} /\ w \in Nat \ {0} /\ x \in Nat /\ x < m
    <2>1. m \in Nat \ {0} /\ w \in Nat \ {0}
      BY <1>0, PowerStep
    <2> HIDE DEF w
    <2> QED BY <2>1
  <1>4. Sums(Low(A), WIDE, A) /\ Sums(Low(B), WIDE, B) /\ Sums(Low(C), WIDE, C)
    <2> HIDE DEF A, B, C
    <2> QED BY Parts
  <1>5. Low(B)[k] = x % m
    BY <1>3, <1>4, SumOfOnes
  <1>6. /\ \A i \in 0..(k - 1) : i \in C <=> i \in B
        /\ \A i \in k..(WIDE - 1) : i \in C
    BY <1>1, <1>2
  <1>7. Low(A)[0] = 0 /\ OfOnes(A) = Low(A)[WIDE] /\ OfOnes(C) = Low(C)[WIDE]
    <2> HIDE DEF A, C
    <2> QED BY Parts
  <1> HIDE DEF A, B, C
  <1>8. Low(A)[k] = Low(A)[0]
    BY <1>0, <1>1, <1>4, SumZeroes
  <1>9. Low(A)[WIDE] = Low(A)[k] + w - m
    BY <1>0, <1>1, <1>4, SumRow
  <1>10. Low(C)[k] = Low(B)[k]
    BY <1>4, <1>6, SumSame
  <1>11. Low(C)[WIDE] = Low(C)[k] + w - m
    BY <1>0, <1>4, <1>6, SumRow
  <1>12. Ones(OfOnes(A)) = A
    BY <1>1, OnesOf
  <1> HIDE DEF m, w
  <1>13. OfOnes(A) = w - m
    BY <1>3, <1>7, <1>8, <1>9
  <1>14. x % m = x
    BY <1>3
  <1>15. OfOnes(C) = w - m + x
    <2>1. Low(C)[k] = x
      BY <1>5, <1>10, <1>14
    <2>2. OfOnes(C) = x + w - m
      BY <1>7, <1>11, <2>1
    <2> HIDE DEF C
    <2> QED BY <1>3, <2>2
  <1>16. or(w - m, x) = OfOnes(C)
    BY <1>12, <1>13 DEF or, C, B
  <1> QED BY <1>15, <1>16 DEF m, w

\* Testing one bit.
LEMMA AndBit ==
    ASSUME NEW x \in Nat, NEW j \in 0..(WIDE - 1)
    PROVE  and(x, 2 ^ j) = 0 <=> j \notin Ones(x)
  <1> DEFINE A == {j}
             f == Low(A)
             E == {}
  <1>0. 0 \in 0..WIDE /\ j \in 0..WIDE /\ j + 1 \in 0..WIDE /\ WIDE \in (j + 1)..WIDE /\ WIDE \in 0..WIDE
    BY Ends
  <1>1. /\ \A i \in 0..(j - 1) : i \notin A
        /\ \A i \in (j + 1)..(WIDE - 1) : i \notin A
        /\ A \in SUBSET (0..(WIDE - 1)) /\ j \in A
    BY WidthAssumption
  <1> HIDE DEF A
  <1>2. Sums(f, WIDE, A) /\ f[0] = 0 /\ OfOnes(A) = f[WIDE]
    BY Parts
  <1> HIDE DEF f
  <1>3. f[j] = f[0]
    BY <1>0, <1>1, <1>2, SumZeroes
  <1>4. f[WIDE] = f[j + 1]
    BY <1>0, <1>1, <1>2, SumZeroes
  <1>5. f[j + 1] = f[j] + Weight(A, j) /\ 2 ^ j \in Nat \ {0}
    BY <1>2, SumNext
  <1>6. Weight(A, j) = 2 ^ j
    BY <1>1 DEF Weight
  <1>7. OfOnes(A) = 2 ^ j /\ 2 ^ j # 0
    BY <1>2, <1>3, <1>4, <1>5, <1>6
  <1>8. Ones(2 ^ j) = A
    BY <1>1, <1>7, OnesOf
  <1>9. OfOnes(E) = 0
    <2>1. Low(E)[0] = 0 /\ OfOnes(E) = Low(E)[WIDE] /\ Sums(Low(E), WIDE, E)
      <3> HIDE DEF E
      <3> QED BY Parts
    <2>2. \A i \in 0..(WIDE - 1) : i \notin E
      OBVIOUS
    <2> HIDE DEF E
    <2>3. Low(E)[WIDE] = Low(E)[0]
      BY <1>0, <2>1, <2>2, SumZeroes
    <2> QED BY <2>1, <2>3
  <1>10. Ones(x) \cap A = IF j \in Ones(x) THEN A ELSE E
    BY DEF A
  <1> HIDE DEF E
  <1> QED BY <1>7, <1>8, <1>9, <1>10 DEF and

\* The highest bit of a word of j + 1 bits.
LEMMA TopBit ==
    ASSUME NEW j \in 0..(WIDE - 1), NEW x \in 0..(2 ^ (j + 1) - 1)
    PROVE  j \in Ones(x) <=> x >= 2 ^ j
  <1> DEFINE p == 2 ^ j
  <1>1. p \in Nat \ {0} /\ 2 ^ (j + 1) = 2 * p
    <2>1. j \in 0..WIDE
      BY WidthAssumption
    <2> QED BY <2>1, PowerStep
  <1>2. j \in Ones(x) <=> (x \div p) % 2 = 1
    BY DEF Ones
  <1> HIDE DEF p
  <1>3. x \in 0..(2 * p - 1)
    BY <1>1
  <1>4. CASE x < p
    <2>1. x \in Int /\ p \in Nat \ {0} /\ 0 \in Int /\ x \in 0..(p - 1) /\ x = p * 0 + x
      BY <1>1, <1>3, <1>4
    <2>2. x \div p = 0
      BY ONLY <2>1, QuotientUnique
    <2>3. j \notin Ones(x)
      BY <1>2, <2>2
    <2> QED BY <1>1, <1>3, <1>4, <2>3 DEF p
  <1>5. CASE x >= p
    <2> DEFINE r == x - p
    <2>1. x \in Int /\ p \in Nat \ {0} /\ 1 \in Int /\ r \in 0..(p - 1) /\ x = p * 1 + r
      BY <1>1, <1>3, <1>5
    <2> HIDE DEF r
    <2>2. x \div p = 1
      BY ONLY <2>1, QuotientUnique
    <2>3. j \in Ones(x)
      BY <1>2, <2>2
    <2> QED BY <1>5, <2>3 DEF p
  <1> QED BY <1>1, <1>3, <1>4, <1>5

-----------------------------------------------------------------------------
(* Registers and wide words.                                               *)

RegSize  == 2 ^ XLEN
SignBit  == 2 ^ (XLEN - 1)
HalfSize == 2 ^ (XLEN \div 2)
WideSize == 2 ^ WIDE

\* A sum of exponents is a product of powers.
LEMMA PowerProduct ==
    ASSUME NEW i \in 0..WIDE, NEW j \in 0..(WIDE - i)
    PROVE  2 ^ (i + j) = 2 ^ i * 2 ^ j
  <1> DEFINE T == {n \in Nat : i + n <= WIDE => 2 ^ (i + n) = 2 ^ i * 2 ^ n}
             z == 0
             N == WIDE - i
  <1>0. WIDE \in Nat /\ i \in Nat /\ N \in Nat /\ z \in Nat
    BY WidthAssumption
  <1>1. z \in T
    <2>1. 2 ^ 0 = 1 /\ i + 0 = i /\ 2 ^ i \in Nat
      BY <1>0, PowersAssumption
    <2>2. 2 ^ i = 2 ^ i * 1
      <3> DEFINE p == 2 ^ i
      <3>1. p \in Nat
        BY <2>1
      <3> HIDE DEF p
      <3>2. p = p * 1
        BY <3>1
      <3> QED BY <3>2 DEF p
    <2> QED BY <2>1, <2>2
  <1>2. ASSUME NEW n \in z..(N - 1), n \in T PROVE n + 1 \in T
    <2>1. n \in Nat /\ i + n \in 0..WIDE /\ n \in 0..WIDE /\ i + (n + 1) = (i + n) + 1 /\ i + n <= WIDE
      BY <1>0
    <2> DEFINE p == 2 ^ i
               q == 2 ^ n
               r == 2 ^ (i + n)
    <2>2. r = p * q
      BY <1>2, <2>1
    <2>3. 2 ^ ((i + n) + 1) = 2 * r /\ 2 ^ (n + 1) = 2 * q /\ q \in Nat /\ p \in Nat
      BY <2>1, PowerStep
    <2> HIDE DEF p, q, r
    <2>4. p * (2 * q) = 2 * (p * q)
      BY <2>3
    <2>5. 2 ^ (i + (n + 1)) = p * 2 ^ (n + 1)
      <3>1. 2 ^ (i + (n + 1)) = 2 * r
        BY <2>1, <2>3
      <3>2. p * 2 ^ (n + 1) = 2 * r
        BY <2>2, <2>3, <2>4
      <3> QED BY <3>1, <3>2
    <2> QED BY <2>1, <2>5 DEF p
  <1> HIDE DEF T, z
  <1>3. z..N \subseteq T
    BY <1>0, <1>1, <1>2, UpTo
  <1>4. j \in T /\ i + j <= WIDE
    BY <1>0, <1>3 DEF z
  <1> QED BY <1>4 DEF T

\* The widths.
LEMMA Widths ==
    /\ XLEN \in Nat /\ WIDE \in Nat /\ XLEN >= 2 /\ WIDE > 2 * XLEN
    /\ XLEN \div 2 \in 1..(XLEN - 1) /\ 2 * (XLEN \div 2) = XLEN
    /\ \E k \in 1..XLEN : XLEN = 2 ^ k /\ XLEN \div 2 = 2 ^ (k - 1)
  <1>1. PICK k \in 1..XLEN : XLEN = 2 ^ k
    BY WidthAssumption
  <1>2. XLEN \in Nat /\ WIDE \in Nat /\ WIDE > 2 * XLEN
    BY WidthAssumption
  <1>3. k - 1 \in 0..WIDE /\ (k - 1) + 1 = k
    BY <1>2
  <1>4. 2 ^ (k - 1) \in Nat \ {0} /\ 2 ^ ((k - 1) + 1) = 2 * 2 ^ (k - 1)
    BY <1>3, PowerStep
  <1> DEFINE h == 2 ^ (k - 1)
  <1>5. h \in Nat \ {0} /\ XLEN = 2 * h
    BY <1>1, <1>3, <1>4
  <1> HIDE DEF h
  <1>6. XLEN \div 2 = h
    BY <1>5
  <1> QED BY <1>1, <1>2, <1>5, <1>6 DEF h

\* The sizes.
LEMMA Sizes ==
    /\ RegSize \in Nat \ {0} /\ SignBit \in Nat \ {0} /\ HalfSize \in Nat \ {0}
    /\ WideSize \in Nat \ {0} /\ RegSize = 2 * SignBit /\ 2 * RegSize <= WideSize
    /\ 2 * HalfSize <= RegSize /\ RegSize <= 2 ^ (WIDE - 1) /\ WideSize = 2 * 2 ^ (WIDE - 1)
    /\ 2 ^ (WIDE - 1) \in Nat /\ 2 <= HalfSize
  <1> DEFINE h == XLEN \div 2
  <1>1. /\ XLEN \in 0..WIDE /\ XLEN - 1 \in 0..WIDE /\ h \in 0..WIDE /\ WIDE \in 0..WIDE
        /\ XLEN + 1 \in 0..WIDE /\ h + 1 \in 0..WIDE /\ XLEN \in (h + 1)..WIDE
        /\ WIDE \in (XLEN + 1)..WIDE /\ WIDE - 1 \in XLEN..WIDE /\ (XLEN - 1) + 1 = XLEN
        /\ (WIDE - 1) + 1 = WIDE /\ WIDE - 1 \in 0..WIDE /\ h \in 1..WIDE
        /\ 0 \in 0..WIDE /\ 1 \in 0..WIDE /\ 0 + 1 = 1
    BY Widths
  <1> HIDE DEF h
  <1>2. /\ 2 ^ XLEN \in Nat \ {0} /\ 2 ^ (XLEN - 1) \in Nat \ {0} /\ 2 ^ h \in Nat \ {0}
        /\ 2 ^ WIDE \in Nat \ {0} /\ 2 ^ (WIDE - 1) \in Nat \ {0}
        /\ 2 ^ ((XLEN - 1) + 1) = 2 * 2 ^ (XLEN - 1) /\ 2 ^ ((WIDE - 1) + 1) = 2 * 2 ^ (WIDE - 1)
        /\ 2 ^ (XLEN + 1) = 2 * 2 ^ XLEN /\ 2 ^ (h + 1) = 2 * 2 ^ h
    BY <1>1, PowerStep
  <1>3. /\ 2 ^ (h + 1) <= 2 ^ XLEN /\ 2 ^ (XLEN + 1) <= 2 ^ WIDE /\ 2 ^ XLEN <= 2 ^ (WIDE - 1)
    BY <1>1, PowerOrder
  <1>4. 2 ^ 1 = 2 /\ 2 ^ 1 <= 2 ^ h
    <2>1. 2 ^ (0 + 1) = 2 * 2 ^ 0 /\ 2 ^ 0 = 1
      BY <1>1, PowersAssumption
    <2>2. 2 ^ 1 = 2 ^ (0 + 1)
      BY <1>1
    <2>3. 2 ^ 1 = 2
      BY <2>1, <2>2
    <2>4. 2 ^ 1 <= 2 ^ h
      BY <1>1, PowerOrder
    <2> QED BY <2>3, <2>4
  <1> QED BY <1>1, <1>2, <1>3, <1>4 DEF RegSize, SignBit, HalfSize, WideSize, h

\* The words and the wide words.
LEMMA Ranges == Word = 0..(RegSize - 1) /\ Wide = 0..(WideSize - 1)
  BY DEF Word, Wide, RegSize, WideSize

\* Cutting to a wide word first changes no register.
LEMMA CutTwice ==
    ASSUME NEW i \in Int
    PROVE  (i % WideSize) % RegSize = i % RegSize
  <1>1. XLEN \in 0..WIDE /\ WIDE \in XLEN..WIDE
    BY Widths
  <1> QED BY <1>1, RemainderTwice DEF RegSize, WideSize

\* A remainder is a register.
LEMMA CutWord ==
    ASSUME NEW i \in Int
    PROVE  i % RegSize \in Word /\ (i \in Word => i % RegSize = i)
  <1>1. RegSize \in Nat \ {0}
    BY Sizes
  <1> QED BY <1>1, Ranges

\* Cutting with the mask of a register.
LEMMA MaskWord ==
    ASSUME NEW x \in Nat
    PROVE  and(x, RegSize - 1) = x % RegSize
  <1>1. XLEN \in 0..WIDE
    BY Widths
  <1> QED BY <1>1, AndMask DEF RegSize

\* All ones, shifted right to the width k.
LEMMA ShiftOnes ==
    ASSUME NEW k \in 0..WIDE
    PROVE  (WideSize - 1) \div 2 ^ (WIDE - k) = 2 ^ k - 1
  <1> DEFINE i == WIDE - k
             p == 2 ^ i
             m == 2 ^ k
             d == m - 1
             x == WideSize - 1
  <1>1. i \in 0..WIDE /\ k \in 0..(WIDE - i) /\ i + k = WIDE
    BY Widths
  <1> HIDE DEF i
  <1>2. WideSize = p * m /\ p \in Nat \ {0} /\ m \in Nat \ {0}
    BY <1>1, PowerProduct, PowerStep DEF WideSize
  <1> HIDE DEF p, m
  <1>3. p * m = p * d + p /\ d \in Int /\ p * d \in Int
    BY <1>2
  <1> DEFINE r == p - 1
             y == p * d
  <1>4. r \in 0..(p - 1) /\ x = y + r /\ x \in Int /\ y \in Int
    <2>1. WideSize = y + p /\ y \in Int
      BY <1>2, <1>3
    <2> HIDE DEF y
    <2> QED BY <1>2, <2>1
  <1>5. x \in Int /\ p \in Nat \ {0} /\ d \in Int /\ r \in 0..(p - 1) /\ x = p * d + r
    BY <1>2, <1>3, <1>4
  <1> HIDE DEF x, d, r
  <1>6. x \div p = d
    BY ONLY <1>5, QuotientUnique
  <1> QED BY <1>6 DEF x, d, p, m, i

-----------------------------------------------------------------------------
(* The two arithmetics.                                                    *)

\* Both have the EVM's opcodes.
LEMMA FastOpcodes ==
    ASSUME NEW x, NEW y
    PROVE  /\ Fast!and(x, y) = and(x, y) /\ Fast!or(x, y) = or(x, y)
           /\ Fast!xor(x, y) = xor(x, y) /\ Fast!shl(x, y) = shl(x, y)
           /\ Fast!shr(x, y) = shr(x, y) /\ Fast!not(x) = not(x)
           /\ Fast!mul(x, y) = mul(x, y)
  <1>1. Fast!and(x, y) = and(x, y)
    BY DEF Fast!and, and, Fast!Ones, Fast!OfOnes, Ones, OfOnes
  <1>2. Fast!or(x, y) = or(x, y)
    BY DEF Fast!or, or, Fast!Ones, Fast!OfOnes, Ones, OfOnes
  <1>3. Fast!xor(x, y) = xor(x, y)
    BY DEF Fast!xor, xor, Fast!Ones, Fast!OfOnes, Ones, OfOnes
  <1>4. Fast!shl(x, y) = shl(x, y)
    BY DEF Fast!shl, shl
  <1>5. Fast!shr(x, y) = shr(x, y)
    BY DEF Fast!shr, shr
  <1>6. Fast!not(x) = not(x)
    BY DEF Fast!not, not
  <1>7. Fast!mul(x, y) = mul(x, y)
    BY DEF Fast!mul, mul
  <1> QED BY <1>1, <1>2, <1>3, <1>4, <1>5, <1>6, <1>7

\* The same of the slow VM.
LEMMA SlowOpcodes ==
    ASSUME NEW x, NEW y
    PROVE  /\ Slow!and(x, y) = and(x, y) /\ Slow!or(x, y) = or(x, y)
           /\ Slow!xor(x, y) = xor(x, y) /\ Slow!shl(x, y) = shl(x, y)
           /\ Slow!shr(x, y) = shr(x, y) /\ Slow!not(x) = not(x)
           /\ Slow!mul(x, y) = mul(x, y)
  <1>1. Slow!and(x, y) = and(x, y)
    BY DEF Slow!and, and, Slow!Ones, Slow!OfOnes, Ones, OfOnes
  <1>2. Slow!or(x, y) = or(x, y)
    BY DEF Slow!or, or, Slow!Ones, Slow!OfOnes, Ones, OfOnes
  <1>3. Slow!xor(x, y) = xor(x, y)
    BY DEF Slow!xor, xor, Slow!Ones, Slow!OfOnes, Ones, OfOnes
  <1>4. Slow!shl(x, y) = shl(x, y)
    BY DEF Slow!shl, shl
  <1>5. Slow!shr(x, y) = shr(x, y)
    BY DEF Slow!shr, shr
  <1>6. Slow!not(x) = not(x)
    BY DEF Slow!not, not
  <1>7. Slow!mul(x, y) = mul(x, y)
    BY DEF Slow!mul, mul
  <1> QED BY <1>1, <1>2, <1>3, <1>4, <1>5, <1>6, <1>7

\* Both round quotients in the same way, and read a wide word with its sign.
LEMMA Readings ==
    ASSUME NEW x, NEW y
    PROVE  /\ Fast!Truncated(x, y) = Truncated(x, y) /\ Slow!Truncated(x, y) = Truncated(x, y)
           /\ Slow!Signed256(x) = Signed256(x)
           /\ Fast!Flag(x) = Flag(x) /\ Slow!Flag(x) = Flag(x)
  <1>1. Fast!Truncated(x, y) = Truncated(x, y)
    BY DEF Fast!Truncated, Truncated
  <1>2. Slow!Truncated(x, y) = Truncated(x, y)
    BY DEF Slow!Truncated, Truncated
  <1>3. Slow!Signed256(x) = Signed256(x)
    BY DEF Slow!Signed256, Signed256
  <1>4. Fast!Flag(x) = Flag(x) /\ Slow!Flag(x) = Flag(x)
    BY DEF Fast!Flag, Slow!Flag, Flag
  <1> QED BY <1>1, <1>2, <1>3, <1>4

\* A quotient of integers is an integer.
LEMMA TruncatedInt ==
    ASSUME NEW x \in Int, NEW y \in Int, y # 0
    PROVE  Truncated(x, y) \in Int
  <1> DEFINE i == IF x < 0 THEN -x ELSE x
             j == IF y < 0 THEN -y ELSE y
  <1>1. i \in Nat /\ j \in Nat \ {0}
    OBVIOUS
  <1>2. Truncated(x, y) = IF (x < 0) = (y < 0) THEN i \div j ELSE -(i \div j)
    BY DEF Truncated
  <1> HIDE DEF i, j
  <1>3. i \div j \in Int
    BY <1>1
  <1> QED BY <1>2, <1>3

\* The constants of both.
LEMMA Constants ==
    /\ Fast!u64Mask = RegSize - 1 /\ Slow!u64Mask = RegSize - 1
    /\ Fast!u32Mask = HalfSize - 1 /\ Slow!u32Mask = HalfSize - 1
    /\ Slow!u64Mod = RegSize /\ Slow!u64TopBit = SignBit
    /\ not(0) = WideSize - 1
  <1>1. not(0) = WideSize - 1
    BY Sizes DEF not, WideSize
  <1>2. XLEN \in 0..WIDE /\ XLEN \div 2 \in 0..WIDE
    BY Widths
  <1>3. Slow!u64Mask = RegSize - 1
    <2>1. Slow!u64Mask = (WideSize - 1) \div 2 ^ (WIDE - XLEN)
      BY <1>1, SlowOpcodes DEF Slow!u64Mask, shr
    <2> QED BY <1>2, <2>1, ShiftOnes DEF RegSize
  <1>4. Slow!u32Mask = HalfSize - 1
    <2>1. Slow!u32Mask = (WideSize - 1) \div 2 ^ (WIDE - XLEN \div 2)
      BY <1>1, SlowOpcodes DEF Slow!u32Mask, shr
    <2> QED BY <1>2, <2>1, ShiftOnes DEF HalfSize
  <1>5. Fast!u64Mask = RegSize - 1 /\ Fast!u32Mask = HalfSize - 1
    BY DEF Fast!u64Mask, Fast!u32Mask, RegSize, HalfSize
  <1>6. Slow!u64Mod = RegSize
    <2>1. Slow!u64Mod = (1 * RegSize) % WideSize
      BY SlowOpcodes DEF Slow!u64Mod, shl, RegSize, WideSize
    <2>2. RegSize \in 0..(WideSize - 1) /\ WideSize \in Nat \ {0} /\ 1 * RegSize = RegSize
      BY Sizes
    <2> QED BY <2>1, <2>2
  <1>7. Slow!u64TopBit = SignBit
    <2>1. Slow!u64TopBit = (1 * SignBit) % WideSize
      BY SlowOpcodes DEF Slow!u64TopBit, shl, SignBit, WideSize
    <2>2. SignBit \in 0..(WideSize - 1) /\ WideSize \in Nat \ {0} /\ 1 * SignBit = SignBit
      BY Sizes
    <2> QED BY <2>1, <2>2
  <1> QED BY <1>1, <1>3, <1>4, <1>5, <1>6, <1>7

\* u256ToU64 of the slow VM.
LEMMA SlowCut ==
    ASSUME NEW x \in Nat
    PROVE  Slow!u256ToU64(x) = x % RegSize
  BY Constants, SlowOpcodes, MaskWord DEF Slow!u256ToU64

\* A register with its sign, and as a wide word of the same sign.
Signed64(x) == IF x >= SignBit THEN x - RegSize ELSE x
Extended(x) == IF x >= SignBit THEN WideSize - RegSize + x ELSE x

\* Sign-extending to a wide word.
LEMMA ExtendWide ==
    ASSUME NEW x \in Word
    PROVE  /\ Fast!int64(x) = Signed64(x)
           /\ Slow!signExtend64To256(x) = Extended(x)
           /\ Fast!signExtend64To256(x) = Extended(x)
           /\ Extended(x) \in Wide /\ Signed64(x) \in Int
           /\ Signed256(Extended(x)) = Signed64(x)
           /\ (Extended(x) = 0) <=> (x = 0)
           /\ (Signed64(x) = 0) <=> (x = 0)
  <1>1. Fast!int64(x) = Signed64(x)
    BY DEF Fast!int64, Signed64, SignBit, RegSize
  <1>2. x \in Nat /\ x \in 0..(RegSize - 1)
    BY Ranges
  <1>3. (and(x, SignBit) = 0) <=> ~(x >= SignBit)
    <2> DEFINE j == XLEN - 1
    <2>1. j \in 0..(WIDE - 1) /\ j + 1 = XLEN
      BY Widths
    <2> HIDE DEF j
    <2>2. x \in 0..(2 ^ (j + 1) - 1) /\ SignBit = 2 ^ j
      BY <1>2, <2>1 DEF RegSize, SignBit, j
    <2>3. and(x, 2 ^ j) = 0 <=> j \notin Ones(x)
      BY <1>2, <2>1, AndBit
    <2>4. j \in Ones(x) <=> x >= 2 ^ j
      BY <2>1, <2>2, TopBit
    <2> QED BY <2>2, <2>3, <2>4
  <1>4. shl(XLEN, not(0)) = WideSize - RegSize
    <2> DEFINE p == RegSize
               w == WideSize
               q == p - 1
               y == (w - 1) * p
               r == w - p
    <2>1. p \in Nat \ {0} /\ w \in Nat \ {0} /\ 2 * p <= w
      BY Sizes
    <2>2. shl(XLEN, not(0)) = y % w
      BY Constants DEF shl, RegSize, WideSize
    <2> HIDE DEF p, w
    <2>3. /\ w * q = w * p - w /\ y = w * p - p /\ q \in Int /\ w * p \in Int
          /\ r \in 0..(w - 1)
      BY <2>1
    <2> DEFINE u == w * p
               v == w * q
    <2>4. u \in Int /\ v = u - w /\ y = u - p
      BY <2>3
    <2> HIDE DEF u, y
    <2>5. v \in Int /\ y \in Int /\ y = v + r
      <3> HIDE DEF v
      <3> QED BY <2>1, <2>4
    <2>6. y \in Int /\ w \in Nat \ {0} /\ q \in Int /\ r \in 0..(w - 1) /\ y = w * q + r
      BY <2>1, <2>3, <2>5
    <2> HIDE DEF q, r, v
    <2>7. y % w = r
      BY ONLY <2>6, QuotientUnique
    <2> QED BY <2>2, <2>7 DEF r, p, w
  <1>5. or(WideSize - RegSize, x) = WideSize - RegSize + x
    <2>1. XLEN \in 0..WIDE
      BY Widths
    <2> QED BY <1>2, <2>1, OrTop DEF RegSize, WideSize
  <1>6. Slow!signExtend64To256(x) = Extended(x)
    BY <1>3, <1>4, <1>5, SlowOpcodes, Constants DEF Slow!signExtend64To256, Extended
  <1>7. Fast!signExtend64To256(x) = Extended(x)
    <2>1. Fast!and64(x, 2 ^ (XLEN - 1)) = and(x, SignBit)
      BY FastOpcodes DEF Fast!and64, SignBit
    <2> QED BY <1>3, <1>4, <1>5, <2>1, FastOpcodes DEF Fast!signExtend64To256, Extended
  <1> DEFINE top == 2 ^ (WIDE - 1)
  <1>8. /\ RegSize \in Nat \ {0} /\ SignBit \in Nat \ {0} /\ WideSize \in Nat \ {0}
        /\ RegSize = 2 * SignBit /\ 2 * RegSize <= WideSize /\ RegSize <= top
        /\ WideSize = 2 * top /\ top \in Nat
    BY Sizes
  <1>9. Signed256(Extended(x)) =
           IF Extended(x) >= top THEN Extended(x) - WideSize ELSE Extended(x)
    BY DEF Signed256, WideSize
  <1> HIDE DEF top
  <1>10. Extended(x) \in Wide /\ Signed64(x) \in Int
    BY <1>2, <1>8, Ranges DEF Extended, Signed64
  <1>11. Signed256(Extended(x)) = Signed64(x)
    BY <1>2, <1>8, <1>9 DEF Extended, Signed64
  <1>12. /\ (Extended(x) = 0) <=> (x = 0)
         /\ (Signed64(x) = 0) <=> (x = 0)
    BY <1>2, <1>8 DEF Extended, Signed64
  <1> QED BY <1>1, <1>6, <1>7, <1>10, <1>11, <1>12

\* Registers are natural numbers; what cutting an integer gives.
LEMMA WordNat == \A x \in Word : x \in Nat /\ x \in Int
  BY Ranges

\* uint64 of the fast VM.
LEMMA FastCut ==
    ASSUME NEW i
    PROVE  Fast!uint64(i) = i % RegSize
  BY DEF Fast!uint64, RegSize

\* Sums and differences.
LEMMA AddSub ==
    ASSUME NEW x \in Word, NEW y \in Word
    PROVE  /\ Slow!add64(x, y) = Fast!add64(x, y) /\ Fast!add64(x, y) \in Word
           /\ Fast!add64(x, y) = (x + y) % RegSize
           /\ Slow!sub64(x, y) = Fast!sub64(x, y) /\ Fast!sub64(x, y) \in Word
           /\ Fast!sub64(x, y) = (x - y) % RegSize
  <1> DEFINE u == x + y
             v == x - y
  <1>1. u \in Int /\ v \in Int
    BY WordNat
  <1>2. Fast!add64(x, y) = u % RegSize /\ Fast!sub64(x, y) = v % RegSize
    BY FastCut DEF Fast!add64, Fast!sub64
  <1>3. Slow!add64(x, y) = (u % WideSize) % RegSize
    <2>1. RegSize # 0
      BY Sizes
    <2>2. Slow!add64(x, y) = Slow!mod(u % WideSize, RegSize)
      BY Constants DEF Slow!add64, Slow!add, WideSize
    <2> HIDE DEF u
    <2> QED BY <2>1, <2>2 DEF Slow!mod
  <1>4. Slow!sub64(x, y) = (v % WideSize) % RegSize
    <2>1. RegSize # 0
      BY Sizes
    <2>2. Slow!sub64(x, y) = Slow!mod(v % WideSize, RegSize)
      BY Constants DEF Slow!sub64, Slow!sub, WideSize
    <2> HIDE DEF v
    <2> QED BY <2>1, <2>2 DEF Slow!mod
  <1> HIDE DEF u, v
  <1>5. (u % WideSize) % RegSize = u % RegSize /\ (v % WideSize) % RegSize = v % RegSize
    BY <1>1, CutTwice
  <1>6. u % RegSize \in Word /\ v % RegSize \in Word
    BY <1>1, CutWord
  <1> QED BY <1>2, <1>3, <1>4, <1>5, <1>6 DEF u, v

\* What the slow VM cuts twice.
LEMMA CutBoth ==
    ASSUME NEW i \in Int
    PROVE  Slow!u256ToU64(i % WideSize) = i % RegSize
  <1>1. i % WideSize \in Nat
    BY Sizes
  <1> QED BY <1>1, SlowCut, CutTwice

\* Products.
LEMMA Products ==
    ASSUME NEW x \in Word, NEW y \in Word
    PROVE  /\ Slow!mul64(x, y) = Fast!mul64(x, y) /\ Fast!mul64(x, y) \in Word
           /\ Fast!mul64(x, y) = (x * y) % RegSize
  <1> DEFINE u == x * y
  <1>1. u \in Int
    BY WordNat
  <1>2. Fast!mul64(x, y) = u % RegSize
    BY FastCut DEF Fast!mul64
  <1>3. Slow!mul64(x, y) = Slow!u256ToU64(u % WideSize)
    BY DEF Slow!mul64, Slow!mul, WideSize
  <1> HIDE DEF u
  <1>4. Slow!u256ToU64(u % WideSize) = u % RegSize /\ u % RegSize \in Word
    BY <1>1, CutBoth, CutWord
  <1> QED BY <1>2, <1>3, <1>4 DEF u

\* The quotient of natural numbers is no larger than the dividend.
LEMMA QuotientBound ==
    ASSUME NEW x \in Nat, NEW d \in Nat \ {0}
    PROVE  x \div d \in 0..x /\ x % d \in 0..x
  <1> DEFINE q == x \div d
             r == x % d
  <1>1. q \in Int /\ r \in 0..(d - 1) /\ x = d * q + r
    OBVIOUS
  <1> HIDE DEF q, r
  <1>2. q \in Nat
    <2>1. CASE q < 0
      <3> DEFINE t == (-q) - 1
                 z == d * t
      <3>1. t \in Nat /\ z \in Nat /\ d * q = -(z + d)
        BY <1>1, <2>1
      <3> HIDE DEF z
      <3> DEFINE y == d * q
      <3>2. y = -(z + d) /\ x = y + r
        BY <1>1, <3>1
      <3> HIDE DEF y
      <3> QED BY <1>1, <3>1, <3>2
    <2> QED BY <1>1, <2>1
  <1> DEFINE e == d - 1
             z == e * q
             y == d * q
  <1>3. z \in Nat /\ y = q + z /\ y \in Nat /\ x = y + r
    BY <1>1, <1>2
  <1> HIDE DEF z, y
  <1>4. q \in 0..x /\ r \in 0..x
    BY <1>1, <1>2, <1>3
  <1> QED BY <1>4 DEF q, r

\* What is below a register is one.
LEMMA BelowWord ==
    ASSUME NEW x \in Word, NEW q \in 0..x
    PROVE  q \in Word
  BY Ranges, Sizes

\* Unsigned quotients and remainders.
LEMMA Unsigned ==
    ASSUME NEW x \in Word, NEW y \in Word
    PROVE  /\ Slow!div64(x, y) = Fast!div64(x, y) /\ Fast!div64(x, y) \in Word
           /\ Slow!mod64(x, y) = Fast!mod64(x, y) /\ Fast!mod64(x, y) \in Word
  <1>0. 0 \in Word /\ 0 \in Nat /\ x \in Nat /\ y \in Nat
    BY Ranges, Sizes
  <1> DEFINE q == IF y = 0 THEN 0 ELSE x \div y
             r == IF y = 0 THEN 0 ELSE x % y
  <1>1. q \in Word /\ r \in Word
    <2>1. CASE y = 0
      BY <1>0, <2>1
    <2>2. CASE y # 0
      <3> DEFINE s == x \div y
                 t == x % y
      <3>1. s \in 0..x /\ t \in 0..x
        BY <1>0, <2>2, QuotientBound
      <3> HIDE DEF s, t
      <3>2. s \in Word /\ t \in Word
        BY <3>1, BelowWord
      <3> QED BY <2>2, <3>2 DEF s, t
    <2> QED BY <2>1, <2>2
  <1>2. Fast!div64(x, y) = q /\ Fast!mod64(x, y) = r
    BY DEF Fast!div64, Fast!mod64
  <1>3. Slow!div64(x, y) = Slow!u256ToU64(q) /\ Slow!mod64(x, y) = r
    BY DEF Slow!div64, Slow!div, Slow!mod64, Slow!mod
  <1> HIDE DEF q, r
  <1>4. Slow!u256ToU64(q) = q
    <2>1. q \in Nat
      BY <1>1, WordNat
    <2> QED BY <1>1, <2>1, SlowCut, CutWord
  <1> QED BY <1>1, <1>2, <1>3, <1>4

\* The slow VM's signed division in terms of signed registers.
LEMMA SlowSigned ==
    ASSUME NEW x \in Word, NEW y \in Word, y # 0
    PROVE  /\ Slow!sdiv64(x, y) = Truncated(Signed64(x), Signed64(y)) % RegSize
           /\ Slow!smod64(x, y) =
                (Signed64(x) - Signed64(y) * Truncated(Signed64(x), Signed64(y))) % RegSize
           /\ Truncated(Signed64(x), Signed64(y)) \in Int
  <1> DEFINE s == Signed64(x)
             t == Signed64(y)
             q == Truncated(s, t)
             ex == Extended(x)
             ey == Extended(y)
             r == s - t * q
  <1>1. s \in Int /\ t \in Int /\ t # 0 /\ ey # 0
    BY ExtendWide
  <1>2. Signed256(ex) = s /\ Signed256(ey) = t
    BY ExtendWide
  <1>3. Slow!signExtend64To256(x) = ex /\ Slow!signExtend64To256(y) = ey
    BY ExtendWide
  <1>4. Slow!sdiv64(x, y) = Slow!u256ToU64(Slow!sdiv(ex, ey))
    BY <1>3 DEF Slow!sdiv64
  <1>5. Slow!smod64(x, y) = Slow!u256ToU64(Slow!smod(ex, ey))
    BY <1>3 DEF Slow!smod64
  <1>6. Slow!Signed256(ex) = s /\ Slow!Signed256(ey) = t /\ Slow!Truncated(s, t) = q
    BY <1>2, Readings
  <1> HIDE DEF s, t, ex, ey, q
  <1>7. q \in Int
    BY <1>1, TruncatedInt DEF q
  <1>8. Slow!sdiv(ex, ey) = q % WideSize
    BY <1>1, <1>6 DEF Slow!sdiv, WideSize
  <1>9. Slow!smod(ex, ey) = r % WideSize
    BY <1>1, <1>6 DEF Slow!smod, WideSize
  <1>10. r \in Int
    BY <1>1, <1>7
  <1> HIDE DEF r
  <1>11. Slow!sdiv64(x, y) = q % RegSize
    BY <1>4, <1>7, <1>8, CutBoth
  <1>12. Slow!smod64(x, y) = r % RegSize
    BY <1>5, <1>9, <1>10, CutBoth
  <1> QED BY <1>7, <1>11, <1>12 DEF r, q, s, t

\* Signed quotients and remainders, by zero and of the least number too.
LEMMA SignedDivision ==
    ASSUME NEW x \in Word, NEW y \in Word
    PROVE  /\ Slow!sdiv64(x, y) = Fast!sdiv64(x, y) /\ Fast!sdiv64(x, y) \in Word
           /\ Slow!smod64(x, y) = Fast!smod64(x, y) /\ Fast!smod64(x, y) \in Word
           /\ y # 0 =>
                /\ Fast!sdiv64(x, y) = Truncated(Signed64(x), Signed64(y)) % RegSize
                /\ Fast!smod64(x, y) =
                     (Signed64(x) - Signed64(y) * Truncated(Signed64(x), Signed64(y))) % RegSize
  <1>0. 0 \in Word /\ 0 \in Nat /\ 0 % RegSize = 0
    BY Ranges, Sizes
  <1>1. CASE y = 0
    <2>1. Fast!sdiv64(x, y) = 0 /\ Fast!smod64(x, y) = 0
      BY <1>1 DEF Fast!sdiv64, Fast!smod64
    <2>2. Slow!signExtend64To256(y) = 0
      BY <1>1, ExtendWide
    <2>3. Slow!sdiv64(x, y) = Slow!u256ToU64(0) /\ Slow!smod64(x, y) = Slow!u256ToU64(0)
      BY <2>2 DEF Slow!sdiv64, Slow!smod64, Slow!sdiv, Slow!smod
    <2>4. Slow!u256ToU64(0) = 0
      BY <1>0, SlowCut
    <2> QED BY <1>0, <1>1, <2>1, <2>3, <2>4
  <1>2. CASE y # 0
    <2> DEFINE s == Signed64(x)
               t == Signed64(y)
               q == Truncated(s, t)
               r == s - t * q
    <2>1. s \in Int /\ t \in Int /\ t # 0 /\ Fast!int64(x) = s /\ Fast!int64(y) = t
      BY <1>2, ExtendWide
    <2>2. q \in Int /\ Slow!sdiv64(x, y) = q % RegSize /\ Slow!smod64(x, y) = r % RegSize
      BY <1>2, SlowSigned
    <2>3. Fast!Truncated(s, t) = q
      BY Readings
    <2>4. x = SignBit /\ y = RegSize - 1 => q % RegSize = SignBit
      <3>1. SUFFICES ASSUME x = SignBit, y = RegSize - 1 PROVE q % RegSize = SignBit
        OBVIOUS
      <3>2. s = -SignBit /\ t = -1 /\ SignBit \in Nat \ {0} /\ RegSize = 2 * SignBit
        BY <3>1, Sizes DEF Signed64
      <3> HIDE DEF s, t
      <3>3. q = SignBit \div 1
        BY <3>2 DEF Truncated
      <3>4. q = SignBit
        BY <3>2, <3>3
      <3> HIDE DEF q
      <3> QED BY <3>2, <3>4
    <2> HIDE DEF s, t, q
    <2>5. Fast!sdiv64(x, y) = q % RegSize
      <3>1. Fast!sdiv64(x, y) =
              IF x = SignBit /\ y = RegSize - 1 THEN SignBit ELSE q % RegSize
        BY <1>2, <2>1, <2>3, Constants, FastCut DEF Fast!sdiv64, SignBit
      <3> QED BY <2>4, <3>1
    <2>6. Fast!smod64(x, y) = r % RegSize
      BY <1>2, <2>1, <2>3, FastCut DEF Fast!smod64
    <2>7. r \in Int
      BY <2>1, <2>2
    <2> HIDE DEF r
    <2>8. q % RegSize \in Word /\ r % RegSize \in Word
      BY <2>2, <2>7, CutWord
    <2> QED BY <2>2, <2>5, <2>6, <2>8 DEF r, q, s, t
  <1> QED BY <1>1, <1>2

\* Complements.
LEMMA Complement ==
    ASSUME NEW x \in Word
    PROVE  Slow!not64(x) = Fast!not64(x) /\ Fast!not64(x) \in Word
  <1> DEFINE u == WideSize - 1 - x
             v == RegSize - 1 - x
  <1>1. PICK c \in Nat \ {0} : WideSize = RegSize * c
    <2>1. XLEN \in 0..WIDE /\ WIDE \in XLEN..WIDE
      BY Widths
    <2> QED BY <2>1, PowerDivides DEF WideSize, RegSize
  <1>2. /\ RegSize \in Nat \ {0} /\ WideSize \in Nat \ {0} /\ RegSize <= WideSize
        /\ x \in 0..(RegSize - 1)
    BY Sizes, Ranges
  <1>3. Slow!not64(x) = Slow!u256ToU64(u)
    BY SlowOpcodes DEF Slow!not64, not, WideSize
  <1>4. Fast!not64(x) = v
    BY Constants DEF Fast!not64
  <1> DEFINE d == c - 1
             y == RegSize * d
  <1>5. WideSize = y + RegSize /\ y \in Int /\ d \in Int
    BY <1>1, <1>2
  <1> HIDE DEF y
  <1>6. u \in Nat /\ u \in Int /\ v \in 0..(RegSize - 1) /\ u = y + v
    BY <1>2, <1>5
  <1> HIDE DEF u, v, d
  <1>7. u % RegSize = v
    <2>1. /\ u \in Int /\ RegSize \in Nat \ {0} /\ d \in Int /\ v \in 0..(RegSize - 1)
          /\ u = RegSize * d + v
      BY <1>2, <1>5, <1>6 DEF y
    <2> QED BY ONLY <2>1, QuotientUnique
  <1>8. Slow!u256ToU64(u) = u % RegSize
    BY <1>6, SlowCut
  <1> QED BY <1>3, <1>4, <1>6, <1>7, <1>8, Ranges

\* Comparisons.
LEMMA Comparisons ==
    ASSUME NEW x \in Word, NEW y \in Word
    PROVE  /\ Slow!lt64(x, y) = Fast!lt64(x, y) /\ Fast!lt64(x, y) = Flag(x < y)
           /\ Slow!gt64(x, y) = Fast!gt64(x, y) /\ Fast!gt64(x, y) = Flag(x > y)
           /\ Slow!eq64(x, y) = Fast!eq64(x, y) /\ Fast!eq64(x, y) = Flag(x = y)
           /\ Slow!slt64(x, y) = Fast!slt64(x, y)
           /\ Fast!slt64(x, y) = Flag(Signed64(x) < Signed64(y))
           /\ Slow!sgt64(x, y) = Fast!sgt64(x, y)
           /\ Fast!sgt64(x, y) = Flag(Signed64(x) > Signed64(y))
  <1>1. Slow!lt64(x, y) = Fast!lt64(x, y) /\ Fast!lt64(x, y) = Flag(x < y)
    BY DEF Slow!lt64, Slow!lt, Fast!lt64, Slow!Flag, Fast!Flag, Flag
  <1>2. Slow!gt64(x, y) = Fast!gt64(x, y) /\ Fast!gt64(x, y) = Flag(x > y)
    BY DEF Slow!gt64, Slow!gt, Fast!gt64, Slow!Flag, Fast!Flag, Flag
  <1>3. Slow!eq64(x, y) = Fast!eq64(x, y) /\ Fast!eq64(x, y) = Flag(x = y)
    BY DEF Slow!eq64, Slow!eq, Fast!eq64, Slow!Flag, Fast!Flag, Flag
  <1> DEFINE s == Signed64(x)
             t == Signed64(y)
             ex == Extended(x)
             ey == Extended(y)
  <1>4. Slow!signExtend64To256(x) = ex /\ Slow!signExtend64To256(y) = ey
    BY ExtendWide
  <1>5. Slow!Signed256(ex) = s /\ Slow!Signed256(ey) = t
    BY ExtendWide, Readings
  <1>6. Fast!int64(x) = s /\ Fast!int64(y) = t
    BY ExtendWide
  <1> HIDE DEF s, t, ex, ey
  <1>7. Slow!slt64(x, y) = Flag(s < t) /\ Fast!slt64(x, y) = Flag(s < t)
    BY <1>4, <1>5, <1>6 DEF Slow!slt64, Slow!slt, Fast!slt64, Slow!Flag, Fast!Flag, Flag
  <1>8. Slow!sgt64(x, y) = Flag(s > t) /\ Fast!sgt64(x, y) = Flag(s > t)
    BY <1>4, <1>5, <1>6 DEF Slow!sgt64, Slow!sgt, Fast!sgt64, Slow!Flag, Fast!Flag, Flag
  <1> QED BY <1>1, <1>2, <1>3, <1>7, <1>8 DEF s, t

\* A truth value is a register.
LEMMA FlagWord == \A c : Flag(c) \in Word /\ Flag(c) \in {0, 1}
  <1>1. 0 \in Word /\ 1 \in Word
    BY Ranges, Sizes
  <1> QED BY <1>1 DEF Flag

\* Bitwise operations.
LEMMA BitwiseOps ==
    ASSUME NEW x \in Word, NEW y \in Word
    PROVE  /\ Slow!and64(x, y) = Fast!and64(x, y) /\ Fast!and64(x, y) \in Word
           /\ Slow!or64(x, y) = Fast!or64(x, y) /\ Fast!or64(x, y) \in Word
           /\ Slow!xor64(x, y) = Fast!xor64(x, y) /\ Fast!xor64(x, y) \in Word
           /\ Fast!and64(x, y) = and(x, y) /\ Fast!or64(x, y) = or(x, y)
           /\ Fast!xor64(x, y) = xor(x, y)
  <1> DEFINE A == Ones(x)
             B == Ones(y)
             C == A \cap B
             D == A \union B
             E == (A \union B) \ (A \cap B)
  <1>0. XLEN \in 0..WIDE
    BY Widths
  <1>1. A \subseteq 0..(XLEN - 1) /\ B \subseteq 0..(XLEN - 1)
    BY <1>0, OnesBelow DEF Word
  <1>2. /\ \A i \in XLEN..(WIDE - 1) : i \notin C /\ i \notin D /\ i \notin E
    BY <1>0, <1>1, Widths
  <1>3. and(x, y) = OfOnes(C) /\ or(x, y) = OfOnes(D) /\ xor(x, y) = OfOnes(E)
    BY DEF and, or, xor
  <1> HIDE DEF C, D, E
  <1>4. OfOnes(C) \in Word /\ OfOnes(D) \in Word /\ OfOnes(E) \in Word
    <2>1. \A i \in XLEN..(WIDE - 1) : i \notin C
      BY <1>2
    <2>2. OfOnes(C) \in 0..(2 ^ XLEN - 1)
      BY <1>0, <2>1, OfOnesBelow
    <2>3. \A i \in XLEN..(WIDE - 1) : i \notin D
      BY <1>2
    <2>4. OfOnes(D) \in 0..(2 ^ XLEN - 1)
      BY <1>0, <2>3, OfOnesBelow
    <2>5. \A i \in XLEN..(WIDE - 1) : i \notin E
      BY <1>2
    <2>6. OfOnes(E) \in 0..(2 ^ XLEN - 1)
      BY <1>0, <2>5, OfOnesBelow
    <2> QED BY <2>2, <2>4, <2>6 DEF Word
  <1>5. Slow!and64(x, y) = and(x, y) /\ Fast!and64(x, y) = and(x, y)
    BY SlowOpcodes, FastOpcodes DEF Slow!and64, Fast!and64
  <1>6. Slow!or64(x, y) = or(x, y) /\ Fast!or64(x, y) = or(x, y)
    BY SlowOpcodes, FastOpcodes DEF Slow!or64, Fast!or64
  <1>7. Slow!xor64(x, y) = xor(x, y) /\ Fast!xor64(x, y) = xor(x, y)
    BY SlowOpcodes, FastOpcodes DEF Slow!xor64, Fast!xor64
  <1> QED BY <1>3, <1>4, <1>5, <1>6, <1>7

\* Masks of the lowest bits.
LEMMA Masks ==
    ASSUME NEW x \in Word, NEW k \in 0..XLEN
    PROVE  and(x, 2 ^ k - 1) = x % 2 ^ k
  <1>1. k \in 0..WIDE /\ x \in Nat
    BY Widths, WordNat
  <1> QED BY <1>1, AndMask

\* The constants that occur in the instructions are registers.
LEMMA ConstantWords ==
    /\ XLEN - 1 \in Word /\ XLEN \div 2 - 1 \in Word /\ RegSize - 1 \in Word
    /\ XLEN \div 2 \in Word
    /\ HalfSize - 1 \in Word /\ 0 \in Word /\ 1 \in Word /\ SignBit \in Word
  <1>1. PICK k \in 1..XLEN : XLEN = 2 ^ k /\ XLEN \div 2 = 2 ^ (k - 1)
    BY Widths
  <1>2. k \in 0..WIDE /\ XLEN \in k..WIDE
    BY Widths
  <1>3. XLEN <= RegSize
    BY <1>1, <1>2, PowerOrder DEF RegSize
  <1>4. XLEN \div 2 \in 1..(XLEN - 1) /\ XLEN \in Nat
    BY Widths
  <1> QED BY <1>3, <1>4, Sizes, Ranges

\* The shift amounts of the instructions.
LEMMA ShiftAmounts ==
    ASSUME NEW x \in Word
    PROVE  /\ and(x, XLEN - 1) = x % XLEN /\ x % XLEN \in 0..(XLEN - 1)
           /\ and(x, XLEN \div 2 - 1) = x % (XLEN \div 2)
           /\ x % (XLEN \div 2) \in 0..(XLEN \div 2 - 1)
  <1>1. PICK k \in 1..XLEN : XLEN = 2 ^ k /\ XLEN \div 2 = 2 ^ (k - 1)
    BY Widths
  <1>2. k \in 0..XLEN /\ k - 1 \in 0..XLEN
    BY Widths
  <1>3. XLEN \in Nat \ {0} /\ XLEN \div 2 \in Nat \ {0} /\ x \in Nat
    BY Widths, WordNat
  <1>4. and(x, 2 ^ k - 1) = x % 2 ^ k /\ and(x, 2 ^ (k - 1) - 1) = x % 2 ^ (k - 1)
    BY <1>2, Masks
  <1>5. and(x, XLEN - 1) = x % XLEN /\ and(x, XLEN \div 2 - 1) = x % (XLEN \div 2)
    BY <1>1, <1>4
  <1> DEFINE h == XLEN \div 2
  <1> HIDE DEF h
  <1>6. x % XLEN \in 0..(XLEN - 1) /\ x % h \in 0..(h - 1)
    BY <1>3 DEF h
  <1> QED BY <1>5, <1>6 DEF h

\* Shifts.
LEMMA Shifts ==
    ASSUME NEW x \in Word, NEW n \in 0..(XLEN - 1)
    PROVE  /\ Slow!shl64(n, x) = Fast!shl64(n, x) /\ Fast!shl64(n, x) \in Word
           /\ Fast!shl64(n, x) = (x * 2 ^ n) % RegSize
           /\ Slow!shr64(n, x) = Fast!shr64(n, x) /\ Fast!shr64(n, x) \in Word
           /\ Fast!shr64(n, x) = x \div 2 ^ n /\ x \div 2 ^ n \in 0..x
           /\ Slow!sar64(n, x) = Fast!sar64(n, x) /\ Fast!sar64(n, x) \in Word
           /\ Fast!sar64(n, x) = (Signed64(x) \div 2 ^ n) % RegSize
  <1> DEFINE p == 2 ^ n
             u == x * p
             v == x \div p
             s == Signed64(x)
             w == s \div p
             ex == Extended(x)
  <1>1. p \in Nat \ {0} /\ x \in Nat
    <2>1. n \in 0..WIDE
      BY Widths
    <2> QED BY <2>1, PowerStep, WordNat
  <1>2. Fast!shl64(n, x) = u % RegSize /\ Fast!shr64(n, x) = v
    BY FastCut DEF Fast!shl64, Fast!shr64
  <1>3. Slow!shl64(n, x) = Slow!u256ToU64(u % WideSize) /\ Slow!shr64(n, x) = v
    BY SlowOpcodes DEF Slow!shl64, Slow!shr64, shl, shr, WideSize
  <1>4. s \in Int /\ Fast!int64(x) = s
    BY ExtendWide
  <1>5. Fast!sar64(n, x) = w % RegSize
    BY <1>4, FastCut DEF Fast!sar64
  <1>6. Slow!signExtend64To256(x) = ex /\ Slow!Signed256(ex) = s
    BY ExtendWide, Readings
  <1> HIDE DEF s, ex
  <1>7. Slow!sar64(n, x) = Slow!u256ToU64(w % WideSize)
    BY <1>6 DEF Slow!sar64, Slow!sar, WideSize
  <1> HIDE DEF p
  <1>8. u \in Int /\ w \in Int
    BY <1>1, <1>4
  <1>9. v \in 0..x
    BY <1>1, QuotientBound
  <1> HIDE DEF u, v, w
  <1>10. Slow!u256ToU64(u % WideSize) = u % RegSize /\ Slow!u256ToU64(w % WideSize) = w % RegSize
    BY <1>8, CutBoth
  <1>11. u % RegSize \in Word /\ w % RegSize \in Word /\ v \in Word
    BY <1>8, <1>9, CutWord, BelowWord
  <1> QED BY <1>2, <1>3, <1>5, <1>7, <1>9, <1>10, <1>11 DEF u, v, w, s, p

\* A cut integer is a natural number less than the size.
LEMMA SmallCut ==
    ASSUME NEW i \in Nat, NEW m \in Nat \ {0}, i < m
    PROVE  i % m = i
  OBVIOUS

\* signExtend64 in either VM: what the bits are masked with and or-ed with.
Spread(v, bit) ==
    IF and(v, 2 ^ bit) = 0
    THEN and(v, (RegSize - 1) \div 2 ^ (XLEN - 1 - bit))
    ELSE or(v, ((RegSize - 1) \div 2 ^ bit) * 2 ^ bit)

\* signExtend64 of both VMs is Spread.
LEMMA Spreads ==
    ASSUME NEW v \in Word, NEW bit \in 0..(XLEN - 1)
    PROVE  /\ Slow!signExtend64(v, bit) = Spread(v, bit)
           /\ Fast!signExtend64(v, bit) = Spread(v, bit)
           /\ Spread(v, bit) \in Word
  <1> DEFINE p == 2 ^ bit
             n == XLEN - 1 - bit
             m == RegSize - 1
             q == m \div p
             y == p * q
             e == 2 ^ n
  <1>1. bit \in 0..WIDE /\ XLEN \in (bit + 1)..WIDE /\ bit + 1 \in 0..WIDE /\ n \in 0..(XLEN - 1) /\ n \in 0..WIDE
    BY Widths
  <1>2. /\ p \in Nat \ {0} /\ 2 ^ (bit + 1) = 2 * p /\ 2 ^ (bit + 1) <= RegSize
        /\ e \in Nat \ {0}
    BY <1>1, PowerStep, PowerOrder DEF RegSize
  <1>3. /\ RegSize \in Nat \ {0} /\ WideSize \in Nat \ {0} /\ 2 * RegSize <= WideSize /\ m \in Nat
        /\ m \in Word
    BY Sizes, Ranges
  <1> HIDE DEF p, e
  <1>4. p < RegSize /\ p < WideSize
    BY <1>2, <1>3
  <1>5. p % RegSize = p /\ p % WideSize = p
    BY <1>2, <1>3, <1>4, SmallCut
  <1>6. n \in Nat /\ n < RegSize /\ n < WideSize
    <2>1. XLEN - 1 \in 0..(RegSize - 1) /\ n <= XLEN - 1 /\ n \in Nat
      BY <1>1, ConstantWords, Ranges
    <2> QED BY <1>3, <2>1, Widths
  <1>7. n % RegSize = n /\ n % WideSize = n
    <2> HIDE DEF n
    <2> QED BY <1>3, <1>6, SmallCut
  <1>8. q \in Nat /\ y \in Nat /\ y \in 0..m
    <2>1. q \in 0..m
      BY <1>2, <1>3, QuotientBound
    <2> DEFINE r == m % p
    <2>2. r \in 0..(p - 1) /\ m = y + r /\ y \in Int
      <3> HIDE DEF m
      <3> QED BY <1>2, <1>3
    <2> HIDE DEF q, r
    <2>3. y \in Nat
      BY <1>2, <2>1
    <2> HIDE DEF y
    <2> QED BY <1>3, <2>1, <2>2, <2>3
  <1>9. q * p = y
    <2> HIDE DEF q
    <2> QED BY <1>2, <1>8
  <1> HIDE DEF q, y
  <1>10. y % RegSize = y /\ y % WideSize = y
    <2>1. y < RegSize /\ y < WideSize
      BY <1>3, <1>8
    <2> QED BY <1>3, <1>8, <2>1, SmallCut
  <1>11. Spread(v, bit) = IF and(v, p) = 0 THEN and(v, m \div e) ELSE or(v, y)
    BY <1>9 DEF Spread, p, q, e
  <1>12. Slow!signExtend64(v, bit) = IF and(v, p) = 0 THEN and(v, m \div e) ELSE or(v, y)
    <2>1. Slow!shl(bit, 1) = p
      <3>1. Slow!shl(bit, 1) = (1 * p) % WideSize
        BY DEF Slow!shl, WideSize, p
      <3> QED BY <1>2, <1>5, <3>1
    <2>2. Slow!sub(XLEN - 1, bit) = n
      BY <1>7 DEF Slow!sub, WideSize
    <2>3. Slow!shr(n, Slow!u64Mask) = m \div e
      BY Constants DEF Slow!shr, e
    <2>4. Slow!shr(bit, Slow!u64Mask) = q
      BY Constants DEF Slow!shr, p, q
    <2>5. Slow!shl(bit, q) = y
      <3>1. Slow!shl(bit, q) = (q * p) % WideSize
        BY DEF Slow!shl, WideSize, p
      <3> QED BY <1>9, <1>10, <3>1
    <2> HIDE DEF n, m
    <2> QED BY <2>1, <2>2, <2>3, <2>4, <2>5, SlowOpcodes DEF Slow!signExtend64
  <1>13. Fast!signExtend64(v, bit) = IF and(v, p) = 0 THEN and(v, m \div e) ELSE or(v, y)
    <2>1. Fast!shl64(bit, 1) = p
      <3>1. Fast!shl64(bit, 1) = (1 * p) % RegSize
        BY FastCut DEF Fast!shl64, p
      <3> QED BY <1>2, <1>5, <3>1
    <2>2. Fast!sub64(XLEN - 1, bit) = n
      BY <1>7, FastCut DEF Fast!sub64
    <2>3. Fast!shr64(n, Fast!u64Mask) = m \div e
      BY Constants DEF Fast!shr64, e
    <2>4. Fast!shr64(bit, Fast!u64Mask) = q
      BY Constants DEF Fast!shr64, p, q
    <2>5. Fast!shl64(bit, q) = y
      <3>1. Fast!shl64(bit, q) = (q * p) % RegSize
        BY FastCut DEF Fast!shl64, p
      <3> QED BY <1>9, <1>10, <3>1
    <2> HIDE DEF n, m
    <2> QED BY <2>1, <2>2, <2>3, <2>4, <2>5, FastOpcodes DEF Fast!signExtend64, Fast!and64, Fast!or64
  <1>14. m \div e \in Word /\ y \in Word
    <2> DEFINE d == m \div e
    <2>1. d \in 0..m
      BY <1>2, <1>3, QuotientBound
    <2> HIDE DEF d, m
    <2>2. d \in Word /\ y \in Word
      BY <1>3, <1>8, <2>1, BelowWord
    <2> QED BY <2>2 DEF d
  <1> HIDE DEF m
  <1>15. and(v, m \div e) \in Word /\ or(v, y) \in Word
    BY <1>14, BitwiseOps
  <1> QED BY <1>11, <1>12, <1>13, <1>15

\* The lower half of a register, with its sign.
LEMMA LowerHalf ==
    ASSUME NEW x \in Word
    PROVE  /\ Slow!and64(x, Slow!u32Mask) = x % HalfSize
           /\ Fast!and64(x, Fast!u32Mask) = x % HalfSize
           /\ x % HalfSize \in Word /\ x % HalfSize \in 0..(HalfSize - 1)
           /\ Slow!mask32Signed64(x) = Fast!mask32Signed64(x)
           /\ Fast!mask32Signed64(x) \in Word
           /\ Fast!mask32Signed64(x) = Spread(x % HalfSize, XLEN \div 2 - 1)
  <1> DEFINE m == HalfSize - 1
             u == x % HalfSize
             h == XLEN \div 2 - 1
  <1>1. m \in Word /\ Slow!u32Mask = m /\ Fast!u32Mask = m
    BY ConstantWords, Constants
  <1>2. and(x, m) = u
    <2>1. XLEN \div 2 \in 0..XLEN
      BY Widths
    <2> QED BY <2>1, Masks DEF HalfSize
  <1>3. u \in 0..(HalfSize - 1)
    <2>1. x \in Int /\ HalfSize \in Nat \ {0}
      BY Sizes, WordNat
    <2> QED BY <2>1
  <1>4. h \in 0..(XLEN - 1)
    BY Widths
  <1> HIDE DEF m, u
  <1>5. Slow!and64(x, m) = u /\ Fast!and64(x, m) = u /\ u \in Word
    BY <1>1, <1>2, BitwiseOps
  <1>6. Slow!mask32Signed64(x) = Slow!signExtend64(u, h) /\ Fast!mask32Signed64(x) = Fast!signExtend64(u, h)
    BY <1>1, <1>5 DEF Slow!mask32Signed64, Fast!mask32Signed64
  <1> HIDE DEF h
  <1>7. /\ Slow!signExtend64(u, h) = Spread(u, h) /\ Fast!signExtend64(u, h) = Spread(u, h)
        /\ Spread(u, h) \in Word
    BY <1>4, <1>5, Spreads
  <1> QED BY <1>1, <1>3, <1>5, <1>6, <1>7 DEF u, h

\* Upper halves of products.
LEMMA Uppers ==
    ASSUME NEW x \in Wide, NEW y \in Wide
    PROVE  /\ Slow!upper(x, y) = Fast!upper(x, y) /\ Fast!upper(x, y) \in Word
           /\ Fast!upper(x, y) = (((x * y) % WideSize) \div RegSize) % RegSize
  <1> DEFINE z == x * y
             u == z % WideSize
             v == u \div RegSize
  <1>1. RegSize \in Nat \ {0} /\ WideSize \in Nat \ {0} /\ z \in Nat
    <2>1. x \in Nat /\ y \in Nat
      BY Ranges
    <2> QED BY <2>1, Sizes
  <1>2. Slow!upper(x, y) = Slow!u256ToU64(v)
    BY SlowOpcodes DEF Slow!upper, shr, mul, RegSize, WideSize
  <1>3. Fast!upper(x, y) = v % RegSize
    BY FastOpcodes DEF Fast!upper, Fast!u256ToU64, shr, mul, RegSize, WideSize
  <1> HIDE DEF z
  <1>4. u \in Nat
    BY <1>1
  <1> HIDE DEF u
  <1>5. v \in Nat /\ v \in Int
    <2>1. v \in 0..u
      BY <1>1, <1>4, QuotientBound
    <2> QED BY <1>4, <2>1
  <1> HIDE DEF v
  <1>6. Slow!u256ToU64(v) = v % RegSize /\ v % RegSize \in Word
    BY <1>5, SlowCut, CutWord
  <1> QED BY <1>2, <1>3, <1>6 DEF v, u, z

-----------------------------------------------------------------------------
(* The instructions.                                                       *)

\* A register, or the mark of an instruction that reverts.
Results == Word \union {-1}

\* Opcode 0x13.
LEMMA OpImmAgrees ==
    ASSUME NEW f, NEW top, NEW x \in Word, NEW y \in Word
    PROVE  /\ Slow!OpImm(f, top, x, y) = Fast!OpImm(f, top, x, y)
           /\ Fast!OpImm(f, top, x, y) \in Results
  <1> DEFINE n == y % XLEN
  <1>1. Slow!and64(y, XLEN - 1) = n /\ Fast!and64(y, XLEN - 1) = n /\ n \in 0..(XLEN - 1)
    BY ConstantWords, BitwiseOps, ShiftAmounts
  <1> HIDE DEF n
  <1>2. Slow!add64(x, y) = Fast!add64(x, y) /\ Fast!add64(x, y) \in Word
    BY AddSub
  <1>3. Slow!shl64(n, x) = Fast!shl64(n, x) /\ Fast!shl64(n, x) \in Word
    BY <1>1, Shifts
  <1>4. Slow!shr64(n, x) = Fast!shr64(n, x) /\ Fast!shr64(n, x) \in Word
    BY <1>1, Shifts
  <1>5. Slow!sar64(n, x) = Fast!sar64(n, x) /\ Fast!sar64(n, x) \in Word
    BY <1>1, Shifts
  <1>6. /\ Slow!slt64(x, y) = Fast!slt64(x, y) /\ Fast!slt64(x, y) \in Word
        /\ Slow!lt64(x, y) = Fast!lt64(x, y) /\ Fast!lt64(x, y) \in Word
    BY Comparisons, FlagWord
  <1>7. /\ Slow!xor64(x, y) = Fast!xor64(x, y) /\ Fast!xor64(x, y) \in Word
        /\ Slow!or64(x, y) = Fast!or64(x, y) /\ Fast!or64(x, y) \in Word
        /\ Slow!and64(x, y) = Fast!and64(x, y) /\ Fast!and64(x, y) \in Word
    BY BitwiseOps
  <1>8. Slow!OpImm(f, top, x, y) = Fast!OpImm(f, top, x, y)
    BY <1>1, <1>2, <1>3, <1>4, <1>5, <1>6, <1>7 DEF Slow!OpImm, Fast!OpImm, Slow!Illegal, Fast!Illegal
  <1>9. Fast!OpImm(f, top, x, y) \in Results
    BY <1>1, <1>2, <1>3, <1>4, <1>5, <1>6, <1>7 DEF Fast!OpImm, Fast!Illegal, Results
  <1> QED BY <1>8, <1>9

\* Opcode 0x33 with the M extension.
LEMMA MulDivAgrees ==
    ASSUME NEW f \in Funct3, NEW x \in Word, NEW y \in Word
    PROVE  /\ Slow!MulDiv(f, x, y) = Fast!MulDiv(f, x, y)
           /\ Fast!MulDiv(f, x, y) \in Results
  <1> DEFINE ex == Extended(x)
             ey == Extended(y)
  <1>1. /\ Slow!signExtend64To256(x) = ex /\ Fast!signExtend64To256(x) = ex
        /\ Slow!signExtend64To256(y) = ey /\ Fast!signExtend64To256(y) = ey
        /\ ex \in Wide /\ ey \in Wide
    BY ExtendWide
  <1> HIDE DEF ex, ey
  <1>2. /\ Slow!u64ToU256(x) = x /\ Fast!u64ToU256(x) = x
        /\ Slow!u64ToU256(y) = y /\ Fast!u64ToU256(y) = y
        /\ x \in Wide /\ y \in Wide
    BY Ranges, Sizes DEF Slow!u64ToU256, Fast!u64ToU256
  <1>3. /\ Slow!upper(ex, ey) = Fast!upper(ex, ey) /\ Fast!upper(ex, ey) \in Word
        /\ Slow!upper(ex, y) = Fast!upper(ex, y) /\ Fast!upper(ex, y) \in Word
        /\ Slow!upper(x, y) = Fast!upper(x, y) /\ Fast!upper(x, y) \in Word
    BY <1>1, <1>2, Uppers
  <1>4. Slow!mul64(x, y) = Fast!mul64(x, y) /\ Fast!mul64(x, y) \in Word
    BY Products
  <1>5. /\ Slow!div64(x, y) = Fast!div64(x, y) /\ Fast!div64(x, y) \in Word
        /\ Slow!mod64(x, y) = Fast!mod64(x, y) /\ Fast!mod64(x, y) \in Word
    BY Unsigned
  <1>6. /\ Slow!sdiv64(x, y) = Fast!sdiv64(x, y) /\ Fast!sdiv64(x, y) \in Word
        /\ Slow!smod64(x, y) = Fast!smod64(x, y) /\ Fast!smod64(x, y) \in Word
    BY SignedDivision
  <1>7. Slow!u64Mask = Fast!u64Mask /\ Fast!u64Mask \in Word
    BY Constants, ConstantWords
  <1>8. Slow!MulDiv(f, x, y) = Fast!MulDiv(f, x, y)
    BY <1>1, <1>2, <1>3, <1>4, <1>5, <1>6, <1>7 DEF Slow!MulDiv, Fast!MulDiv
  <1>9. Fast!MulDiv(f, x, y) \in Results
    BY <1>1, <1>2, <1>3, <1>4, <1>5, <1>6, <1>7 DEF Fast!MulDiv, Results, Funct3
  <1> QED BY <1>8, <1>9

\* Opcode 0x33 without it.
LEMMA OpRegAgrees ==
    ASSUME NEW f, NEW g, NEW x \in Word, NEW y \in Word
    PROVE  /\ Slow!OpReg(f, g, x, y) = Fast!OpReg(f, g, x, y)
           /\ Fast!OpReg(f, g, x, y) \in Results
  <1> DEFINE n == y % XLEN
  <1>1. Slow!and64(y, XLEN - 1) = n /\ Fast!and64(y, XLEN - 1) = n /\ n \in 0..(XLEN - 1)
    BY ConstantWords, BitwiseOps, ShiftAmounts
  <1> HIDE DEF n
  <1>2. /\ Slow!add64(x, y) = Fast!add64(x, y) /\ Fast!add64(x, y) \in Word
        /\ Slow!sub64(x, y) = Fast!sub64(x, y) /\ Fast!sub64(x, y) \in Word
    BY AddSub
  <1>3. Slow!shl64(n, x) = Fast!shl64(n, x) /\ Fast!shl64(n, x) \in Word
    BY <1>1, Shifts
  <1>4. Slow!shr64(n, x) = Fast!shr64(n, x) /\ Fast!shr64(n, x) \in Word
    BY <1>1, Shifts
  <1>5. Slow!sar64(n, x) = Fast!sar64(n, x) /\ Fast!sar64(n, x) \in Word
    BY <1>1, Shifts
  <1>6. /\ Slow!slt64(x, y) = Fast!slt64(x, y) /\ Fast!slt64(x, y) \in Word
        /\ Slow!lt64(x, y) = Fast!lt64(x, y) /\ Fast!lt64(x, y) \in Word
    BY Comparisons, FlagWord
  <1>7. /\ Slow!xor64(x, y) = Fast!xor64(x, y) /\ Fast!xor64(x, y) \in Word
        /\ Slow!or64(x, y) = Fast!or64(x, y) /\ Fast!or64(x, y) \in Word
        /\ Slow!and64(x, y) = Fast!and64(x, y) /\ Fast!and64(x, y) \in Word
    BY BitwiseOps
  <1>8. Slow!OpReg(f, g, x, y) = Fast!OpReg(f, g, x, y)
    BY <1>1, <1>2, <1>3, <1>4, <1>5, <1>6, <1>7 DEF Slow!OpReg, Fast!OpReg, Slow!Illegal, Fast!Illegal
  <1>9. Fast!OpReg(f, g, x, y) \in Results
    BY <1>1, <1>2, <1>3, <1>4, <1>5, <1>6, <1>7 DEF Fast!OpReg, Fast!Illegal, Results
  <1> QED BY <1>8, <1>9

\* Shifts of the lower half, for amounts less than its width.
LEMMA HalfShifts ==
    ASSUME NEW x \in Word, NEW n \in 0..(XLEN \div 2 - 1)
    PROVE  /\ Slow!ShiftRight32(n, x) = Fast!ShiftRight32(n, x)
           /\ Fast!ShiftRight32(n, x) \in Word
           /\ Fast!ShiftRight32(n, x) = Spread((x % HalfSize) \div 2 ^ n, XLEN \div 2 - 1)
           /\ Slow!ShiftSigned32(n, x) = Fast!ShiftSigned32(n, x)
           /\ Fast!ShiftSigned32(n, x) \in Word
           /\ Fast!ShiftSigned32(n, x) = Spread((x % HalfSize) \div 2 ^ n, XLEN \div 2 - 1 - n)
  <1> DEFINE u == x % HalfSize
             h == XLEN \div 2 - 1
             v == u \div 2 ^ n
             t == h - n
  <1>1. Slow!and64(x, Slow!u32Mask) = u /\ Fast!and64(x, Fast!u32Mask) = u /\ u \in Word
    BY LowerHalf
  <1>2. n \in 0..(XLEN - 1) /\ h \in 0..(XLEN - 1) /\ t \in 0..(XLEN - 1) /\ n \in Nat
    BY Widths
  <1>3. Slow!shr64(n, u) = v /\ Fast!shr64(n, u) = v /\ v \in Word
    <2> HIDE DEF u
    <2> QED BY <1>1, <1>2, Shifts
  <1>4. Slow!sub64(h, n) = t /\ Fast!sub64(h, n) = t
    <2>1. h \in Word /\ XLEN - 1 \in Word
      BY ConstantWords
    <2>2. n \in Word /\ t \in Word
      <3>1. n \in 0..(XLEN - 1) /\ t \in 0..(XLEN - 1)
        BY <1>2
      <3> HIDE DEF t
      <3> QED BY <2>1, <3>1, BelowWord
    <2>3. Slow!sub64(h, n) = (h - n) % RegSize /\ Fast!sub64(h, n) = (h - n) % RegSize
      <3> HIDE DEF h
      <3> QED BY <2>1, <2>2, AddSub
    <2>4. t % RegSize = t
      <3> HIDE DEF t
      <3>1. t \in Int
        BY <2>2, WordNat
      <3> QED BY <2>2, <3>1, CutWord
    <2> QED BY <2>3, <2>4
  <1>5. Slow!Half - 1 = h /\ Fast!Half - 1 = h
    BY DEF Slow!Half, Fast!Half
  <1> HIDE DEF u, v, h, t
  <1>6. /\ Slow!ShiftRight32(n, x) = Slow!signExtend64(v, h)
        /\ Fast!ShiftRight32(n, x) = Fast!signExtend64(v, h)
    BY <1>1, <1>3, <1>5 DEF Slow!ShiftRight32, Fast!ShiftRight32
  <1>7. /\ Slow!ShiftSigned32(n, x) = Slow!signExtend64(v, t)
        /\ Fast!ShiftSigned32(n, x) = Fast!signExtend64(v, t)
    BY <1>1, <1>3, <1>4, <1>5 DEF Slow!ShiftSigned32, Fast!ShiftSigned32
  <1>8. /\ Slow!signExtend64(v, h) = Spread(v, h) /\ Fast!signExtend64(v, h) = Spread(v, h)
        /\ Spread(v, h) \in Word
        /\ Slow!signExtend64(v, t) = Spread(v, t) /\ Fast!signExtend64(v, t) = Spread(v, t)
        /\ Spread(v, t) \in Word
    BY <1>2, <1>3, Spreads
  <1> QED BY <1>6, <1>7, <1>8 DEF u, v, h, t

\* The amount by which a 32-bit instruction shifts.
LEMMA HalfAmount ==
    ASSUME NEW y \in Word
    PROVE  /\ Slow!and64(y, Slow!Half - 1) = y % (XLEN \div 2)
           /\ Fast!and64(y, Fast!Half - 1) = y % (XLEN \div 2)
           /\ y % (XLEN \div 2) \in 0..(XLEN \div 2 - 1)
           /\ y % (XLEN \div 2) \in 0..(XLEN - 1)
  <1>1. Slow!Half = XLEN \div 2 /\ Fast!Half = XLEN \div 2
    BY DEF Slow!Half, Fast!Half
  <1>2. XLEN \div 2 - 1 \in Word
    BY ConstantWords
  <1>3. /\ and(y, XLEN \div 2 - 1) = y % (XLEN \div 2)
        /\ y % (XLEN \div 2) \in 0..(XLEN \div 2 - 1)
    BY ShiftAmounts
  <1>4. y % (XLEN \div 2) \in 0..(XLEN - 1)
    BY <1>3, Widths
  <1> QED BY <1>1, <1>2, <1>3, <1>4, BitwiseOps

\* Opcode 0x1B.
LEMMA OpImm32Agrees ==
    ASSUME NEW f, NEW top, NEW x \in Word, NEW y \in Word
    PROVE  /\ Slow!OpImm32(f, top, x, y) = Fast!OpImm32(f, top, x, y)
           /\ Fast!OpImm32(f, top, x, y) \in Results
  <1> DEFINE n == y % (XLEN \div 2)
             u == Fast!add64(x, y)
             v == Fast!shl64(n, x)
  <1>1. /\ Slow!and64(y, Slow!Half - 1) = n /\ Fast!and64(y, Fast!Half - 1) = n
        /\ n \in 0..(XLEN \div 2 - 1) /\ n \in 0..(XLEN - 1)
    BY HalfAmount
  <1> HIDE DEF n
  <1>2. Slow!add64(x, y) = u /\ u \in Word /\ Slow!shl64(n, x) = v /\ v \in Word
    BY <1>1, AddSub, Shifts
  <1> HIDE DEF u, v
  <1>3. Slow!mask32Signed64(u) = Fast!mask32Signed64(u) /\ Fast!mask32Signed64(u) \in Word
    BY <1>2, LowerHalf
  <1>4. Slow!mask32Signed64(v) = Fast!mask32Signed64(v) /\ Fast!mask32Signed64(v) \in Word
    BY <1>2, LowerHalf
  <1>5. /\ Slow!ShiftRight32(n, x) = Fast!ShiftRight32(n, x) /\ Fast!ShiftRight32(n, x) \in Word
        /\ Slow!ShiftSigned32(n, x) = Fast!ShiftSigned32(n, x) /\ Fast!ShiftSigned32(n, x) \in Word
    BY <1>1, HalfShifts
  <1>6. Slow!and64(y, Slow!Half) = Fast!and64(y, Fast!Half)
    <2>1. Slow!Half = XLEN \div 2 /\ Fast!Half = XLEN \div 2 /\ XLEN \div 2 \in Word
      BY ConstantWords DEF Slow!Half, Fast!Half
    <2> QED BY <2>1, BitwiseOps
  <1>7. Fast!add64(x, y) = u /\ Fast!shl64(n, x) = v
    BY DEF u, v
  <1>8. Slow!OpImm32(f, top, x, y) = Fast!OpImm32(f, top, x, y)
    BY <1>1, <1>2, <1>3, <1>4, <1>5, <1>6, <1>7
    DEF Slow!OpImm32, Fast!OpImm32, Slow!Illegal, Fast!Illegal
  <1>9. Fast!OpImm32(f, top, x, y) \in Results
    BY <1>1, <1>3, <1>4, <1>5, <1>7 DEF Fast!OpImm32, Fast!Illegal, Results
  <1> QED BY <1>8, <1>9

\* The operands and results of 32-bit instructions: what an operation on lower
\* halves gives, cut and sign-extended.
LEMMA Halved ==
    ASSUME NEW x \in Word
    PROVE  /\ Slow!mask32Signed64(x) = Fast!mask32Signed64(x)
           /\ Fast!mask32Signed64(x) \in Word
  BY LowerHalf

\* Opcode 0x3B with the M extension.
LEMMA MulDiv32Agrees ==
    ASSUME NEW f, NEW x \in Word, NEW y \in Word
    PROVE  /\ Slow!MulDiv32(f, x, y) = Fast!MulDiv32(f, x, y)
           /\ Fast!MulDiv32(f, x, y) \in Results
  <1> DEFINE u == x % HalfSize
             v == y % HalfSize
             sx == Fast!mask32Signed64(x)
             sv == Fast!mask32Signed64(v)
             p == Fast!mul64(u, v)
             q == Fast!sdiv64(sx, sv)
             r == Fast!smod64(sx, sv)
             d == Fast!div64(u, v)
             m == Fast!mod64(u, v)
  <1>1. /\ Slow!and64(x, Slow!u32Mask) = u /\ Fast!and64(x, Fast!u32Mask) = u /\ u \in Word
        /\ Slow!and64(y, Slow!u32Mask) = v /\ Fast!and64(y, Fast!u32Mask) = v /\ v \in Word
    BY LowerHalf
  <1> HIDE DEF u, v
  <1>2. Slow!mask32Signed64(x) = sx /\ sx \in Word /\ Slow!mask32Signed64(v) = sv /\ sv \in Word
    BY <1>1, Halved
  <1>3. Fast!mask32Signed64(x) = sx /\ Fast!mask32Signed64(v) = sv
    OBVIOUS
  <1> HIDE DEF sx, sv
  <1>4. Slow!mul64(u, v) = p /\ p \in Word /\ Fast!mul64(u, v) = p
    BY <1>1, Products
  <1>5. /\ Slow!sdiv64(sx, sv) = q /\ q \in Word /\ Fast!sdiv64(sx, sv) = q
        /\ Slow!smod64(sx, sv) = r /\ r \in Word /\ Fast!smod64(sx, sv) = r
    BY <1>2, SignedDivision
  <1>6. /\ Slow!div64(u, v) = d /\ d \in Word /\ Fast!div64(u, v) = d
        /\ Slow!mod64(u, v) = m /\ m \in Word /\ Fast!mod64(u, v) = m
    BY <1>1, Unsigned
  <1> HIDE DEF p, q, r, d, m
  <1>7. /\ Slow!mask32Signed64(p) = Fast!mask32Signed64(p) /\ Fast!mask32Signed64(p) \in Word
        /\ Slow!mask32Signed64(q) = Fast!mask32Signed64(q) /\ Fast!mask32Signed64(q) \in Word
        /\ Slow!mask32Signed64(r) = Fast!mask32Signed64(r) /\ Fast!mask32Signed64(r) \in Word
        /\ Slow!mask32Signed64(d) = Fast!mask32Signed64(d) /\ Fast!mask32Signed64(d) \in Word
        /\ Slow!mask32Signed64(m) = Fast!mask32Signed64(m) /\ Fast!mask32Signed64(m) \in Word
    BY <1>4, <1>5, <1>6, Halved
  <1>8. Slow!u64Mask = Fast!u64Mask /\ Fast!u64Mask \in Word
    BY Constants, ConstantWords
  <1>9. Slow!MulDiv32(f, x, y) = Fast!MulDiv32(f, x, y)
    BY <1>1, <1>2, <1>3, <1>4, <1>5, <1>6, <1>7, <1>8
    DEF Slow!MulDiv32, Fast!MulDiv32, Slow!Illegal, Fast!Illegal
  <1>10. Fast!MulDiv32(f, x, y) \in Results
    BY <1>1, <1>2, <1>3, <1>4, <1>5, <1>6, <1>7, <1>8 DEF Fast!MulDiv32, Fast!Illegal, Results
  <1> QED BY <1>9, <1>10

\* Opcode 0x3B without it.
LEMMA OpReg32Agrees ==
    ASSUME NEW f, NEW g, NEW x \in Word, NEW y \in Word
    PROVE  /\ Slow!OpReg32(f, g, x, y) = Fast!OpReg32(f, g, x, y)
           /\ Fast!OpReg32(f, g, x, y) \in Results
  <1> DEFINE u == x % HalfSize
             v == y % HalfSize
             n == v % (XLEN \div 2)
             p == Fast!add64(u, v)
             d == Fast!sub64(u, v)
             l == Fast!shl64(n, x)
  <1>1. /\ Slow!and64(x, Slow!u32Mask) = u /\ Fast!and64(x, Fast!u32Mask) = u /\ u \in Word
        /\ Slow!and64(y, Slow!u32Mask) = v /\ Fast!and64(y, Fast!u32Mask) = v /\ v \in Word
    BY LowerHalf
  <1> HIDE DEF u, v
  <1>2. /\ Slow!and64(v, Slow!Half - 1) = n /\ Fast!and64(v, Fast!Half - 1) = n
        /\ n \in 0..(XLEN \div 2 - 1) /\ n \in 0..(XLEN - 1)
    BY <1>1, HalfAmount
  <1> HIDE DEF n
  <1>3. /\ Slow!add64(u, v) = p /\ p \in Word /\ Fast!add64(u, v) = p
        /\ Slow!sub64(u, v) = d /\ d \in Word /\ Fast!sub64(u, v) = d
    BY <1>1, AddSub
  <1>4. Slow!shl64(n, x) = l /\ l \in Word /\ Fast!shl64(n, x) = l
    BY <1>2, Shifts
  <1> HIDE DEF p, d, l
  <1>5. /\ Slow!mask32Signed64(p) = Fast!mask32Signed64(p) /\ Fast!mask32Signed64(p) \in Word
        /\ Slow!mask32Signed64(d) = Fast!mask32Signed64(d) /\ Fast!mask32Signed64(d) \in Word
        /\ Slow!mask32Signed64(l) = Fast!mask32Signed64(l) /\ Fast!mask32Signed64(l) \in Word
    BY <1>3, <1>4, Halved
  <1>6. /\ Slow!ShiftRight32(n, x) = Fast!ShiftRight32(n, x) /\ Fast!ShiftRight32(n, x) \in Word
        /\ Slow!ShiftSigned32(n, x) = Fast!ShiftSigned32(n, x) /\ Fast!ShiftSigned32(n, x) \in Word
    BY <1>2, HalfShifts
  <1>7. Slow!OpReg32(f, g, x, y) = Fast!OpReg32(f, g, x, y)
    BY <1>1, <1>2, <1>3, <1>4, <1>5, <1>6
    DEF Slow!OpReg32, Fast!OpReg32, Slow!Illegal, Fast!Illegal
  <1>8. Fast!OpReg32(f, g, x, y) \in Results
    BY <1>1, <1>2, <1>3, <1>4, <1>5, <1>6 DEF Fast!OpReg32, Fast!Illegal, Results
  <1> QED BY <1>7, <1>8

\* Opcode 0x63.
LEMMA BranchAgrees ==
    ASSUME NEW f, NEW x \in Word, NEW y \in Word
    PROVE  Slow!Branch(f, x, y) = Fast!Branch(f, x, y)
  <1> DEFINE e == Fast!eq64(x, y)
             l == Fast!lt64(x, y)
             s == Fast!slt64(x, y)
  <1>1. /\ Slow!eq64(x, y) = e /\ e \in Word /\ Fast!eq64(x, y) = e
        /\ Slow!lt64(x, y) = l /\ l \in Word /\ Fast!lt64(x, y) = l
        /\ Slow!slt64(x, y) = s /\ s \in Word /\ Fast!slt64(x, y) = s
    BY Comparisons, FlagWord
  <1> HIDE DEF e, l, s
  <1>2. ASSUME NEW c \in Word
        PROVE  Slow!and64(Slow!not64(c), 1) = Fast!and64(Fast!not64(c), 1)
    BY Complement, ConstantWords, BitwiseOps
  <1>3. /\ Slow!and64(Slow!not64(e), 1) = Fast!and64(Fast!not64(e), 1)
        /\ Slow!and64(Slow!not64(l), 1) = Fast!and64(Fast!not64(l), 1)
        /\ Slow!and64(Slow!not64(s), 1) = Fast!and64(Fast!not64(s), 1)
    BY <1>1, <1>2
  <1> QED BY <1>1, <1>3 DEF Slow!Branch, Fast!Branch

\* What an AMO stores.
LEMMA AmoResultAgrees ==
    ASSUME NEW op, NEW x \in Word, NEW y \in Word
    PROVE  /\ Slow!AmoResult(op, x, y) = Fast!AmoResult(op, x, y)
           /\ Fast!AmoResult(op, x, y) \in Results
  <1>1. Slow!add64(x, y) = Fast!add64(x, y) /\ Fast!add64(x, y) \in Word
    BY AddSub
  <1>2. /\ Slow!xor64(x, y) = Fast!xor64(x, y) /\ Fast!xor64(x, y) \in Word
        /\ Slow!or64(x, y) = Fast!or64(x, y) /\ Fast!or64(x, y) \in Word
        /\ Slow!and64(x, y) = Fast!and64(x, y) /\ Fast!and64(x, y) \in Word
    BY BitwiseOps
  <1>3. /\ Slow!slt64(y, x) = Fast!slt64(y, x) /\ Slow!sgt64(y, x) = Fast!sgt64(y, x)
        /\ Slow!lt64(y, x) = Fast!lt64(y, x) /\ Slow!gt64(y, x) = Fast!gt64(y, x)
    BY Comparisons
  <1>4. Slow!AmoResult(op, x, y) = Fast!AmoResult(op, x, y)
    BY <1>1, <1>2, <1>3 DEF Slow!AmoResult, Fast!AmoResult, Slow!Illegal, Fast!Illegal
  <1>5. Fast!AmoResult(op, x, y) \in Results
    BY <1>1, <1>2 DEF Fast!AmoResult, Fast!Illegal, Results
  <1> QED BY <1>4, <1>5

\* Opcode 0x2F: the register and the word in memory.
LEMMA AmoAgrees ==
    ASSUME NEW op, NEW is32 \in BOOLEAN, NEW x \in Word, NEW y \in Word
    PROVE  /\ Slow!Amo(op, is32, x, y) = Fast!Amo(op, is32, x, y)
           /\ Fast!Amo(op, is32, x, y).rd # Fast!Illegal =>
                /\ Fast!Amo(op, is32, x, y).rd \in Word
                /\ Fast!Amo(op, is32, x, y).cell \in Word
  <1> DEFINE h == XLEN \div 2 - 1
             u == x % HalfSize
             su == Fast!signExtend64(u, h)
             sy == Fast!mask32Signed64(y)
             v == IF is32 THEN su ELSE x
             w == IF is32 THEN sy ELSE y
             new == Fast!AmoResult(op, v, w)
             k == Fast!not64(Fast!u32Mask)
  <1>1. Slow!and64(x, Slow!u32Mask) = u /\ Fast!and64(x, Fast!u32Mask) = u /\ u \in Word
    BY LowerHalf
  <1>2. Slow!mask32Signed64(y) = sy /\ sy \in Word
    BY Halved
  <1>3. Slow!Half - 1 = h /\ Fast!Half - 1 = h /\ h \in 0..(XLEN - 1)
    BY Widths DEF Slow!Half, Fast!Half
  <1> HIDE DEF u, h
  <1>4. Slow!signExtend64(u, h) = su /\ su \in Word
    BY <1>1, <1>3, Spreads
  <1>5. v \in Word /\ w \in Word
    BY <1>2, <1>4
  <1>6. Fast!signExtend64(u, h) = su /\ Fast!mask32Signed64(y) = sy
    OBVIOUS
  <1> HIDE DEF su, sy
  <1>a. v = (IF is32 THEN su ELSE x) /\ w = (IF is32 THEN sy ELSE y)
    OBVIOUS
  <1> HIDE DEF v, w
  <1>7. Slow!AmoResult(op, v, w) = new /\ new \in Results /\ Fast!AmoResult(op, v, w) = new
    BY <1>5, AmoResultAgrees
  <1>8. Slow!not64(Slow!u32Mask) = k /\ k \in Word /\ Fast!not64(Fast!u32Mask) = k
    <2>1. Slow!u32Mask = Fast!u32Mask /\ Fast!u32Mask \in Word
      BY Constants, ConstantWords
    <2> QED BY <2>1, Complement
  <1> HIDE DEF new, k
  <1>9. Slow!Illegal = -1 /\ Fast!Illegal = -1
    BY DEF Slow!Illegal, Fast!Illegal
  <1>10. CASE new = -1
    <2>1. Slow!Amo(op, is32, x, y) = [rd |-> -1, cell |-> -1]
      BY <1>1, <1>2, <1>3, <1>4, <1>7, <1>9, <1>10, <1>a DEF Slow!Amo
    <2>2. Fast!Amo(op, is32, x, y) = [rd |-> -1, cell |-> -1]
      BY <1>1, <1>3, <1>6, <1>7, <1>9, <1>10, <1>a DEF Fast!Amo
    <2> QED BY <1>9, <2>1, <2>2
  <1>11. CASE new # -1
    <2> DEFINE c == Fast!and64(x, k)
               l == Fast!and64(new, Fast!u32Mask)
               o == Fast!or64(c, l)
    <2>1. new \in Word
      BY <1>7, <1>11 DEF Results
    <2>2. Slow!and64(x, k) = c /\ c \in Word /\ Fast!and64(x, k) = c
      BY <1>8, BitwiseOps
    <2>3. Slow!and64(new, Slow!u32Mask) = l /\ l \in Word /\ Fast!and64(new, Fast!u32Mask) = l
      BY <2>1, LowerHalf
    <2> HIDE DEF c, l
    <2>4. Slow!or64(c, l) = o /\ o \in Word /\ Fast!or64(c, l) = o
      BY <2>2, <2>3, BitwiseOps
    <2> HIDE DEF o
    <2>5. Slow!Amo(op, is32, x, y) = [rd |-> v, cell |-> IF is32 THEN o ELSE new]
      BY <1>1, <1>2, <1>3, <1>4, <1>7, <1>8, <1>9, <1>11, <1>a, <2>2, <2>3, <2>4 DEF Slow!Amo
    <2>6. Fast!Amo(op, is32, x, y) = [rd |-> v, cell |-> IF is32 THEN o ELSE new]
      BY <1>1, <1>3, <1>6, <1>7, <1>8, <1>9, <1>11, <1>a, <2>2, <2>3, <2>4 DEF Fast!Amo
    <2> QED BY <1>5, <2>1, <2>4, <2>5, <2>6
  <1> QED BY <1>10, <1>11

-----------------------------------------------------------------------------
(* The two machines.                                                       *)

\* Both registers hold words.
Registers == a \in Word /\ b \in Word

\* The results of the instructions on words.
LEMMA ResultsAgree ==
    ASSUME Registers, NEW i \in Instr
    PROVE  SlowResult(i) = FastResult(i) /\ (i.opcode # 99 => FastResult(i) \in Results)
  <1>0. a \in Word /\ b \in Word
    BY DEF Registers
  <1>1. CASE i \in [opcode : {19, 27}, funct3 : Funct3, top : Top, imm : Word]
    <2>1. i.imm \in Word /\ i.opcode \in {19, 27}
      BY <1>1
    <2>2. CASE i.opcode = 19
      <3>1. /\ FastResult(i) = Fast!OpImm(i.funct3, i.top, a, i.imm)
            /\ SlowResult(i) = Slow!OpImm(i.funct3, i.top, a, i.imm)
        BY <2>2 DEF FastResult, SlowResult, SlowImm
      <3> QED BY <1>0, <2>1, <3>1, OpImmAgrees
    <2>3. CASE i.opcode = 27
      <3>1. /\ FastResult(i) = Fast!OpImm32(i.funct3, i.top, a, i.imm)
            /\ SlowResult(i) = Slow!OpImm32(i.funct3, i.top, a, i.imm)
        BY <2>3 DEF FastResult, SlowResult, SlowImm
      <3> QED BY <1>0, <2>1, <3>1, OpImm32Agrees
    <2> QED BY <2>1, <2>2, <2>3
  <1>2. CASE i \in [opcode : {51, 59}, funct3 : Funct3, funct7 : Funct7]
    <2>1. i.funct3 \in Funct3 /\ i.opcode \in {51, 59}
      BY <1>2
    <2>2. CASE i.opcode = 51
      <3>1. /\ FastResult(i) = IF i.funct7 = 1 THEN Fast!MulDiv(i.funct3, a, b)
                               ELSE Fast!OpReg(i.funct3, i.funct7, a, b)
            /\ SlowResult(i) = IF i.funct7 = 1 THEN Slow!MulDiv(i.funct3, a, b)
                               ELSE Slow!OpReg(i.funct3, i.funct7, a, b)
        BY <2>2 DEF FastResult, SlowResult, SlowReg
      <3> QED BY <1>0, <2>1, <3>1, MulDivAgrees, OpRegAgrees
    <2>3. CASE i.opcode = 59
      <3>1. /\ FastResult(i) = IF i.funct7 = 1 THEN Fast!MulDiv32(i.funct3, a, b)
                               ELSE Fast!OpReg32(i.funct3, i.funct7, a, b)
            /\ SlowResult(i) = IF i.funct7 = 1 THEN Slow!MulDiv32(i.funct3, a, b)
                               ELSE Slow!OpReg32(i.funct3, i.funct7, a, b)
        BY <2>3 DEF FastResult, SlowResult, SlowReg32
      <3> QED BY <1>0, <2>1, <3>1, MulDiv32Agrees, OpReg32Agrees
    <2> QED BY <2>1, <2>2, <2>3
  <1>3. CASE i \in [opcode : {99}, funct3 : Funct3]
    <2>1. i.opcode = 99
      BY <1>3
    <2>2. FastResult(i) = Fast!Branch(i.funct3, a, b) /\ SlowResult(i) = Slow!Branch(i.funct3, a, b)
      BY <2>1 DEF FastResult, SlowResult, SlowBranch
    <2> QED BY <1>0, <2>1, <2>2, BranchAgrees
  <1> QED BY <1>1, <1>2, <1>3 DEF Instr

\* Every instruction leaves words in the registers and in memory.
LEMMA RegistersInductive ==
    ASSUME Registers, [Next]_vars
    PROVE  Registers'
  <1>1. ASSUME NEW i \in Instr, Execute(i) PROVE Registers'
    <2>1. i.opcode # 99 /\ FastResult(i) # Fast!Illegal
      BY <1>1 DEF Execute
    <2>2. FastResult(i) \in Word
      BY <2>1, ResultsAgree DEF Fast!Illegal, Results
    <2> QED BY <1>1, <2>2 DEF Execute, Registers
  <1>2. ASSUME NEW op \in AmoOp, NEW is32 \in BOOLEAN, Atomic(op, is32) PROVE Registers'
    <2> DEFINE r == Fast!Amo(op, is32, a, b)
    <2>1. r.rd # Fast!Illegal /\ a' = r.cell /\ b' = r.rd
      BY <1>2 DEF Atomic
    <2>2. a \in Word /\ b \in Word
      BY DEF Registers
    <2>3. r.rd \in Word /\ r.cell \in Word
      BY <2>1, <2>2, AmoAgrees
    <2> QED BY <2>1, <2>3 DEF Registers
  <1>3. CASE UNCHANGED vars
    BY <1>3 DEF vars, Registers
  <1> QED BY <1>1, <1>2, <1>3 DEF Next

\* The registers always hold words: no instruction of rvgo/fast/vm.go gives a
\* register, or a word in memory, a value outside the range of a uint64.
THEOREM RegistersAlwaysWords == Spec => []Registers
  <1>1. Init => Registers
    BY ConstantWords DEF Init, Registers
  <1>2. Registers /\ [Next]_vars => Registers'
    BY RegistersInductive
  <1> QED BY <1>1, <1>2, PTL DEF Spec

\* Native arithmetic (rvgo/fast/yul64.go) and arithmetic made of EVM opcodes
\* (rvgo/slow/yul64.go) give every instruction the same result, and revert on the
\* same instructions, for every width and whatever words the program has computed.
THEOREM ArithmeticAlwaysAgrees == Spec => []VMsAgree
  <1>1. Registers => VMsAgree
    <2> SUFFICES ASSUME Registers PROVE VMsAgree
      OBVIOUS
    <2>1. a \in Word /\ b \in Word
      BY DEF Registers
    <2>2. \A i \in Instr : SlowResult(i) = FastResult(i)
      BY ResultsAgree
    <2>3. ASSUME NEW op \in AmoOp, NEW is32 \in BOOLEAN
          PROVE  SlowAmo(op, is32) = Fast!Amo(op, is32, a, b)
      BY <2>1, AmoAgrees DEF SlowAmo
    <2> QED BY <2>2, <2>3 DEF VMsAgree
  <1> QED BY <1>1, RegistersAlwaysWords, PTL

-----------------------------------------------------------------------------
(* Congruences.                                                            *)

\* A multiple of the divisor does not change the remainder.
LEMMA AddMultiple ==
    ASSUME NEW i \in Int, NEW k \in Int, NEW m \in Nat \ {0}
    PROVE  (i + m * k) % m = i % m /\ (i + m * k) \div m = i \div m + k
  <1> DEFINE q == i \div m
             r == i % m
             y == m * q
             z == m * k
             t == q + k
             j == i + z
  <1>1. q \in Int /\ r \in 0..(m - 1) /\ i = y + r
    OBVIOUS
  <1> HIDE DEF q, r
  <1>2. y \in Int /\ z \in Int /\ t \in Int /\ m * t = y + z
    BY <1>1
  <1> HIDE DEF y, z
  <1>3. j = (y + z) + r /\ j \in Int
    BY <1>1, <1>2
  <1> HIDE DEF t, j
  <1>4. j \in Int /\ m \in Nat \ {0} /\ t \in Int /\ r \in 0..(m - 1) /\ j = m * t + r
    BY <1>1, <1>2, <1>3
  <1>5. j \div m = t /\ j % m = r
    BY ONLY <1>4, QuotientUnique
  <1> QED BY <1>5 DEF j, t, r, q, z

\* Numbers of the same remainder differ by a multiple.
LEMMA SameRemainder ==
    ASSUME NEW i \in Int, NEW j \in Int, NEW m \in Nat \ {0}, i % m = j % m
    PROVE  \E k \in Int : i = j + m * k
  <1> DEFINE q == i \div m
             t == j \div m
             r == i % m
             k == q - t
  <1>1. q \in Int /\ t \in Int /\ r \in Int /\ i = m * q + r /\ j = m * t + r
    OBVIOUS
  <1> HIDE DEF q, t, r
  <1>2. k \in Int /\ m * k = m * q - m * t /\ m * q \in Int /\ m * t \in Int
    BY <1>1
  <1> DEFINE u == m * q
             v == m * t
             w == m * k
  <1>3. u \in Int /\ v \in Int /\ w = u - v /\ i = u + r /\ j = v + r
    BY <1>1, <1>2
  <1> HIDE DEF u, v, w, k
  <1>4. i = j + w
    BY <1>1, <1>3
  <1> QED BY <1>2, <1>4 DEF w

\* Numbers of the same remainder.
SameCut(i, j, m) == i % m = j % m

\* Sums and differences of such numbers.
LEMMA CongruentSums ==
    ASSUME NEW i \in Int, NEW j \in Int, NEW e \in Int, NEW f \in Int, NEW m \in Nat \ {0},
           SameCut(i, e, m), SameCut(j, f, m)
    PROVE  SameCut(i + j, e + f, m) /\ SameCut(i - j, e - f, m)
  <1>1. PICK k \in Int : i = e + m * k
    BY SameRemainder DEF SameCut
  <1>2. PICK l \in Int : j = f + m * l
    BY SameRemainder DEF SameCut
  <1> DEFINE y == m * k
             z == m * l
  <1>3. y \in Int /\ z \in Int /\ i = e + y /\ j = f + z
    BY <1>1, <1>2
  <1>4. (i + j) % m = (e + f) % m
    <2> DEFINE c == k + l
               u == e + f
    <2>1. c \in Int /\ m * c = y + z /\ u \in Int
      OBVIOUS
    <2> HIDE DEF y, z
    <2>2. i + j = u + m * c
      <3> DEFINE w == m * c
      <3>1. w = y + z
        BY <2>1
      <3> HIDE DEF w
      <3>2. i + j = u + w
        BY <1>3, <3>1
      <3> QED BY <3>2 DEF w
    <2> HIDE DEF c, u
    <2>3. (u + m * c) % m = u % m
      BY <2>1, AddMultiple
    <2> QED BY <2>2, <2>3 DEF u
  <1>5. (i - j) % m = (e - f) % m
    <2> DEFINE c == k - l
               u == e - f
    <2>1. c \in Int /\ m * c = y - z /\ u \in Int
      OBVIOUS
    <2> HIDE DEF y, z
    <2>2. i - j = u + m * c
      <3> DEFINE w == m * c
      <3>1. w = y - z
        BY <2>1
      <3> HIDE DEF w
      <3>2. i - j = u + w
        BY <1>3, <3>1
      <3> QED BY <3>2 DEF w
    <2> HIDE DEF c, u
    <2>3. (u + m * c) % m = u % m
      BY <2>1, AddMultiple
    <2> QED BY <2>2, <2>3 DEF u
  <1> QED BY <1>4, <1>5 DEF SameCut

\* Products of numbers of the same remainders.
IsProduct(P, i, j) == P = i * j

\* Whichever number of each remainder is multiplied.
LEMMA CongruentProduct ==
    ASSUME NEW i \in Int, NEW j \in Int, NEW e \in Int, NEW f \in Int, NEW m \in Nat \ {0},
           SameCut(i, e, m), SameCut(j, f, m),
           NEW P, NEW Q, IsProduct(P, i, j), IsProduct(Q, e, f)
    PROVE  SameCut(P, Q, m)
  <1>1. PICK k \in Int : i = e + m * k
    BY SameRemainder DEF SameCut
  <1>2. PICK l \in Int : j = f + m * l
    BY SameRemainder DEF SameCut
  <1> DEFINE c == e * l + k * j
             A == m * (e * l)
             B == m * (k * j)
             C == m * c
             R == e * j
  <1>3. c \in Int /\ A \in Int /\ B \in Int /\ C = A + B /\ Q \in Int
    BY DEF IsProduct
  <1>4. P = R + B
    BY <1>1 DEF IsProduct
  <1>5. R = Q + A
    BY <1>2 DEF IsProduct
  <1>6. P = Q + C
    <2> HIDE DEF A, B, C, R
    <2> QED BY <1>3, <1>4, <1>5
  <1> HIDE DEF c
  <1>7. (Q + m * c) % m = Q % m
    BY <1>3, AddMultiple
  <1> QED BY <1>6, <1>7 DEF SameCut

-----------------------------------------------------------------------------
(* The manual's readings of a register.                                    *)

\* Two's complement in half a register.
Signed32(x) == IF 2 * (x % HalfSize) >= HalfSize THEN (x % HalfSize) - HalfSize ELSE x % HalfSize

\* The manual's terms in terms of the sizes.
LEMMA ManualTerms ==
    ASSUME NEW x \in Word
    PROVE  /\ ISA!S(x) = Signed64(x)
           /\ \A i : /\ ISA!Wrap(i) = i % RegSize /\ ISA!S32(i) = Signed32(i)
                     /\ ISA!U32(i) = i % HalfSize /\ ISA!Sext(i) = Signed32(i) % RegSize
  <1>1. ISA!S(x) = IF 2 * (x % RegSize) >= RegSize THEN (x % RegSize) - RegSize ELSE x % RegSize
    BY DEF ISA!S, ISA!TwosComplement, ISA!Modulus, RegSize
  <1>2. x \in Int /\ x \in Nat /\ x % RegSize = x
    BY WordNat, CutWord
  <1>3. RegSize \in Nat \ {0} /\ SignBit \in Nat \ {0} /\ RegSize = 2 * SignBit
    BY Sizes
  <1>4. ISA!S(x) = Signed64(x)
    BY <1>1, <1>2, <1>3 DEF Signed64
  <1>5. ASSUME NEW i
        PROVE  /\ ISA!Wrap(i) = i % RegSize /\ ISA!S32(i) = Signed32(i)
               /\ ISA!U32(i) = i % HalfSize
    BY DEF ISA!Wrap, ISA!S32, ISA!U32, ISA!TwosComplement, ISA!Modulus, ISA!HalfModulus,
           Signed32, RegSize, HalfSize
  <1>6. ASSUME NEW i PROVE ISA!Sext(i) = Signed32(i) % RegSize
    BY <1>5 DEF ISA!Sext
  <1> QED BY <1>4, <1>5, <1>6

\* Rounding towards zero.
LEMMA ManualRounding ==
    ASSUME NEW x, NEW y
    PROVE  ISA!TowardsZero(x, y) = Truncated(x, y)
  BY DEF ISA!TowardsZero, Truncated

\* Natural numbers are divided as such.
LEMMA TruncatedNat ==
    ASSUME NEW x \in Nat, NEW y \in Nat \ {0}
    PROVE  Truncated(x, y) = x \div y /\ x - y * Truncated(x, y) = x % y
  <1>1. Truncated(x, y) = x \div y
    BY DEF Truncated
  <1>2. x = y * (x \div y) + (x % y) /\ x \div y \in Int /\ x % y \in Int
    BY QuotientParts
  <1> DEFINE q == x \div y
             r == x % y
             z == y * q
  <1>3. z \in Int /\ r \in Int /\ x = z + r
    BY <1>2
  <1> HIDE DEF z, r
  <1>4. x - z = r
    BY <1>3
  <1> QED BY <1>1, <1>4 DEF z, r

\* A register is what its signed reading wraps to.
LEMMA WrapSigned ==
    ASSUME NEW x \in Word
    PROVE  Signed64(x) % RegSize = x
  <1>1. x \in Int /\ x % RegSize = x /\ RegSize \in Nat \ {0} /\ -1 \in Int
    BY WordNat, CutWord, Sizes
  <1>2. (x + RegSize * (-1)) % RegSize = x % RegSize
    BY <1>1, AddMultiple
  <1>3. x + RegSize * (-1) = x - RegSize
    BY <1>1
  <1> QED BY <1>1, <1>2, <1>3 DEF Signed64

\* A number in the signed range is what it wraps to, read with its sign.
LEMMA SignedWrap ==
    ASSUME NEW i \in Int, -SignBit <= i, i < SignBit
    PROVE  Signed64(i % RegSize) = i
  <1>1. RegSize \in Nat \ {0} /\ SignBit \in Nat \ {0} /\ RegSize = 2 * SignBit
    BY Sizes
  <1>2. CASE i >= 0
    <2>1. i % RegSize = i
      BY <1>1, <1>2, SmallCut
    <2> QED BY <1>1, <2>1 DEF Signed64
  <1>3. CASE i < 0
    <2> DEFINE j == i + RegSize
    <2>1. j \in Nat /\ j < RegSize /\ j >= SignBit /\ j - RegSize = i
      BY <1>1, <1>3
    <2> HIDE DEF j
    <2>2. j % RegSize = j
      BY <1>1, <2>1, SmallCut
    <2>3. 1 \in Int /\ i + RegSize * 1 = j
      BY <1>1 DEF j
    <2>4. (i + RegSize * 1) % RegSize = i % RegSize
      BY <1>1, <2>3, AddMultiple, Zenon
    <2>5. i % RegSize = j
      BY <2>2, <2>3, <2>4
    <2> QED BY <2>1, <2>5 DEF Signed64
  <1> QED BY <1>2, <1>3

\* The range and the remainder of a signed lower half.
LEMMA Signed32Range ==
    ASSUME NEW i \in Int
    PROVE  /\ Signed32(i) \in Int /\ 2 * Signed32(i) >= -HalfSize /\ 2 * Signed32(i) < HalfSize
           /\ -SignBit <= Signed32(i) /\ Signed32(i) < SignBit
           /\ Signed32(i) % HalfSize = i % HalfSize
           /\ (Signed32(i) = 0) <=> (i % HalfSize = 0)
  <1> DEFINE r == i % HalfSize
  <1>1. /\ HalfSize \in Nat \ {0} /\ SignBit \in Nat \ {0} /\ RegSize = 2 * SignBit
        /\ 2 * HalfSize <= RegSize
    BY Sizes
  <1>2. r \in 0..(HalfSize - 1) /\ r \in Nat /\ r < HalfSize
    BY <1>1
  <1>3. Signed32(i) = IF 2 * r >= HalfSize THEN r - HalfSize ELSE r
    BY DEF Signed32
  <1> HIDE DEF r
  <1>4. /\ Signed32(i) \in Int /\ 2 * Signed32(i) >= -HalfSize /\ 2 * Signed32(i) < HalfSize
        /\ -SignBit <= Signed32(i) /\ Signed32(i) < SignBit
        /\ (Signed32(i) = 0) <=> (r = 0)
    BY <1>1, <1>2, <1>3
  <1>5. Signed32(i) % HalfSize = r
    <2>1. r % HalfSize = r
      BY <1>1, <1>2, SmallCut
    <2>2. (r + HalfSize * (-1)) % HalfSize = r % HalfSize
      <3>1. r \in Int /\ -1 \in Int
        BY <1>2
      <3> QED BY <1>1, <3>1, AddMultiple
    <2>3. r + HalfSize * (-1) = r - HalfSize
      BY <1>1, <1>2
    <2> QED BY <1>3, <2>1, <2>2, <2>3
  <1> QED BY <1>4, <1>5 DEF r

\* Only the remainder counts.
LEMMA Signed32Same ==
    ASSUME NEW i \in Int, NEW j \in Int, i % HalfSize = j % HalfSize
    PROVE  Signed32(i) = Signed32(j)
  BY DEF Signed32

\* A number in the signed range of the lower half is its own reading.
LEMMA Signed32Small ==
    ASSUME NEW i \in Int, 2 * i >= -HalfSize, 2 * i < HalfSize
    PROVE  Signed32(i) = i
  <1>1. HalfSize \in Nat \ {0}
    BY Sizes
  <1>2. CASE i >= 0
    <2>1. i % HalfSize = i
      <3>1. i \in Nat /\ i < HalfSize
        BY <1>1, <1>2
      <3> QED BY <1>1, <3>1, SmallCut
    <2> QED BY <1>1, <1>2, <2>1 DEF Signed32
  <1>3. CASE i < 0
    <2> DEFINE j == i + HalfSize
    <2>1. j \in Nat /\ j < HalfSize /\ 2 * j >= HalfSize /\ j - HalfSize = i
      BY <1>1, <1>3
    <2> HIDE DEF j
    <2>2. j % HalfSize = j
      BY <1>1, <2>1, SmallCut
    <2>3. 1 \in Int /\ i + HalfSize * 1 = j
      BY <1>1 DEF j
    <2>4. (i + HalfSize * 1) % HalfSize = i % HalfSize
      BY <1>1, <2>3, AddMultiple, Zenon
    <2>5. i % HalfSize = j
      BY <2>2, <2>3, <2>4
    <2> QED BY <2>1, <2>5 DEF Signed32
  <1> QED BY <1>2, <1>3

-----------------------------------------------------------------------------
(* Bits of lower parts.                                                    *)

\* A bit in terms of a remainder.
LEMMA BitOf ==
    ASSUME NEW x \in Nat, NEW j \in 0..(WIDE - 1)
    PROVE  j \in Ones(x) <=> x % 2 ^ (j + 1) >= 2 ^ j
  <1> DEFINE p == 2 ^ j
             d == 2 * p
             q == x \div d
             r == x % d
  <1>1. p \in Nat \ {0} /\ 2 ^ (j + 1) = d
    <2>1. j \in 0..WIDE
      BY WidthAssumption
    <2> QED BY <2>1, PowerStep
  <1>2. j \in Ones(x) <=> (x \div p) % 2 = 1
    BY DEF Ones
  <1> HIDE DEF p
  <1>3. d \in Nat \ {0} /\ x \in Int
    BY <1>1
  <1>4. q \in Int /\ r \in 0..(d - 1) /\ x = d * q + r
    <2> HIDE DEF d
    <2> QED BY ONLY <1>3, QuotientParts DEF q, r
  <1> HIDE DEF q, r
  <1> DEFINE y == p * q
  <1>5. y \in Int /\ d * q = 2 * y /\ p * (2 * q) = 2 * y /\ p * (2 * q + 1) = 2 * y + p
    BY <1>1, <1>4
  <1>6. CASE r < p
    <2> DEFINE t == 2 * q
               z == p * t
    <2>1. z = 2 * y /\ t \in Int /\ t % 2 = 0 /\ z \in Int
      BY <1>4, <1>5
    <2> HIDE DEF t, y
    <2>2. x = z + r
      BY <1>4, <1>5, <2>1
    <2>3. x \in Int /\ p \in Nat \ {0} /\ t \in Int /\ r \in 0..(p - 1) /\ x = p * t + r
      BY <1>1, <1>3, <1>4, <1>6, <2>1, <2>2
    <2>4. x \div p = t
      BY ONLY <2>3, QuotientUnique
    <2>5. ~(r >= p)
      BY <1>1, <1>4, <1>6
    <2> QED BY <1>1, <1>2, <2>1, <2>4, <2>5 DEF r, p
  <1>7. CASE r >= p
    <2> DEFINE t == 2 * q + 1
               z == p * t
               o == r - p
    <2>1. z = 2 * y + p /\ t \in Int /\ t % 2 = 1 /\ z \in Int /\ o \in 0..(p - 1)
      BY <1>1, <1>4, <1>5, <1>7
    <2> HIDE DEF t, y
    <2>2. x = z + o
      BY <1>1, <1>4, <1>5, <2>1
    <2> HIDE DEF o
    <2>3. x \in Int /\ p \in Nat \ {0} /\ t \in Int /\ o \in 0..(p - 1) /\ x = p * t + o
      BY <1>1, <1>3, <2>1, <2>2
    <2>4. x \div p = t
      BY ONLY <2>3, QuotientUnique
    <2> QED BY <1>1, <1>2, <1>7, <2>1, <2>4 DEF r, p
  <1> QED BY <1>1, <1>4, <1>6, <1>7

\* Numbers that agree up to bit k have the same ones there.
LEMMA LowBits ==
    ASSUME NEW x \in Nat, NEW y \in Nat, NEW k \in 0..WIDE, x % 2 ^ k = y % 2 ^ k
    PROVE  \A j \in 0..(k - 1) : j \in Ones(x) <=> j \in Ones(y)
  <1> TAKE j \in 0..(k - 1)
  <1>1. j \in 0..(WIDE - 1) /\ j + 1 \in 0..WIDE /\ k \in (j + 1)..WIDE
    BY WidthAssumption
  <1>2. (x % 2 ^ k) % 2 ^ (j + 1) = x % 2 ^ (j + 1) /\ (y % 2 ^ k) % 2 ^ (j + 1) = y % 2 ^ (j + 1)
    <2>1. x \in Int /\ y \in Int
      OBVIOUS
    <2> QED BY <1>1, <2>1, RemainderTwice
  <1>3. x % 2 ^ (j + 1) = y % 2 ^ (j + 1)
    BY <1>2
  <1> QED BY <1>1, <1>3, BitOf

\* Lower parts of bitwise operations.
LEMMA LowOps ==
    ASSUME NEW x \in Nat, NEW y \in Nat, NEW v \in Nat, NEW w \in Nat, NEW k \in 0..WIDE,
           x % 2 ^ k = v % 2 ^ k, y % 2 ^ k = w % 2 ^ k
    PROVE  /\ and(x, y) % 2 ^ k = and(v, w) % 2 ^ k
           /\ or(x, y) % 2 ^ k = or(v, w) % 2 ^ k
           /\ xor(x, y) % 2 ^ k = xor(v, w) % 2 ^ k
  <1>1. /\ \A j \in 0..(k - 1) : j \in Ones(x) <=> j \in Ones(v)
        /\ \A j \in 0..(k - 1) : j \in Ones(y) <=> j \in Ones(w)
    BY LowBits
  <1>2. ASSUME NEW A, NEW B, \A j \in 0..(k - 1) : j \in A <=> j \in B
        PROVE  OfOnes(A) % 2 ^ k = OfOnes(B) % 2 ^ k
    <2>1. Low(A)[k] = Low(B)[k]
      BY <1>2, Parts, SumSame
    <2>2. Low(A)[WIDE] % 2 ^ k = Low(A)[k] /\ Low(B)[WIDE] % 2 ^ k = Low(B)[k]
      BY Parts, SumLow
    <2> QED BY <2>1, <2>2, Parts
  <1> DEFINE A1 == Ones(x) \cap Ones(y)
             B1 == Ones(v) \cap Ones(w)
             A2 == Ones(x) \union Ones(y)
             B2 == Ones(v) \union Ones(w)
             A3 == A2 \ A1
             B3 == B2 \ B1
  <1>3. /\ \A j \in 0..(k - 1) : j \in A1 <=> j \in B1
        /\ \A j \in 0..(k - 1) : j \in A2 <=> j \in B2
        /\ \A j \in 0..(k - 1) : j \in A3 <=> j \in B3
    BY <1>1
  <1>4. /\ and(x, y) = OfOnes(A1) /\ and(v, w) = OfOnes(B1)
        /\ or(x, y) = OfOnes(A2) /\ or(v, w) = OfOnes(B2)
        /\ xor(x, y) = OfOnes(A3) /\ xor(v, w) = OfOnes(B3)
    BY DEF and, or, xor
  <1> HIDE DEF A1, A2, A3, B1, B2, B3
  <1>5. OfOnes(A1) % 2 ^ k = OfOnes(B1) % 2 ^ k
    BY <1>2, <1>3
  <1>6. OfOnes(A2) % 2 ^ k = OfOnes(B2) % 2 ^ k
    BY <1>2, <1>3
  <1>7. OfOnes(A3) % 2 ^ k = OfOnes(B3) % 2 ^ k
    BY <1>2, <1>3
  <1> QED BY <1>4, <1>5, <1>6, <1>7

\* Words of the same ones from k on have the same upper parts.
LEMMA SumAbove ==
    ASSUME NEW f, NEW g, NEW A, NEW B, Sums(f, WIDE, A), Sums(g, WIDE, B), NEW k \in 0..WIDE,
           \A j \in k..(WIDE - 1) : j \in A <=> j \in B
    PROVE  f[WIDE] - f[k] = g[WIDE] - g[k]
  <1> DEFINE T == {j \in Nat : j <= WIDE => f[j] - f[k] = g[j] - g[k]}
  <1>0. WIDE \in Nat /\ k \in Nat /\ f[k] \in Nat /\ g[k] \in Nat
    BY WidthAssumption DEF Sums
  <1>1. k \in T
    BY <1>0
  <1>2. ASSUME NEW j \in k..(WIDE - 1), j \in T PROVE j + 1 \in T
    <2>1. j \in 0..(WIDE - 1) /\ j \in Nat /\ j + 1 \in Nat /\ j <= WIDE
      BY <1>0
    <2> DEFINE u == Weight(A, j)
               v == Weight(B, j)
    <2>2. f[j] \in Nat /\ f[j + 1] = f[j] + u /\ u \in {0, 2 ^ j} /\ 2 ^ j \in Nat
      BY <2>1, SumNext
    <2>3. g[j] \in Nat /\ g[j + 1] = g[j] + v
      BY <2>1, SumNext
    <2>4. u = v
      BY DEF Weight
    <2>5. f[j] - f[k] = g[j] - g[k]
      BY <1>2, <2>1
    <2> HIDE DEF u, v
    <2>6. u \in Nat
      BY <2>2
    <2>7. f[j + 1] - f[k] = g[j + 1] - g[k]
      BY <1>0, <2>2, <2>3, <2>4, <2>5, <2>6
    <2> QED BY <2>1, <2>7
  <1> HIDE DEF T
  <1>3. k..WIDE \subseteq T
    BY <1>0, <1>1, <1>2, UpTo
  <1>4. WIDE \in k..WIDE /\ WIDE <= WIDE
    BY <1>0
  <1> QED BY <1>3, <1>4 DEF T

\* The ones of 2 ^ n - 2 ^ k are those from k up to n.
LEMMA OnesOfRow ==
    ASSUME NEW n \in 0..WIDE, NEW k \in 0..n
    PROVE  Ones(2 ^ n - 2 ^ k) = k..(n - 1)
  <1> DEFINE A == k..(n - 1)
             f == Low(A)
  <1>0. /\ 0 \in 0..WIDE /\ k \in 0..WIDE /\ n \in k..WIDE /\ WIDE \in n..WIDE
    BY WidthAssumption
  <1>1. /\ \A j \in 0..(k - 1) : j \notin A
        /\ \A j \in k..(n - 1) : j \in A
        /\ \A j \in n..(WIDE - 1) : j \notin A
        /\ A \in SUBSET (0..(WIDE - 1))
    BY WidthAssumption
  <1> HIDE DEF A
  <1>2. Sums(f, WIDE, A) /\ OfOnes(A) = f[WIDE] /\ f[0] = 0
    BY Parts
  <1> HIDE DEF f
  <1>3. f[k] = f[0]
    BY <1>0, <1>1, <1>2, SumZeroes
  <1>4. f[n] = f[k] + 2 ^ n - 2 ^ k
    BY <1>0, <1>1, <1>2, SumRow
  <1>5. f[WIDE] = f[n]
    BY <1>0, <1>1, <1>2, SumZeroes
  <1>6. OfOnes(A) = 2 ^ n - 2 ^ k
    <2> DEFINE m == 2 ^ n
               p == 2 ^ k
    <2>1. m \in Nat /\ p \in Nat
      BY <1>0, PowerStep
    <2>2. OfOnes(A) = 0 + m - p
      BY <1>2, <1>3, <1>4, <1>5
    <2> HIDE DEF m, p
    <2>3. OfOnes(A) = m - p
      BY <2>1, <2>2
    <2> QED BY <2>3 DEF m, p
  <1>7. Ones(OfOnes(A)) = A
    BY <1>1, OnesOf
  <1> QED BY <1>6, <1>7 DEF A

\* Or-ing a word of n bits with ones from k on.
LEMMA OrRow ==
    ASSUME NEW n \in 0..WIDE, NEW k \in 0..n, NEW x \in 0..(2 ^ n - 1)
    PROVE  or(x, 2 ^ n - 2 ^ k) = (x % 2 ^ k) + 2 ^ n - 2 ^ k
  <1> DEFINE A == Ones(x)
             C == A \union (k..(n - 1))
  <1>0. /\ k \in 0..WIDE /\ n \in k..WIDE /\ WIDE \in n..WIDE /\ 2 ^ n \in Nat /\ x \in Nat
    <2>1. k \in 0..WIDE /\ n \in k..WIDE /\ WIDE \in n..WIDE
      BY WidthAssumption
    <2> QED BY <2>1, PowerStep
  <1>1. A \subseteq 0..(n - 1)
    BY OnesBelow
  <1>2. or(x, 2 ^ n - 2 ^ k) = OfOnes(C)
    BY OnesOfRow DEF or
  <1>3. /\ \A j \in 0..(k - 1) : j \in C <=> j \in A
        /\ \A j \in k..(n - 1) : j \in C
        /\ \A j \in n..(WIDE - 1) : j \notin C
    BY <1>0, <1>1, WidthAssumption
  <1>4. Sums(Low(C), WIDE, C) /\ OfOnes(C) = Low(C)[WIDE] /\ Sums(Low(A), WIDE, A)
    <2> HIDE DEF A, C
    <2> QED BY Parts
  <1>5. Low(A)[k] = x % 2 ^ k
    BY <1>0, <1>4, SumOfOnes
  <1> HIDE DEF A, C
  <1>6. Low(C)[k] = Low(A)[k]
    BY <1>0, <1>3, <1>4, SumSame
  <1>7. Low(C)[n] = Low(C)[k] + 2 ^ n - 2 ^ k
    BY <1>0, <1>3, <1>4, SumRow
  <1>8. Low(C)[WIDE] = Low(C)[n]
    BY <1>0, <1>3, <1>4, SumZeroes
  <1> QED BY <1>2, <1>4, <1>5, <1>6, <1>7, <1>8

\* Writing the lower k bits of a word of n bits.
LEMMA Merge ==
    ASSUME NEW n \in 0..WIDE, NEW k \in 0..n, NEW x \in 0..(2 ^ n - 1), NEW l \in 0..(2 ^ k - 1)
    PROVE  or(and(x, 2 ^ n - 2 ^ k), l) = x - (x % 2 ^ k) + l
  <1> DEFINE A == Ones(x)
             B == A \cap (k..(n - 1))
             L == Ones(l)
             C == B \union L
             w == OfOnes(B)
  <1>0. /\ k \in 0..WIDE /\ 2 ^ n \in Nat /\ x \in Nat /\ 2 ^ k \in Nat \ {0} /\ l \in Nat
        /\ l < 2 ^ k /\ WIDE \in 0..WIDE
    <2>1. k \in 0..WIDE /\ WIDE \in 0..WIDE
      BY WidthAssumption
    <2> QED BY <2>1, PowerStep
  <1>1. A \subseteq 0..(n - 1) /\ L \subseteq 0..(k - 1) /\ B \in SUBSET (0..(WIDE - 1))
    <2>1. A \subseteq 0..(n - 1)
      BY OnesBelow
    <2>2. L \subseteq 0..(k - 1)
      BY <1>0, OnesBelow
    <2>3. B \in SUBSET (0..(WIDE - 1))
      BY WidthAssumption
    <2> QED BY <2>1, <2>2, <2>3
  <1>2. and(x, 2 ^ n - 2 ^ k) = w
    BY OnesOfRow DEF and
  <1>3. Ones(w) = B
    BY <1>1, OnesOf
  <1>4. or(w, l) = OfOnes(C)
    BY <1>3 DEF or
  <1>5. /\ \A j \in 0..(k - 1) : j \in C <=> j \in L
        /\ \A j \in k..(WIDE - 1) : j \in C <=> j \in A
    BY <1>0, <1>1, WidthAssumption
  <1>6. /\ Sums(Low(C), WIDE, C) /\ OfOnes(C) = Low(C)[WIDE] /\ Sums(Low(A), WIDE, A)
        /\ Sums(Low(L), WIDE, L) /\ OfOnes(A) = Low(A)[WIDE]
    <2> HIDE DEF A, C, L
    <2> QED BY Parts
  <1>7. Low(A)[k] = x % 2 ^ k /\ Low(L)[k] = l % 2 ^ k
    BY <1>0, <1>6, SumOfOnes
  <1>8. Low(A)[WIDE] = x
    <2>1. x \in Wide
      <3>1. WIDE \in n..WIDE
        BY WidthAssumption
      <3>2. 2 ^ n <= 2 ^ WIDE /\ 2 ^ WIDE \in Nat
        BY <1>0, <3>1, PowerOrder, PowerStep
      <3> QED BY <1>0, <3>2 DEF Wide
    <2>2. OfOnes(Ones(x)) = x
      BY <2>1, OfOnesOf
    <2> QED BY <1>6, <2>2
  <1> HIDE DEF A, B, C, L
  <1>9. Low(C)[k] = Low(L)[k]
    BY <1>0, <1>5, <1>6, SumSame
  <1>10. Low(C)[WIDE] - Low(C)[k] = Low(A)[WIDE] - Low(A)[k]
    BY <1>0, <1>5, <1>6, SumAbove
  <1>11. l % 2 ^ k = l
    BY <1>0, SmallCut
  <1>12. Low(C)[WIDE] \in Nat /\ x % 2 ^ k \in Int
    BY <1>0, <1>6 DEF Sums
  <1> DEFINE c == Low(C)[WIDE]
             r == x % 2 ^ k
  <1>13. c - l = x - r /\ c \in Int /\ r \in Int
    BY <1>7, <1>8, <1>9, <1>10, <1>11, <1>12
  <1> HIDE DEF c, r
  <1>14. c = x - r + l
    BY <1>0, <1>13
  <1> QED BY <1>2, <1>4, <1>6, <1>14 DEF c, r

\* The register that has given ones is the one the manual means.
LEMMA ManualBits ==
    ASSUME NEW A \in SUBSET (0..(XLEN - 1))
    PROVE  ISA!FromBits(A) = OfOnes(A)
  <1>0. XLEN \in 0..WIDE /\ 2 ^ XLEN <= 2 ^ WIDE /\ 2 ^ XLEN \in Nat /\ 2 ^ WIDE \in Nat
    <2>1. XLEN \in 0..WIDE /\ WIDE \in XLEN..WIDE /\ WIDE \in 0..WIDE
      BY Widths
    <2> QED BY <2>1, PowerStep, PowerOrder
  <1>1. ASSUME NEW w \in Word PROVE ISA!Bits(w) = Ones(w)
    <2>1. Ones(w) \subseteq 0..(XLEN - 1)
      BY <1>0, OnesBelow DEF Word
    <2>2. 0..(XLEN - 1) \subseteq 0..(WIDE - 1)
      BY Widths
    <2> QED BY <2>1, <2>2 DEF ISA!Bits, Ones
  <1>2. OfOnes(A) \in Word /\ Ones(OfOnes(A)) = A
    <2>1. /\ \A j \in XLEN..(WIDE - 1) : j \notin A
          /\ A \in SUBSET (0..(WIDE - 1))
      BY Widths
    <2> QED BY <1>0, <2>1, OfOnesBelow, OnesOf DEF Word
  <1>3. ASSUME NEW w \in Word, ISA!Bits(w) = A PROVE w = OfOnes(A)
    <2>1. w \in Wide
      BY <1>0 DEF Word, Wide
    <2>2. OfOnes(Ones(w)) = w
      BY <2>1, OfOnesOf
    <2> QED BY <1>1, <1>3, <2>2
  <1>4. ISA!FromBits(A) = CHOOSE w \in Word : ISA!Bits(w) = A
    BY DEF ISA!FromBits, ISA!Modulus, Word
  <1>5. ISA!Bits(OfOnes(A)) = A
    BY <1>1, <1>2
  <1> QED BY <1>2, <1>3, <1>4, <1>5

\* Bitwise operations of the manual.
LEMMA ManualBitwise ==
    ASSUME NEW x \in Word, NEW y \in Word
    PROVE  /\ ISA!FromBits(ISA!Bits(x) \intersect ISA!Bits(y)) = and(x, y)
           /\ ISA!FromBits(ISA!Bits(x) \union ISA!Bits(y)) = or(x, y)
           /\ ISA!FromBits((ISA!Bits(x) \union ISA!Bits(y)) \ (ISA!Bits(x) \intersect ISA!Bits(y)))
                = xor(x, y)
  <1>0. XLEN \in 0..WIDE
    BY Widths
  <1>1. ASSUME NEW w \in Word PROVE ISA!Bits(w) = Ones(w) /\ Ones(w) \subseteq 0..(XLEN - 1)
    <2>1. Ones(w) \subseteq 0..(XLEN - 1)
      BY <1>0, OnesBelow DEF Word
    <2>2. 0..(XLEN - 1) \subseteq 0..(WIDE - 1)
      BY Widths
    <2> QED BY <2>1, <2>2 DEF ISA!Bits, Ones
  <1> DEFINE A == Ones(x)
             B == Ones(y)
             C == A \cap B
             D == A \union B
             E == (A \union B) \ (A \cap B)
  <1>2. /\ C \in SUBSET (0..(XLEN - 1)) /\ D \in SUBSET (0..(XLEN - 1))
        /\ E \in SUBSET (0..(XLEN - 1))
    BY <1>1
  <1>3. ISA!Bits(x) = A /\ ISA!Bits(y) = B
    BY <1>1
  <1>4. and(x, y) = OfOnes(C) /\ or(x, y) = OfOnes(D) /\ xor(x, y) = OfOnes(E)
    BY DEF and, or, xor
  <1>5. ISA!FromBits(C) = OfOnes(C) /\ ISA!FromBits(D) = OfOnes(D) /\ ISA!FromBits(E) = OfOnes(E)
    <2> HIDE DEF C, D, E
    <2> QED BY <1>2, ManualBits
  <1> QED BY <1>3, <1>4, <1>5

-----------------------------------------------------------------------------
(* Sign extension within a register.                                       *)

\* The remainder of a negative number that is no less than -m.
LEMMA NegativeCut ==
    ASSUME NEW i \in Int, NEW m \in Nat \ {0}, i < 0, -m <= i
    PROVE  i % m = i + m
  <1> DEFINE r == i + m
             q == -1
  <1>1. i \in Int /\ m \in Nat \ {0} /\ q \in Int /\ r \in 0..(m - 1) /\ i = m * q + r
    OBVIOUS
  <1> HIDE DEF r, q
  <1>2. i % m = r
    BY ONLY <1>1, QuotientUnique
  <1> QED BY <1>2 DEF r

\* One less than a product, divided by a factor.
LEMMA ProductLessOne ==
    ASSUME NEW p \in Nat \ {0}, NEW c \in Nat \ {0}
    PROVE  (p * c - 1) \div p = c - 1 /\ (c - 1) * p = p * c - p
  <1> DEFINE d == c - 1
             r == p - 1
             y == p * d
             z == p * c
             x == z - 1
  <1>1. d \in Int /\ r \in 0..(p - 1) /\ z = y + p /\ y \in Int /\ d * p = y
    OBVIOUS
  <1> HIDE DEF y, z
  <1>2. x = y + r /\ x \in Int /\ z - p = y
    BY <1>1
  <1>3. d * p = z - p
    BY <1>1, <1>2
  <1> HIDE DEF d, r, x
  <1>4. x \in Int /\ p \in Nat \ {0} /\ d \in Int /\ r \in 0..(p - 1) /\ x = p * d + r
    BY <1>1, <1>2 DEF y
  <1>5. x \div p = d
    BY ONLY <1>4, QuotientUnique
  <1> QED BY <1>3, <1>5 DEF x, d, z

\* Zeroes or ones from the sign bit on: two's complement in bit + 1 bits.
LEMMA SpreadValue ==
    ASSUME NEW bit \in 0..(XLEN - 1), NEW v \in 0..(2 ^ (bit + 1) - 1)
    PROVE  Spread(v, bit) = IF v >= 2 ^ bit THEN v + RegSize - 2 ^ (bit + 1) ELSE v
  <1> DEFINE p == 2 ^ bit
             d == 2 ^ (bit + 1)
             n == XLEN - 1 - bit
             e == 2 ^ n
  <1>1. /\ bit \in 0..(WIDE - 1) /\ bit \in 0..WIDE /\ bit + 1 \in 0..WIDE /\ XLEN \in (bit + 1)..WIDE
        /\ n \in 0..WIDE /\ bit + 1 \in 0..(WIDE - n) /\ n + (bit + 1) = XLEN /\ bit + 1 \in 0..XLEN
        /\ XLEN \in 0..WIDE /\ bit \in 0..XLEN /\ XLEN \in bit..WIDE /\ bit \in Nat
    BY Widths
  <1>2. /\ p \in Nat \ {0} /\ d = 2 * p /\ d \in Nat \ {0} /\ e \in Nat \ {0} /\ d <= RegSize
        /\ RegSize \in Nat \ {0}
    <2>1. p \in Nat \ {0} /\ d = 2 * p /\ d \in Nat \ {0} /\ e \in Nat \ {0} /\ d <= RegSize
      <3> HIDE DEF n
      <3> QED BY <1>1, PowerStep, PowerOrder DEF RegSize
    <2> QED BY <2>1, Sizes
  <1>3. v \in 0..(d - 1) /\ v \in Nat /\ v < d
    BY <1>2
  <1>4. v \in Word
    <2> HIDE DEF d
    <2> QED BY <1>2, <1>3, Ranges
  <1>5. (and(v, p) = 0) <=> ~(v >= p)
    <2>1. (and(v, 2 ^ bit) = 0) <=> bit \notin Ones(v)
      BY <1>1, <1>3, AndBit
    <2>2. bit \in Ones(v) <=> v >= 2 ^ bit
      BY <1>1, TopBit
    <2> QED BY <2>1, <2>2
  <1>6. (RegSize - 1) \div e = d - 1
    <2>1. RegSize = e * d
      <3> HIDE DEF n
      <3>1. 2 ^ (n + (bit + 1)) = 2 ^ n * 2 ^ (bit + 1)
        BY <1>1, PowerProduct
      <3> QED BY <1>1, <3>1 DEF RegSize
    <2> HIDE DEF e, d
    <2>2. (e * d - 1) \div e = d - 1
      BY <1>2, ProductLessOne
    <2> QED BY <2>1, <2>2
  <1>7. and(v, d - 1) = v
    <2>1. and(v, 2 ^ (bit + 1) - 1) = v % 2 ^ (bit + 1)
      BY <1>1, <1>4, Masks
    <2>2. v % d = v
      <3> HIDE DEF d
      <3> QED BY <1>2, <1>3, SmallCut
    <2> QED BY <2>1, <2>2
  <1>8. ((RegSize - 1) \div p) * p = RegSize - p
    <2>1. PICK c \in Nat \ {0} : RegSize = p * c
      BY <1>1, PowerDivides DEF RegSize
    <2> HIDE DEF p
    <2>2. (p * c - 1) \div p = c - 1 /\ (c - 1) * p = p * c - p
      BY <1>2, ProductLessOne
    <2> QED BY <2>1, <2>2
  <1>9. v >= p => or(v, RegSize - p) = v + RegSize - d
    <2> SUFFICES ASSUME v >= p PROVE or(v, RegSize - p) = v + RegSize - d
      OBVIOUS
    <2>1. or(v, 2 ^ XLEN - 2 ^ bit) = (v % 2 ^ bit) + 2 ^ XLEN - 2 ^ bit
      <3>1. v \in 0..(2 ^ XLEN - 1)
        BY <1>4 DEF Word
      <3> QED BY <1>1, <3>1, OrRow
    <2> HIDE DEF p, d
    <2>2. v % p = v - p
      <3> DEFINE r == v - p
                 q == 1
      <3>1. v \in Int /\ p \in Nat \ {0} /\ q \in Int /\ r \in 0..(p - 1) /\ v = p * q + r
        BY <1>2, <1>3
      <3> HIDE DEF r, q
      <3>2. v % p = r
        BY ONLY <3>1, QuotientUnique
      <3> QED BY <3>2 DEF r
    <2>3. or(v, RegSize - p) = (v % p) + RegSize - p
      BY <2>1 DEF RegSize, p
    <2> QED BY <1>2, <1>3, <2>2, <2>3
  <1>10. Spread(v, bit) = IF and(v, p) = 0 THEN and(v, (RegSize - 1) \div e)
                          ELSE or(v, ((RegSize - 1) \div p) * p)
    BY DEF Spread
  <1> HIDE DEF p, d, e
  <1>11. Spread(v, bit) = IF v >= p THEN v + RegSize - d ELSE v
    BY <1>5, <1>6, <1>7, <1>8, <1>9, <1>10
  <1> QED BY <1>11 DEF p, d

\* Sign-extending a lower half, as the manual says.
LEMMA SpreadHalf ==
    ASSUME NEW u \in 0..(HalfSize - 1)
    PROVE  Spread(u, XLEN \div 2 - 1) = Signed32(u) % RegSize
  <1> DEFINE h == XLEN \div 2 - 1
             p == 2 ^ h
  <1>1. h \in 0..(XLEN - 1) /\ h + 1 = XLEN \div 2 /\ h \in 0..WIDE
    BY Widths
  <1> HIDE DEF h
  <1>2. HalfSize = 2 ^ (h + 1) /\ p \in Nat \ {0} /\ HalfSize = 2 * p
    BY <1>1, PowerStep DEF HalfSize
  <1>3. Spread(u, h) = IF u >= p THEN u + RegSize - HalfSize ELSE u
    <2>1. u \in 0..(2 ^ (h + 1) - 1)
      BY <1>2
    <2> QED BY <1>1, <1>2, <2>1, SpreadValue
  <1> HIDE DEF p
  <1>4. RegSize \in Nat \ {0} /\ 2 * HalfSize <= RegSize /\ u \in Nat /\ u < HalfSize /\ HalfSize \in Nat \ {0}
    BY Sizes
  <1>5. u % HalfSize = u
    BY <1>4, SmallCut
  <1>6. Signed32(u) = IF u >= p THEN u - HalfSize ELSE u
    BY <1>2, <1>4, <1>5 DEF Signed32
  <1>7. CASE u >= p
    <2> DEFINE k == u - HalfSize
    <2>1. k \in Int /\ k < 0 /\ -RegSize <= k /\ k + RegSize = u + RegSize - HalfSize
      BY <1>4
    <2> HIDE DEF k
    <2>2. k % RegSize = k + RegSize
      BY <1>4, <2>1, NegativeCut
    <2> QED BY <1>3, <1>6, <1>7, <2>1, <2>2 DEF k, h
  <1>8. CASE ~(u >= p)
    <2>1. u % RegSize = u
      <3>1. u < RegSize
        BY <1>4
      <3> QED BY <1>4, <3>1, SmallCut
    <2> QED BY <1>3, <1>6, <1>8, <2>1 DEF h
  <1> QED BY <1>7, <1>8

\* mask32Signed64, of a register and of what wraps to one.
LEMMA MaskIsSext ==
    ASSUME NEW i \in Int
    PROVE  /\ Fast!mask32Signed64(i % RegSize) = Signed32(i) % RegSize
           /\ i \in Word => Fast!mask32Signed64(i) = Signed32(i) % RegSize
  <1> DEFINE x == i % RegSize
             u == x % HalfSize
  <1>1. x \in Word /\ (i \in Word => x = i)
    BY CutWord
  <1>2. u = i % HalfSize
    <2>1. XLEN \div 2 \in 0..WIDE /\ XLEN \in (XLEN \div 2)..WIDE
      BY Widths
    <2> QED BY <2>1, RemainderTwice DEF RegSize, HalfSize
  <1> HIDE DEF x
  <1>3. Fast!mask32Signed64(x) = Spread(u, XLEN \div 2 - 1) /\ u \in 0..(HalfSize - 1)
    BY <1>1, LowerHalf
  <1> HIDE DEF u
  <1>4. Spread(u, XLEN \div 2 - 1) = Signed32(u) % RegSize
    BY <1>3, SpreadHalf
  <1>5. Signed32(u) = Signed32(i)
    <2>1. HalfSize \in Nat \ {0} /\ u \in Nat /\ u < HalfSize /\ u \in Int
      BY <1>3, Sizes
    <2>2. u % HalfSize = u
      BY <2>1, SmallCut
    <2>3. u % HalfSize = i % HalfSize
      BY <1>2, <2>2
    <2> QED BY <2>1, <2>3, Signed32Same
  <1>6. Fast!mask32Signed64(x) = Signed32(i) % RegSize
    BY <1>3, <1>4, <1>5
  <1> QED BY <1>1, <1>6 DEF x

-----------------------------------------------------------------------------
(* The instructions and the manual.                                        *)

\* A wide word holds the product of two registers, whatever their signs.
LEMMA UpperExact ==
    ASSUME NEW x \in Wide, NEW y \in Wide, NEW i \in Int, NEW j \in Int,
           x % WideSize = i % WideSize, y % WideSize = j % WideSize
    PROVE  Fast!upper(x, y) = ((i * j) \div RegSize) % RegSize
  <1> DEFINE m == RegSize
             w == WideSize
             t == i * j
             k == t \div w
             c == t % w
  <1>1. m \in Nat \ {0} /\ w \in Nat \ {0}
    BY Sizes
  <1>2. Fast!upper(x, y) = (((x * y) % w) \div m) % m
    BY Uppers
  <1>3. (x * y) % w = c
    <2>1. x \in Int /\ y \in Int
      BY Ranges
    <2> DEFINE P == x * y
    <2>2. SameCut(x, i, w) /\ SameCut(y, j, w) /\ IsProduct(P, x, y) /\ IsProduct(t, i, j)
      BY DEF SameCut, IsProduct
    <2> HIDE DEF w, P, t
    <2>3. SameCut(P, t, w)
      BY <1>1, <2>1, <2>2, CongruentProduct
    <2> QED BY <2>3 DEF SameCut, P
  <1>4. PICK g \in Nat \ {0} : w = (m * m) * g
    <2>1. XLEN \in 0..WIDE /\ XLEN \in 0..(WIDE - XLEN) /\ XLEN + XLEN \in 0..WIDE /\ WIDE \in (XLEN + XLEN)..WIDE
      BY Widths
    <2>2. 2 ^ (XLEN + XLEN) = m * m
      BY <2>1, PowerProduct DEF RegSize
    <2>3. \E g \in Nat \ {0} : w = 2 ^ (XLEN + XLEN) * g
      BY <2>1, PowerDivides DEF WideSize
    <2> QED BY <2>2, <2>3
  <1>5. t \in Int
    OBVIOUS
  <1> HIDE DEF m, w, t
  <1>6. k \in Int /\ c \in 0..(w - 1) /\ t = w * k + c
    BY ONLY <1>1, <1>5, QuotientParts DEF k, c
  <1> HIDE DEF k, c
  <1> DEFINE o == -(g * k)
             q == m * o
             d == t \div m
  <1>7. o \in Int /\ q \in Int /\ c = t + m * q
    <2>1. m * q = -(((m * m) * g) * k) /\ o \in Int /\ q \in Int
      BY <1>1, <1>6
    <2> DEFINE r == m * q
               z == w * k
    <2>2. r = -z /\ z \in Int
      BY <1>1, <1>4, <1>6, <2>1
    <2>3. t = z + c
      BY <1>6
    <2> HIDE DEF r, z, q
    <2>4. c = t + r
      BY <1>5, <1>6, <2>2, <2>3
    <2> QED BY <2>1, <2>4 DEF r
  <1> HIDE DEF q
  <1>8. c \div m = d + q
    <2>1. (t + m * q) \div m = t \div m + q
      BY <1>1, <1>5, <1>7, AddMultiple
    <2> QED BY <1>7, <2>1
  <1>9. d \in Int
    BY <1>1, <1>5
  <1> HIDE DEF o, d
  <1>10. (d + m * o) % m = d % m
    BY <1>1, <1>7, <1>9, AddMultiple
  <1>11. (c \div m) % m = d % m
    BY <1>8, <1>10 DEF q
  <1> QED BY <1>2, <1>3, <1>11 DEF d, t, m

\* A sign-extended register has the remainder of its signed reading.
LEMMA ExtendedCut ==
    ASSUME NEW x \in Word
    PROVE  Extended(x) % WideSize = Signed64(x) % WideSize
  <1> DEFINE s == Signed64(x)
             k == 1
  <1>1. /\ s \in Int /\ k \in Int /\ WideSize \in Nat \ {0} /\ RegSize \in Nat /\ x \in Int
        /\ SignBit \in Nat
    BY ExtendWide, Sizes, WordNat
  <1>2. (s + WideSize * k) % WideSize = s % WideSize
    <2> HIDE DEF s, k
    <2> QED BY <1>1, AddMultiple
  <1>3. CASE x >= SignBit
    <2>1. Extended(x) = s + WideSize * k
      BY <1>1, <1>3 DEF Extended, Signed64
    <2> QED BY <1>2, <2>1
  <1>4. CASE ~(x >= SignBit)
    BY <1>4 DEF Extended, Signed64
  <1> QED BY <1>3, <1>4

\* Products: the lower half and the three upper halves.
LEMMA ManualProducts ==
    ASSUME NEW x \in Word, NEW y \in Word
    PROVE  /\ Fast!mul64(x, y) = (Signed64(x) * Signed64(y)) % RegSize
           /\ Fast!upper(Extended(x), Extended(y)) = ((Signed64(x) * Signed64(y)) \div RegSize) % RegSize
           /\ Fast!upper(Extended(x), y) = ((Signed64(x) * y) \div RegSize) % RegSize
           /\ Fast!upper(x, y) = ((x * y) \div RegSize) % RegSize
  <1> DEFINE s == Signed64(x)
             t == Signed64(y)
             ex == Extended(x)
             ey == Extended(y)
  <1>1. /\ s \in Int /\ t \in Int /\ ex \in Wide /\ ey \in Wide /\ x \in Int /\ y \in Int
        /\ x \in Wide /\ y \in Wide /\ RegSize \in Nat \ {0}
    <2>1. s \in Int /\ t \in Int /\ ex \in Wide /\ ey \in Wide
      BY ExtendWide
    <2>2. x \in Int /\ y \in Int
      BY WordNat
    <2>3. RegSize \in Nat \ {0} /\ WideSize \in Nat /\ 2 * RegSize <= WideSize
      BY Sizes
    <2>4. x \in Wide /\ y \in Wide
      BY <2>3, Ranges
    <2> QED BY <2>1, <2>2, <2>3, <2>4
  <1>2. ex % WideSize = s % WideSize /\ ey % WideSize = t % WideSize
    BY ExtendedCut
  <1>3. s % RegSize = x % RegSize /\ t % RegSize = y % RegSize
    BY <1>1, WrapSigned, CutWord
  <1>4. Fast!mul64(x, y) = (x * y) % RegSize
    BY Products
  <1> HIDE DEF s, t, ex, ey
  <1>5. (x * y) % RegSize = (s * t) % RegSize
    <2> DEFINE P == x * y
               Q == s * t
    <2>1. /\ SameCut(x, s, RegSize) /\ SameCut(y, t, RegSize)
          /\ IsProduct(P, x, y) /\ IsProduct(Q, s, t)
      BY <1>3 DEF SameCut, IsProduct
    <2> HIDE DEF P, Q
    <2>2. SameCut(P, Q, RegSize)
      BY <1>1, <2>1, CongruentProduct
    <2> QED BY <2>2 DEF SameCut, P, Q
  <1>6. Fast!upper(ex, ey) = ((s * t) \div RegSize) % RegSize
    BY <1>1, <1>2, UpperExact
  <1>7. Fast!upper(ex, y) = ((s * y) \div RegSize) % RegSize
    BY <1>1, <1>2, UpperExact
  <1>8. Fast!upper(x, y) = ((x * y) \div RegSize) % RegSize
    BY <1>1, UpperExact
  <1> QED BY <1>4, <1>5, <1>6, <1>7, <1>8 DEF s, t, ex, ey

\* All ones are minus one.
LEMMA MinusOne == (-1) % RegSize = RegSize - 1 /\ Fast!u64Mask = RegSize - 1
  <1>1. RegSize \in Nat \ {0}
    BY Sizes
  <1> DEFINE k == -1
  <1>2. k \in Int /\ k < 0 /\ -RegSize <= k
    BY <1>1
  <1> HIDE DEF k
  <1>3. k % RegSize = k + RegSize
    BY <1>1, <1>2, NegativeCut
  <1> QED BY <1>1, <1>3, Constants DEF k

\* Quotients and remainders, by zero too.
LEMMA ManualDivision ==
    ASSUME NEW x \in Word, NEW y \in Word
    PROVE  /\ (IF y = 0 THEN Fast!u64Mask ELSE Fast!sdiv64(x, y)) =
                ISA!Quotient(Signed64(x), Signed64(y)) % RegSize
           /\ (IF y = 0 THEN Fast!u64Mask ELSE Fast!div64(x, y)) = ISA!Quotient(x, y) % RegSize
           /\ (IF y = 0 THEN x ELSE Fast!smod64(x, y)) =
                ISA!Remainder(Signed64(x), Signed64(y)) % RegSize
           /\ (IF y = 0 THEN x ELSE Fast!mod64(x, y)) = ISA!Remainder(x, y) % RegSize
  <1> DEFINE s == Signed64(x)
             t == Signed64(y)
  <1>1. s \in Int /\ t \in Int /\ (t = 0 <=> y = 0) /\ s % RegSize = x
    BY ExtendWide, WrapSigned
  <1>2. x \in Nat /\ y \in Nat /\ x \in Int /\ x % RegSize = x
    BY WordNat, CutWord
  <1>3. ISA!TowardsZero(s, t) = Truncated(s, t) /\ ISA!TowardsZero(x, y) = Truncated(x, y)
    BY ManualRounding
  <1>4. CASE y = 0
    <2>1. ISA!Quotient(s, t) = -1 /\ ISA!Quotient(x, y) = -1
      BY <1>1, <1>4 DEF ISA!Quotient
    <2>2. ISA!Remainder(s, t) = s /\ ISA!Remainder(x, y) = x
      BY <1>1, <1>4 DEF ISA!Remainder
    <2> HIDE DEF s, t
    <2>3. ISA!Quotient(s, t) % RegSize = Fast!u64Mask /\ ISA!Quotient(x, y) % RegSize = Fast!u64Mask
      BY <2>1, MinusOne
    <2> QED BY <1>1, <1>2, <1>4, <2>2, <2>3 DEF s, t
  <1>5. CASE y # 0
    <2>1. ISA!Quotient(s, t) = Truncated(s, t) /\ ISA!Remainder(s, t) = s - t * Truncated(s, t)
      BY <1>1, <1>3, <1>5 DEF ISA!Quotient, ISA!Remainder
    <2>2. ISA!Quotient(x, y) = x \div y /\ ISA!Remainder(x, y) = x % y
      <3>1. Truncated(x, y) = x \div y /\ x - y * Truncated(x, y) = x % y
        BY <1>2, <1>5, TruncatedNat
      <3> QED BY <1>3, <1>5, <3>1 DEF ISA!Quotient, ISA!Remainder
    <2>3. /\ Fast!sdiv64(x, y) = Truncated(s, t) % RegSize
          /\ Fast!smod64(x, y) = (s - t * Truncated(s, t)) % RegSize
      BY <1>5, SignedDivision
    <2> DEFINE q == x \div y
               r == x % y
    <2>4. Fast!div64(x, y) = q /\ Fast!mod64(x, y) = r
      BY <1>5 DEF Fast!div64, Fast!mod64
    <2>5. q \in Word /\ r \in Word
      BY <2>4, Unsigned
    <2> HIDE DEF q, r
    <2>6. q % RegSize = q /\ r % RegSize = r
      BY <2>5, WordNat, CutWord
    <2>7. Fast!div64(x, y) = ISA!Quotient(x, y) % RegSize /\ Fast!mod64(x, y) = ISA!Remainder(x, y) % RegSize
      BY <2>2, <2>4, <2>6 DEF q, r
    <2> HIDE DEF s, t
    <2>8. Fast!sdiv64(x, y) = ISA!Quotient(s, t) % RegSize /\ Fast!smod64(x, y) = ISA!Remainder(s, t) % RegSize
      BY <2>1, <2>3
    <2> QED BY <1>5, <2>7, <2>8 DEF s, t
  <1> QED BY <1>4, <1>5

\* Opcode 0x33 with the M extension, and the manual.
LEMMA MulDivManual ==
    ASSUME NEW f \in Funct3, NEW x \in Word, NEW y \in Word
    PROVE  Fast!MulDiv(f, x, y) = ISA!MulDiv(f, x, y)
  <1> DEFINE s == Signed64(x)
             t == Signed64(y)
             ex == Extended(x)
             ey == Extended(y)
  <1>1. ISA!S(x) = s /\ ISA!S(y) = t /\ \A k : ISA!Wrap(k) = k % RegSize
    BY ManualTerms
  <1>2. /\ Fast!signExtend64To256(x) = ex /\ Fast!signExtend64To256(y) = ey
        /\ Fast!u64ToU256(x) = x /\ Fast!u64ToU256(y) = y
    BY ExtendWide DEF Fast!u64ToU256
  <1>3. /\ Fast!mul64(x, y) = (s * t) % RegSize
        /\ Fast!upper(ex, ey) = ((s * t) \div RegSize) % RegSize
        /\ Fast!upper(ex, y) = ((s * y) \div RegSize) % RegSize
        /\ Fast!upper(x, y) = ((x * y) \div RegSize) % RegSize
    BY ManualProducts
  <1>4. /\ (IF y = 0 THEN Fast!u64Mask ELSE Fast!sdiv64(x, y)) = ISA!Quotient(s, t) % RegSize
        /\ (IF y = 0 THEN Fast!u64Mask ELSE Fast!div64(x, y)) = ISA!Quotient(x, y) % RegSize
        /\ (IF y = 0 THEN x ELSE Fast!smod64(x, y)) = ISA!Remainder(s, t) % RegSize
        /\ (IF y = 0 THEN x ELSE Fast!mod64(x, y)) = ISA!Remainder(x, y) % RegSize
    BY ManualDivision
  <1>5. ISA!Modulus = RegSize
    BY DEF ISA!Modulus, RegSize
  <1> HIDE DEF s, t, ex, ey
  <1>6. f \in 0..7
    BY DEF Funct3
  <1>7. CASE f = 0
    BY <1>1, <1>3, <1>7 DEF Fast!MulDiv, ISA!MulDiv
  <1>8. CASE f = 1
    BY <1>1, <1>2, <1>3, <1>5, <1>8 DEF Fast!MulDiv, ISA!MulDiv
  <1>9. CASE f = 2
    BY <1>1, <1>2, <1>3, <1>5, <1>9 DEF Fast!MulDiv, ISA!MulDiv
  <1>10. CASE f = 3
    BY <1>1, <1>2, <1>3, <1>5, <1>10 DEF Fast!MulDiv, ISA!MulDiv
  <1>11. CASE f = 4
    BY <1>1, <1>4, <1>11 DEF Fast!MulDiv, ISA!MulDiv
  <1>12. CASE f = 5
    BY <1>1, <1>4, <1>12 DEF Fast!MulDiv, ISA!MulDiv
  <1>13. CASE f = 6
    BY <1>1, <1>4, <1>13 DEF Fast!MulDiv, ISA!MulDiv
  <1>14. CASE f = 7
    BY <1>1, <1>4, <1>14 DEF Fast!MulDiv, ISA!MulDiv
  <1> QED BY <1>6, <1>7, <1>8, <1>9, <1>10, <1>11, <1>12, <1>13, <1>14

\* The values of the register instructions.
LEMMA ManualRegister ==
    ASSUME NEW x \in Word, NEW y \in Word
    PROVE  /\ Fast!add64(x, y) = ISA!Wrap(x + y) /\ Fast!sub64(x, y) = ISA!Wrap(x - y)
           /\ Fast!shl64(Fast!and64(y, XLEN - 1), x) = ISA!Wrap(x * 2 ^ (y % XLEN))
           /\ Fast!slt64(x, y) = ISA!One(ISA!S(x) < ISA!S(y)) /\ Fast!lt64(x, y) = ISA!One(x < y)
           /\ Fast!shr64(Fast!and64(y, XLEN - 1), x) = x \div 2 ^ (y % XLEN)
           /\ Fast!sar64(Fast!and64(y, XLEN - 1), x) = ISA!Wrap(ISA!S(x) \div 2 ^ (y % XLEN))
           /\ Fast!and64(x, y) = ISA!FromBits(ISA!Bits(x) \intersect ISA!Bits(y))
           /\ Fast!or64(x, y) = ISA!FromBits(ISA!Bits(x) \union ISA!Bits(y))
           /\ Fast!xor64(x, y) =
                ISA!FromBits((ISA!Bits(x) \union ISA!Bits(y)) \ (ISA!Bits(x) \intersect ISA!Bits(y)))
  <1> DEFINE n == y % XLEN
  <1>1. Fast!and64(y, XLEN - 1) = n /\ n \in 0..(XLEN - 1)
    BY ConstantWords, BitwiseOps, ShiftAmounts
  <1>2. ISA!S(x) = Signed64(x) /\ ISA!S(y) = Signed64(y) /\ \A k : ISA!Wrap(k) = k % RegSize
    BY ManualTerms
  <1>3. Fast!add64(x, y) = ISA!Wrap(x + y) /\ Fast!sub64(x, y) = ISA!Wrap(x - y)
    BY <1>2, AddSub
  <1>4. Fast!slt64(x, y) = ISA!One(ISA!S(x) < ISA!S(y)) /\ Fast!lt64(x, y) = ISA!One(x < y)
    BY <1>2, Comparisons DEF ISA!One, Flag
  <1> HIDE DEF n
  <1>5. /\ Fast!shl64(n, x) = (x * 2 ^ n) % RegSize /\ Fast!shr64(n, x) = x \div 2 ^ n
        /\ Fast!sar64(n, x) = (Signed64(x) \div 2 ^ n) % RegSize
    BY <1>1, Shifts
  <1>6. /\ Fast!shl64(n, x) = ISA!Wrap(x * 2 ^ n) /\ Fast!shr64(n, x) = x \div 2 ^ n
        /\ Fast!sar64(n, x) = ISA!Wrap(ISA!S(x) \div 2 ^ n)
    BY <1>2, <1>5
  <1>7. /\ Fast!and64(x, y) = ISA!FromBits(ISA!Bits(x) \intersect ISA!Bits(y))
        /\ Fast!or64(x, y) = ISA!FromBits(ISA!Bits(x) \union ISA!Bits(y))
        /\ Fast!xor64(x, y) =
             ISA!FromBits((ISA!Bits(x) \union ISA!Bits(y)) \ (ISA!Bits(x) \intersect ISA!Bits(y)))
    <2>1. /\ Fast!and64(x, y) = and(x, y) /\ Fast!or64(x, y) = or(x, y)
          /\ Fast!xor64(x, y) = xor(x, y)
      BY BitwiseOps
    <2>2. /\ ISA!FromBits(ISA!Bits(x) \intersect ISA!Bits(y)) = and(x, y)
          /\ ISA!FromBits(ISA!Bits(x) \union ISA!Bits(y)) = or(x, y)
          /\ ISA!FromBits((ISA!Bits(x) \union ISA!Bits(y)) \ (ISA!Bits(x) \intersect ISA!Bits(y)))
               = xor(x, y)
      BY ManualBitwise, Zenon
    <2> QED BY <2>1, <2>2
  <1> QED BY <1>1, <1>3, <1>4, <1>6, <1>7 DEF n

\* Opcode 0x33 without it.
LEMMA OpRegManual ==
    ASSUME NEW f \in Funct3, NEW g, NEW x \in Word, NEW y \in Word,
           ISA!OpReg(f, g, x, y) # ISA!Reserved
    PROVE  Fast!OpReg(f, g, x, y) = ISA!OpReg(f, g, x, y)
  <1> DEFINE A1 == ISA!Bits(x) \intersect ISA!Bits(y)
             A2 == ISA!Bits(x) \union ISA!Bits(y)
             A3 == (ISA!Bits(x) \union ISA!Bits(y)) \ (ISA!Bits(x) \intersect ISA!Bits(y))
  <1>1. Fast!add64(x, y) = ISA!Wrap(x + y) /\ Fast!sub64(x, y) = ISA!Wrap(x - y)
    BY ManualRegister
  <1>2. Fast!shl64(Fast!and64(y, XLEN - 1), x) = ISA!Wrap(x * 2 ^ (y % XLEN))
    BY ManualRegister
  <1>3. Fast!slt64(x, y) = ISA!One(ISA!S(x) < ISA!S(y)) /\ Fast!lt64(x, y) = ISA!One(x < y)
    BY ManualRegister
  <1>4. /\ Fast!shr64(Fast!and64(y, XLEN - 1), x) = x \div 2 ^ (y % XLEN)
        /\ Fast!sar64(Fast!and64(y, XLEN - 1), x) = ISA!Wrap(ISA!S(x) \div 2 ^ (y % XLEN))
    BY ManualRegister
  <1>5. /\ Fast!and64(x, y) = ISA!FromBits(A1) /\ Fast!or64(x, y) = ISA!FromBits(A2)
        /\ Fast!xor64(x, y) = ISA!FromBits(A3)
    BY ManualRegister
  <1>6. f \in 0..7
    BY DEF Funct3
  <1>7. CASE f = 0
    BY <1>1, <1>7 DEF Fast!OpReg, ISA!OpReg, ISA!Reserved
  <1>8. CASE f = 1
    BY <1>2, <1>8 DEF Fast!OpReg, ISA!OpReg, ISA!Reserved
  <1>9. CASE f = 2
    BY <1>3, <1>9 DEF Fast!OpReg, ISA!OpReg, ISA!Reserved
  <1>10. CASE f = 3
    BY <1>3, <1>10 DEF Fast!OpReg, ISA!OpReg, ISA!Reserved
  <1>11. CASE f = 4
    BY <1>5, <1>11 DEF Fast!OpReg, ISA!OpReg, ISA!Reserved
  <1>12. CASE f = 5
    BY <1>4, <1>12 DEF Fast!OpReg, ISA!OpReg, ISA!Reserved
  <1>13. CASE f = 6
    BY <1>5, <1>13 DEF Fast!OpReg, ISA!OpReg, ISA!Reserved
  <1>14. CASE f = 7
    BY <1>5, <1>14 DEF Fast!OpReg, ISA!OpReg, ISA!Reserved
  <1> QED BY <1>6, <1>7, <1>8, <1>9, <1>10, <1>11, <1>12, <1>13, <1>14

\* An immediate instruction is the register one on its immediate.
LEMMA OpImmManual ==
    ASSUME NEW f \in Funct3, NEW top \in Top, NEW x \in Word, NEW y \in Word,
           ISA!OpImm(f, top, x, y) # ISA!Reserved
    PROVE  Fast!OpImm(f, top, x, y) = ISA!OpImm(f, top, x, y)
  <1> DEFINE g == ISA!Funct7(f, top)
  <1>0. ISA!OpImm(f, top, x, y) = ISA!OpReg(f, g, x, y)
    BY DEF ISA!OpImm
  <1>1. Fast!OpReg(f, g, x, y) = ISA!OpReg(f, g, x, y)
    <2> HIDE DEF g
    <2> QED BY <1>0, OpRegManual
  <1>2. f \in 0..7 /\ top \in {"logical", "arithmetic", "reserved"}
    BY DEF Funct3, Top
  <1>3. CASE f \notin {1, 5}
    <2>1. g = 0
      BY <1>3 DEF ISA!Funct7
    <2>2. Fast!OpReg(f, 0, x, y) = Fast!OpImm(f, top, x, y)
      <3>1. CASE f = 0
        BY <3>1 DEF Fast!OpReg, Fast!OpImm
      <3>2. CASE f = 2
        BY <3>2 DEF Fast!OpReg, Fast!OpImm
      <3>3. CASE f = 3
        BY <3>3 DEF Fast!OpReg, Fast!OpImm
      <3>4. CASE f = 4
        BY <3>4 DEF Fast!OpReg, Fast!OpImm
      <3>5. CASE f = 6
        BY <3>5 DEF Fast!OpReg, Fast!OpImm
      <3>6. CASE f = 7
        BY <3>6 DEF Fast!OpReg, Fast!OpImm
      <3> QED BY <1>2, <1>3, <3>1, <3>2, <3>3, <3>4, <3>5, <3>6
    <2> QED BY <1>0, <1>1, <2>1, <2>2
  <1>4. CASE f = 1
    <2>1. Fast!OpReg(f, g, x, y) = Fast!OpImm(f, top, x, y)
      BY <1>4 DEF Fast!OpReg, Fast!OpImm
    <2> QED BY <1>0, <1>1, <2>1
  <1>5. CASE f = 5 /\ top = "logical"
    <2>1. g = 0
      BY <1>5 DEF ISA!Funct7
    <2>2. Fast!OpReg(f, 0, x, y) = Fast!OpImm(f, top, x, y)
      BY <1>5 DEF Fast!OpReg, Fast!OpImm
    <2> QED BY <1>0, <1>1, <2>1, <2>2
  <1>6. CASE f = 5 /\ top = "arithmetic"
    <2>1. g = 32
      BY <1>6 DEF ISA!Funct7
    <2>2. Fast!OpReg(f, 32, x, y) = Fast!OpImm(f, top, x, y)
      BY <1>6 DEF Fast!OpReg, Fast!OpImm
    <2> QED BY <1>0, <1>1, <2>1, <2>2
  <1>7. CASE f = 5 /\ top = "reserved"
    <2>1. g = 64
      BY <1>7 DEF ISA!Funct7
    <2>2. ISA!OpReg(f, 64, x, y) = ISA!Reserved
      BY <1>7 DEF ISA!OpReg
    <2> QED BY <1>0, <2>1, <2>2
  <1> QED BY <1>2, <1>3, <1>4, <1>5, <1>6, <1>7

\* A branch and its complement.
LEMMA NotFlag ==
    ASSUME NEW c \in BOOLEAN
    PROVE  Fast!and64(Fast!not64(Flag(c)), 1) = Flag(~c)
  <1> DEFINE z == Flag(c)
             v == RegSize - 1 - z
  <1>1. z \in {0, 1} /\ (c <=> z = 1) /\ z \in Word
    BY FlagWord DEF Flag
  <1>2. Fast!not64(z) = v
    BY Constants DEF Fast!not64
  <1>3. v \in Word
    BY <1>1, <1>2, Complement
  <1>4. SignBit \in Nat \ {0} /\ RegSize = 2 * SignBit
    BY Sizes
  <1>5. Fast!and64(v, 1) = v % 2
    <2>1. 1 \in 0..XLEN /\ 0 \in 0..WIDE
      BY Widths
    <2>2. 2 ^ (0 + 1) = 2 * 2 ^ 0 /\ 2 ^ 0 = 1
      BY <2>1, PowersAssumption
    <2>3. 2 ^ 1 = 2
      BY <2>2
    <2>4. and(v, 2 ^ 1 - 1) = v % 2 ^ 1
      <3> HIDE DEF v
      <3> QED BY <1>3, <2>1, Masks
    <2>5. and(v, 1) = v % 2
      BY <2>3, <2>4
    <2> HIDE DEF v
    <2> QED BY <1>3, <2>5, ConstantWords, BitwiseOps
  <1> HIDE DEF z
  <1>6. v % 2 = 1 - z
    <2>1. CASE z = 0
      <3>1. v = 2 * (SignBit - 1) + 1
        BY <1>4, <2>1
      <3> HIDE DEF v
      <3> QED BY <1>4, <2>1, <3>1
    <2>2. CASE z = 1
      <3>1. v = 2 * (SignBit - 1)
        BY <1>4, <2>2
      <3> HIDE DEF v
      <3> QED BY <1>4, <2>2, <3>1
    <2> QED BY <1>1, <2>1, <2>2
  <1>7. Flag(~c) = 1 - z
    BY <1>1 DEF Flag
  <1> QED BY <1>2, <1>5, <1>6, <1>7 DEF z

\* Opcode 0x63 and the manual.
LEMMA BranchManual ==
    ASSUME NEW f \in Funct3, NEW x \in Word, NEW y \in Word,
           ISA!Branch(f, x, y) # ISA!Reserved
    PROVE  Fast!Branch(f, x, y) = ISA!Branch(f, x, y)
  <1> DEFINE s == Signed64(x)
             t == Signed64(y)
  <1>1. ISA!S(x) = s /\ ISA!S(y) = t
    BY ManualTerms
  <1>2. /\ Fast!eq64(x, y) = Flag(x = y) /\ Fast!lt64(x, y) = Flag(x < y)
        /\ Fast!slt64(x, y) = Flag(s < t)
    BY Comparisons
  <1>3. s \in Int /\ t \in Int /\ x \in Int /\ y \in Int
    BY ExtendWide, WordNat
  <1> HIDE DEF s, t
  <1>4. /\ Fast!and64(Fast!not64(Flag(x = y)), 1) = Flag(~(x = y))
        /\ Fast!and64(Fast!not64(Flag(x < y)), 1) = Flag(~(x < y))
        /\ Fast!and64(Fast!not64(Flag(s < t)), 1) = Flag(~(s < t))
    <2>1. (x = y) \in BOOLEAN /\ (x < y) \in BOOLEAN /\ (s < t) \in BOOLEAN
      BY <1>3
    <2> QED BY <2>1, NotFlag
  <1>5. /\ Flag(~(x = y)) = ISA!One(x # y) /\ Flag(~(x < y)) = ISA!One(x >= y)
        /\ Flag(~(s < t)) = ISA!One(s >= t)
        /\ Flag(x = y) = ISA!One(x = y) /\ Flag(x < y) = ISA!One(x < y)
        /\ Flag(s < t) = ISA!One(s < t)
    BY <1>3 DEF Flag, ISA!One
  <1>6. f \in 0..7
    BY DEF Funct3
  <1>7. CASE f = 0
    BY <1>2, <1>5, <1>7 DEF Fast!Branch, ISA!Branch
  <1>8. CASE f = 1
    BY <1>2, <1>4, <1>5, <1>8 DEF Fast!Branch, ISA!Branch
  <1>9. CASE f \in {2, 3}
    BY <1>9 DEF ISA!Branch, ISA!Reserved
  <1>10. CASE f = 4
    BY <1>1, <1>2, <1>5, <1>10 DEF Fast!Branch, ISA!Branch
  <1>11. CASE f = 5
    BY <1>1, <1>2, <1>4, <1>5, <1>11 DEF Fast!Branch, ISA!Branch
  <1>12. CASE f = 6
    BY <1>2, <1>5, <1>12 DEF Fast!Branch, ISA!Branch
  <1>13. CASE f = 7
    BY <1>2, <1>4, <1>5, <1>13 DEF Fast!Branch, ISA!Branch
  <1> QED BY <1>6, <1>7, <1>8, <1>9, <1>10, <1>11, <1>12, <1>13

-----------------------------------------------------------------------------
(* The 32-bit instructions and the manual.                                 *)

\* A power exceeds its exponent.
LEMMA PowerLarge ==
    ASSUME NEW n \in 0..WIDE
    PROVE  n < 2 ^ n
  <1> DEFINE T == {j \in Nat : j <= WIDE => j < 2 ^ j}
             z == 0
  <1>0. WIDE \in Nat /\ z \in Nat
    BY WidthAssumption
  <1>1. z \in T
    BY PowersAssumption
  <1>2. ASSUME NEW j \in z..(WIDE - 1), j \in T PROVE j + 1 \in T
    <2>1. j \in 0..WIDE /\ j \in Nat /\ j + 1 \in Nat /\ j <= WIDE
      BY <1>0
    <2> DEFINE p == 2 ^ j
    <2>2. p \in Nat /\ 2 ^ (j + 1) = 2 * p /\ j < p
      BY <1>2, <2>1, PowerStep
    <2> HIDE DEF p
    <2>3. j + 1 < 2 ^ (j + 1)
      BY <2>1, <2>2
    <2> QED BY <2>1, <2>3
  <1> HIDE DEF T, z
  <1>3. z..WIDE \subseteq T
    BY <1>0, <1>1, <1>2, UpTo
  <1>4. n \in T /\ n <= WIDE
    BY <1>0, <1>3 DEF z
  <1> QED BY <1>4 DEF T

\* The lower half of a register has the whole of a 32-bit shift amount.
LEMMA HalfShamt ==
    ASSUME NEW y \in Word
    PROVE  (y % HalfSize) % (XLEN \div 2) = y % (XLEN \div 2)
  <1>1. PICK k \in 1..XLEN : XLEN = 2 ^ k /\ XLEN \div 2 = 2 ^ (k - 1)
    BY Widths
  <1> DEFINE h == XLEN \div 2
             j == k - 1
  <1>2. j \in 0..WIDE /\ h \in 0..WIDE /\ y \in Int
    BY Widths, WordNat
  <1>3. j < 2 ^ j /\ h = 2 ^ j
    <2> HIDE DEF j
    <2>1. j < 2 ^ j
      BY <1>2, PowerLarge
    <2> QED BY <1>1, <2>1 DEF j, h
  <1> HIDE DEF h, j
  <1>4. h \in j..WIDE
    BY <1>2, <1>3, Widths
  <1>5. (y % 2 ^ h) % 2 ^ j = y % 2 ^ j
    BY <1>2, <1>4, RemainderTwice
  <1> QED BY <1>3, <1>5 DEF HalfSize, h

\* A right shift of a signed lower half.
LEMMA ShiftSignedManual ==
    ASSUME NEW x \in Word, NEW n \in 0..(XLEN \div 2 - 1)
    PROVE  Fast!ShiftSigned32(n, x) = Signed32(Signed32(x) \div 2 ^ n) % RegSize
  <1> DEFINE h == XLEN \div 2
             t == h - 1 - n
             p == 2 ^ n
             q == 2 ^ t
             d == 2 ^ (t + 1)
             u == x % HalfSize
             v == u \div p
             r == u % p
             m == RegSize
  <1>1. /\ n \in 0..WIDE /\ t \in 0..WIDE /\ t + 1 \in 0..(WIDE - n) /\ n + (t + 1) = h
        /\ t \in 0..(XLEN - 1) /\ t + 1 \in 0..WIDE
    BY Widths
  <1>2. Fast!ShiftSigned32(n, x) = Spread(v, t)
    BY HalfShifts
  <1>3. u \in 0..(HalfSize - 1)
    BY LowerHalf
  <1>4. /\ p \in Nat \ {0} /\ q \in Nat \ {0} /\ d = 2 * q /\ HalfSize = p * d
        /\ m \in Nat \ {0} /\ 2 * HalfSize <= m /\ HalfSize \in Nat \ {0}
    <2>1. m \in Nat \ {0} /\ 2 * HalfSize <= m /\ HalfSize \in Nat \ {0}
      BY Sizes
    <2> HIDE DEF t, h, m
    <2>2. p \in Nat \ {0} /\ q \in Nat \ {0} /\ d = 2 * q
      BY <1>1, PowerStep
    <2>3. 2 ^ (n + (t + 1)) = p * d
      BY <1>1, PowerProduct
    <2>4. HalfSize = p * d
      BY <1>1, <2>3 DEF HalfSize, h
    <2> QED BY <2>1, <2>2, <2>4
  <1> HIDE DEF p, q, d, t, h, m
  <1>5. Signed32(x) = IF 2 * u >= HalfSize THEN u - HalfSize ELSE u
    BY DEF Signed32
  <1> HIDE DEF u
  <1>6. v \in 0..u /\ r \in 0..(p - 1) /\ u = p * v + r /\ u \in Nat
    <2>1. u \in Nat
      BY <1>3
    <2>2. v \in 0..u
      BY <1>4, <2>1, QuotientBound
    <2> QED BY <1>4, <2>1, <2>2, QuotientParts
  <1> HIDE DEF r
  <1> DEFINE k == v - q
             e == v - d
             y == p * q
             pv == p * v
             pk == p * k
             pe == p * e
  <1>7. /\ y \in Nat /\ pv = y + pk /\ HalfSize = 2 * y /\ pv = HalfSize + pe
        /\ pv \in Int /\ pk \in Int /\ pe \in Int /\ k \in Int /\ e \in Int
    BY <1>4, <1>6
  <1>8. (k >= 0 => pk >= 0) /\ (k < 0 => pk <= -p) /\ (e >= 0 => pe >= 0)
    <2>1. k >= 0 => pk >= 0
      BY <1>4, <1>7
    <2>2. k < 0 => pk <= -p
      <3> SUFFICES ASSUME k < 0 PROVE pk <= -p
        OBVIOUS
      <3> DEFINE c == -(k + 1)
                 pc == p * c
      <3>1. c \in Nat /\ pc \in Nat /\ pk = -pc - p
        BY <1>4, <1>7
      <3> HIDE DEF pc, pk
      <3> QED BY <1>4, <3>1
    <2>3. e >= 0 => pe >= 0
      BY <1>4, <1>7
    <2> QED BY <2>1, <2>2, <2>3
  <1> HIDE DEF y, pk, pe
  <1>9. u = pv + r
    BY <1>6
  <1> HIDE DEF pv
  <1>10. v \in Nat /\ v < d
    <2>1. v \in Nat
      BY <1>6
    <2>2. CASE e >= 0
      BY <1>3, <1>4, <1>6, <1>7, <1>8, <1>9, <2>2
    <2>3. CASE e < 0
      BY <1>4, <2>1, <2>3
    <2> QED BY <1>7, <2>1, <2>2, <2>3
  <1>11. 2 * u >= HalfSize <=> v >= q
    <2>1. CASE v >= q
      <3>1. pk >= 0
        BY <1>4, <1>7, <1>8, <1>10, <2>1
      <3>2. 2 * u >= HalfSize
        BY <1>4, <1>6, <1>7, <1>9, <3>1
      <3> QED BY <2>1, <3>2
    <2>2. CASE ~(v >= q)
      <3>1. pk <= -p
        BY <1>4, <1>7, <1>8, <1>10, <2>2
      <3>2. ~(2 * u >= HalfSize)
        BY <1>4, <1>6, <1>7, <1>9, <3>1
      <3> QED BY <2>2, <3>2
    <2> QED BY <2>1, <2>2
  <1>12. Spread(v, t) = IF v >= q THEN v + m - d ELSE v
    <2>1. v \in 0..(2 ^ (t + 1) - 1)
      BY <1>4, <1>10 DEF d
    <2> QED BY <1>1, <2>1, SpreadValue DEF q, d, m
  <1>13. CASE v >= q
    <2> DEFINE o == -d
    <2>1. Signed32(x) = u + p * o
      <3>1. Signed32(x) = u - HalfSize
        BY <1>5, <1>11, <1>13
      <3>2. p * o = -(p * d) /\ p * d \in Int
        BY <1>4
      <3> QED BY <1>4, <1>6, <3>1, <3>2
    <2>2. o \in Int /\ u \in Int
      BY <1>4, <1>6
    <2> HIDE DEF o
    <2>3. (u + p * o) \div p = u \div p + o
      BY <1>4, <2>2, AddMultiple
    <2>4. Signed32(x) \div p = e
      BY <1>4, <1>10, <2>1, <2>3 DEF o
    <2>5. e \in Int /\ 2 * e >= -d /\ 2 * e < d /\ d <= HalfSize /\ e < 0 /\ -m <= e
          /\ e + m = v + m - d
      <3>1. d <= HalfSize
        <4> DEFINE c == p - 1
                   z == c * d
        <4>1. c \in Nat /\ z \in Nat /\ p * d = d + z /\ d \in Nat
          BY <1>4
        <4> HIDE DEF z
        <4> QED BY <1>4, <4>1
      <3> QED BY <1>4, <1>10, <1>13, <3>1
    <2> HIDE DEF e
    <2>6. Signed32(e) = e
      <3>1. 2 * e >= -HalfSize /\ 2 * e < HalfSize
        BY <1>4, <2>5
      <3> QED BY <2>5, <3>1, Signed32Small
    <2>7. e % m = e + m
      BY <1>4, <2>5, NegativeCut
    <2> QED BY <1>2, <1>12, <1>13, <2>4, <2>5, <2>6, <2>7 DEF m, p
  <1>14. CASE ~(v >= q)
    <2>1. Signed32(x) \div p = v
      BY <1>5, <1>11, <1>14
    <2>2. v \in Int /\ 2 * v < d /\ 2 * v >= 0 /\ d <= HalfSize
      <3>1. d <= HalfSize
        <4> DEFINE c == p - 1
                   z == c * d
        <4>1. c \in Nat /\ z \in Nat /\ p * d = d + z /\ d \in Nat
          BY <1>4
        <4> HIDE DEF z
        <4> QED BY <1>4, <4>1
      <3> QED BY <1>4, <1>10, <1>14, <3>1
    <2> HIDE DEF v
    <2>3. Signed32(v) = v
      <3>1. 2 * v >= -HalfSize /\ 2 * v < HalfSize
        BY <1>4, <2>2
      <3> QED BY <2>2, <3>1, Signed32Small
    <2>4. v % m = v
      <3>1. v < m
        BY <1>4, <1>10, <2>2
      <3> QED BY <1>4, <1>10, <3>1, SmallCut
    <2> QED BY <1>2, <1>12, <1>14, <2>1, <2>3, <2>4 DEF m, p
  <1> QED BY <1>13, <1>14

\* A right shift of an unsigned lower half.
LEMMA ShiftRightManual ==
    ASSUME NEW x \in Word, NEW n \in 0..(XLEN \div 2 - 1)
    PROVE  Fast!ShiftRight32(n, x) = Signed32((x % HalfSize) \div 2 ^ n) % RegSize
  <1> DEFINE u == x % HalfSize
             v == u \div 2 ^ n
  <1>1. Fast!ShiftRight32(n, x) = Spread(v, XLEN \div 2 - 1)
    BY HalfShifts
  <1>2. u \in 0..(HalfSize - 1) /\ HalfSize \in Nat
    BY LowerHalf, Sizes
  <1> HIDE DEF u
  <1>3. v \in 0..(HalfSize - 1)
    <2>1. n \in 0..WIDE
      BY Widths
    <2>2. 2 ^ n \in Nat \ {0} /\ u \in Nat
      BY <1>2, <2>1, PowerStep
    <2>3. v \in 0..u
      BY <2>2, QuotientBound
    <2> QED BY <1>2, <2>3
  <1> HIDE DEF v
  <1>4. Spread(v, XLEN \div 2 - 1) = Signed32(v) % RegSize
    BY <1>3, SpreadHalf
  <1> QED BY <1>1, <1>4 DEF u, v

\* What is masked and sign-extended is what the manual sign-extends, if the
\* lower halves are the same.
LEMMA MaskSame ==
    ASSUME NEW i \in Int, NEW j \in Int, SameCut(i, j, HalfSize)
    PROVE  /\ Fast!mask32Signed64(i % RegSize) = ISA!Sext(j)
           /\ i \in Word => Fast!mask32Signed64(i) = ISA!Sext(j)
  <1>1. Signed32(i) = Signed32(j)
    BY Signed32Same DEF SameCut
  <1>2. ISA!Sext(j) = Signed32(j) % RegSize
    <2>1. 0 \in Word
      BY ConstantWords
    <2> QED BY <2>1, ManualTerms
  <1> QED BY <1>1, <1>2, MaskIsSext

\* The lower half of a register.
LEMMA HalfCut ==
    ASSUME NEW x \in Word
    PROVE  x % HalfSize \in Int /\ x \in Int /\ SameCut(x % HalfSize, x, HalfSize)
  <1>1. x % HalfSize \in 0..(HalfSize - 1) /\ HalfSize \in Nat \ {0} /\ x \in Int
    BY LowerHalf, Sizes, WordNat
  <1> DEFINE u == x % HalfSize
  <1>2. u \in Nat /\ u < HalfSize
    BY <1>1
  <1> HIDE DEF u
  <1>3. u % HalfSize = u
    BY <1>1, <1>2, SmallCut
  <1> QED BY <1>1, <1>3 DEF u, SameCut

\* The values of the 32-bit register instructions.
LEMMA ManualRegister32 ==
    ASSUME NEW x \in Word, NEW y \in Word, NEW n \in 0..(XLEN \div 2 - 1)
    PROVE  /\ Fast!mask32Signed64(Fast!add64(x % HalfSize, y % HalfSize)) = ISA!Sext(x + y)
           /\ Fast!mask32Signed64(Fast!sub64(x % HalfSize, y % HalfSize)) = ISA!Sext(x - y)
           /\ Fast!mask32Signed64(Fast!add64(x, y)) = ISA!Sext(x + y)
           /\ Fast!mask32Signed64(Fast!shl64(n, x)) = ISA!Sext(x * 2 ^ n)
           /\ Fast!ShiftRight32(n, x) = ISA!Sext(ISA!U32(x) \div 2 ^ n)
           /\ Fast!ShiftSigned32(n, x) = ISA!Sext(ISA!S32(x) \div 2 ^ n)
  <1> DEFINE u == x % HalfSize
             v == y % HalfSize
  <1>1. /\ u \in Word /\ v \in Word /\ u \in Int /\ v \in Int /\ x \in Int /\ y \in Int
        /\ SameCut(u, x, HalfSize) /\ SameCut(v, y, HalfSize) /\ HalfSize \in Nat \ {0}
    BY LowerHalf, HalfCut, Sizes
  <1>0. \A i : ISA!S32(i) = Signed32(i) /\ ISA!U32(i) = i % HalfSize /\ ISA!Sext(i) = Signed32(i) % RegSize
    BY ManualTerms
  <1> HIDE DEF u, v
  <1>2. SameCut(u + v, x + y, HalfSize) /\ SameCut(u - v, x - y, HalfSize)
    BY <1>1, CongruentSums
  <1>3. Fast!add64(u, v) = (u + v) % RegSize /\ Fast!sub64(u, v) = (u - v) % RegSize
    BY <1>1, AddSub
  <1>4. /\ u + v \in Int /\ u - v \in Int /\ x + y \in Int /\ x - y \in Int
    BY <1>1
  <1>5. Fast!mask32Signed64((u + v) % RegSize) = ISA!Sext(x + y)
    BY <1>2, <1>4, MaskSame
  <1>6. Fast!mask32Signed64((u - v) % RegSize) = ISA!Sext(x - y)
    BY <1>2, <1>4, MaskSame
  <1>7. Fast!mask32Signed64(Fast!add64(x, y)) = ISA!Sext(x + y)
    <2>1. Fast!add64(x, y) = (x + y) % RegSize
      BY AddSub
    <2>2. SameCut(x + y, x + y, HalfSize)
      BY DEF SameCut
    <2>3. Fast!mask32Signed64((x + y) % RegSize) = ISA!Sext(x + y)
      BY <1>4, <2>2, MaskSame
    <2> QED BY <2>1, <2>3
  <1>8. Fast!mask32Signed64(Fast!shl64(n, x)) = ISA!Sext(x * 2 ^ n)
    <2> DEFINE p == x * 2 ^ n
    <2>1. n \in 0..(XLEN - 1) /\ n \in 0..WIDE
      BY Widths
    <2>2. Fast!shl64(n, x) = p % RegSize
      BY <2>1, Shifts
    <2>3. p \in Int
      <3>1. 2 ^ n \in Nat
        BY <2>1, PowerStep
      <3> QED BY <1>1, <3>1
    <2> HIDE DEF p
    <2>4. SameCut(p, p, HalfSize)
      BY DEF SameCut
    <2>5. Fast!mask32Signed64(p % RegSize) = ISA!Sext(p)
      BY <2>3, <2>4, MaskSame
    <2> QED BY <2>2, <2>5 DEF p
  <1>9. Fast!ShiftRight32(n, x) = ISA!Sext(ISA!U32(x) \div 2 ^ n)
    <2>1. Fast!ShiftRight32(n, x) = Signed32((x % HalfSize) \div 2 ^ n) % RegSize
      BY ShiftRightManual
    <2> QED BY <1>0, <2>1, Zenon
  <1>10. Fast!ShiftSigned32(n, x) = ISA!Sext(ISA!S32(x) \div 2 ^ n)
    <2>1. Fast!ShiftSigned32(n, x) = Signed32(Signed32(x) \div 2 ^ n) % RegSize
      BY ShiftSignedManual
    <2> QED BY <1>0, <2>1, Zenon
  <1>11. /\ Fast!mask32Signed64(Fast!add64(u, v)) = ISA!Sext(x + y)
         /\ Fast!mask32Signed64(Fast!sub64(u, v)) = ISA!Sext(x - y)
    BY <1>3, <1>5, <1>6
  <1> QED BY <1>7, <1>8, <1>9, <1>10, <1>11 DEF u, v

\* Opcode 0x3B without the M extension, and the manual.
LEMMA OpReg32Manual ==
    ASSUME NEW f \in Funct3, NEW g, NEW x \in Word, NEW y \in Word,
           ISA!OpReg32(f, g, x, y) # ISA!Reserved
    PROVE  Fast!OpReg32(f, g, x, y) = ISA!OpReg32(f, g, x, y)
  <1> DEFINE u == x % HalfSize
             v == y % HalfSize
             n == y % (XLEN \div 2)
  <1>1. /\ Fast!and64(x, Fast!u32Mask) = u /\ Fast!and64(y, Fast!u32Mask) = v
        /\ v \in Word
    BY LowerHalf
  <1>2. v % (XLEN \div 2) = n
    BY HalfShamt
  <1>3. /\ Fast!mask32Signed64(Fast!add64(u, v)) = ISA!Sext(x + y)
        /\ Fast!mask32Signed64(Fast!sub64(u, v)) = ISA!Sext(x - y)
        /\ n \in 0..(XLEN \div 2 - 1)
    BY ManualRegister32, HalfAmount
  <1> HIDE DEF u, v
  <1>4. Fast!and64(v, Fast!Half - 1) = n
    BY <1>1, <1>2, HalfAmount
  <1> HIDE DEF n
  <1>5. /\ Fast!mask32Signed64(Fast!shl64(n, x)) = ISA!Sext(x * 2 ^ n)
        /\ Fast!ShiftRight32(n, x) = ISA!Sext(ISA!U32(x) \div 2 ^ n)
        /\ Fast!ShiftSigned32(n, x) = ISA!Sext(ISA!S32(x) \div 2 ^ n)
    BY <1>3, ManualRegister32
  <1>6. n = y % (XLEN \div 2)
    BY DEF n
  <1>7. f \in 0..7
    BY DEF Funct3
  <1>8. CASE f = 0
    BY <1>1, <1>3, <1>8 DEF Fast!OpReg32, ISA!OpReg32, ISA!Reserved
  <1>9. CASE f = 1
    BY <1>1, <1>4, <1>5, <1>6, <1>9 DEF Fast!OpReg32, ISA!OpReg32, ISA!Reserved
  <1>10. CASE f = 5
    BY <1>1, <1>4, <1>5, <1>6, <1>10 DEF Fast!OpReg32, ISA!OpReg32, ISA!Reserved
  <1>11. CASE f \notin {0, 1, 5}
    BY <1>11 DEF ISA!OpReg32, ISA!Reserved
  <1> QED BY <1>8, <1>9, <1>10, <1>11

\* Quotients and remainders of lower halves, by zero too.
LEMMA ManualDivision32 ==
    ASSUME NEW x \in Word, NEW y \in Word,
           NEW u, NEW v, u = x % HalfSize, v = y % HalfSize,
           NEW s, NEW t, s = Fast!mask32Signed64(x), t = Fast!mask32Signed64(v)
    PROVE  /\ (IF v = 0 THEN Fast!u64Mask ELSE Fast!mask32Signed64(Fast!sdiv64(s, t))) =
                ISA!Sext(ISA!Quotient(Signed32(x), Signed32(y)))
           /\ (IF v = 0 THEN Fast!u64Mask ELSE Fast!mask32Signed64(Fast!div64(u, v))) =
                ISA!Sext(ISA!Quotient(u, v))
           /\ (IF v = 0 THEN s ELSE Fast!mask32Signed64(Fast!smod64(s, t))) =
                ISA!Sext(ISA!Remainder(Signed32(x), Signed32(y)))
           /\ (IF v = 0 THEN s ELSE Fast!mask32Signed64(Fast!mod64(u, v))) =
                ISA!Sext(ISA!Remainder(u, v))
  <1> DEFINE sx == Signed32(x)
             sy == Signed32(y)
  <1>1. /\ u \in Word /\ v \in Word /\ u \in Int /\ v \in Int /\ x \in Int /\ y \in Int
        /\ u \in Nat /\ v \in Nat
        /\ SameCut(u, x, HalfSize) /\ SameCut(v, y, HalfSize)
    BY LowerHalf, HalfCut, WordNat
  <1>2. HalfSize \in Nat \ {0} /\ RegSize \in Nat \ {0}
    BY Sizes
  <1>3. /\ sx \in Int /\ sy \in Int /\ -SignBit <= sx /\ sx < SignBit /\ -SignBit <= sy /\ sy < SignBit
        /\ (sy = 0 <=> v = 0) /\ sx % HalfSize = x % HalfSize
    BY <1>1, Signed32Range
  <1>4. s = sx % RegSize /\ t = sy % RegSize
    <2>1. s = sx % RegSize
      BY <1>1, MaskIsSext
    <2>2. t = Signed32(v) % RegSize
      BY <1>1, MaskIsSext
    <2>3. Signed32(v) = sy
      BY <1>1, Signed32Same DEF SameCut
    <2> QED BY <2>1, <2>2, <2>3
  <1>5. SameCut(sx, x, HalfSize)
    BY <1>3 DEF SameCut
  <1> HIDE DEF sx, sy
  <1>6. Signed64(s) = sx /\ Signed64(t) = sy /\ s \in Word /\ t \in Word
    BY <1>3, <1>4, SignedWrap, CutWord
  <1>7. t = 0 <=> v = 0
    BY <1>3, <1>6, ExtendWide
  <1>8. ISA!TowardsZero(sx, sy) = Truncated(sx, sy) /\ ISA!TowardsZero(u, v) = Truncated(u, v)
    BY ManualRounding
  <1>9. CASE v = 0
    <2>1. ISA!Quotient(sx, sy) = -1 /\ ISA!Quotient(u, v) = -1
      BY <1>3, <1>9 DEF ISA!Quotient
    <2>2. ISA!Remainder(sx, sy) = sx /\ ISA!Remainder(u, v) = u
      BY <1>3, <1>9 DEF ISA!Remainder
    <2>3. ISA!Sext(-1) = Fast!u64Mask
      <3>1. Signed32(-1) = -1
        <4>1. 2 <= HalfSize
          BY Sizes
        <4>2. -1 \in Int /\ 2 * (-1) >= -HalfSize /\ 2 * (-1) < HalfSize
          BY <1>2, <4>1
        <4> QED BY <4>2, Signed32Small
      <3>2. ISA!Sext(-1) = Signed32(-1) % RegSize
        BY ManualTerms
      <3> QED BY <3>1, <3>2, MinusOne
    <2>4. s = ISA!Sext(sx) /\ s = ISA!Sext(u)
      <3>1. SameCut(x, sx, HalfSize) /\ SameCut(x, u, HalfSize)
        BY <1>1, <1>5 DEF SameCut
      <3> QED BY <1>1, <1>3, <3>1, MaskSame
    <2> QED BY <1>9, <2>1, <2>2, <2>3, <2>4 DEF sx, sy
  <1>10. CASE v # 0
    <2> DEFINE q == Truncated(sx, sy)
               r == sx - sy * q
               d == u \div v
               m == u % v
    <2>1. ISA!Quotient(sx, sy) = q /\ ISA!Remainder(sx, sy) = r
      BY <1>3, <1>8, <1>10 DEF ISA!Quotient, ISA!Remainder
    <2>2. ISA!Quotient(u, v) = d /\ ISA!Remainder(u, v) = m
      <3>1. Truncated(u, v) = d /\ u - v * Truncated(u, v) = m
        BY <1>1, <1>10, TruncatedNat
      <3> QED BY <1>8, <1>10, <3>1 DEF ISA!Quotient, ISA!Remainder
    <2>3. q \in Int /\ r \in Int
      <3>1. q \in Int
        BY <1>3, <1>10, TruncatedInt
      <3> QED BY <1>3, <3>1
    <2>4. Fast!sdiv64(s, t) = q % RegSize /\ Fast!smod64(s, t) = r % RegSize
      <3>1. t # 0
        BY <1>7, <1>10
      <3> QED BY <1>6, <3>1, SignedDivision
    <2>5. Fast!div64(u, v) = d /\ Fast!mod64(u, v) = m
      BY <1>10 DEF Fast!div64, Fast!mod64
    <2>6. d \in Word /\ m \in Word /\ d \in Int /\ m \in Int
      BY <1>1, <2>5, Unsigned, WordNat
    <2> HIDE DEF q, r, d, m
    <2>7. SameCut(q, q, HalfSize) /\ SameCut(r, r, HalfSize) /\ SameCut(d, d, HalfSize) /\ SameCut(m, m, HalfSize)
      BY DEF SameCut
    <2>8. /\ Fast!mask32Signed64(q % RegSize) = ISA!Sext(q)
          /\ Fast!mask32Signed64(r % RegSize) = ISA!Sext(r)
      BY <2>3, <2>7, MaskSame
    <2>9. Fast!mask32Signed64(d) = ISA!Sext(d) /\ Fast!mask32Signed64(m) = ISA!Sext(m)
      BY <2>6, <2>7, MaskSame
    <2> QED BY <1>10, <2>1, <2>2, <2>4, <2>5, <2>8, <2>9 DEF sx, sy
  <1> QED BY <1>9, <1>10

\* Opcode 0x3B with the M extension.
LEMMA MulDiv32Manual ==
    ASSUME NEW f \in Funct3, NEW x \in Word, NEW y \in Word,
           ISA!MulDiv32(f, x, y) # ISA!Reserved
    PROVE  Fast!MulDiv32(f, x, y) = ISA!MulDiv32(f, x, y)
  <1> DEFINE u == x % HalfSize
             v == y % HalfSize
             s == Fast!mask32Signed64(x)
             t == Fast!mask32Signed64(v)
  <1>1. /\ Fast!and64(x, Fast!u32Mask) = u /\ Fast!and64(y, Fast!u32Mask) = v
        /\ u \in Word /\ v \in Word
    BY LowerHalf
  <1>2. /\ (IF v = 0 THEN Fast!u64Mask ELSE Fast!mask32Signed64(Fast!sdiv64(s, t))) =
             ISA!Sext(ISA!Quotient(Signed32(x), Signed32(y)))
        /\ (IF v = 0 THEN Fast!u64Mask ELSE Fast!mask32Signed64(Fast!div64(u, v))) =
             ISA!Sext(ISA!Quotient(u, v))
        /\ (IF v = 0 THEN s ELSE Fast!mask32Signed64(Fast!smod64(s, t))) =
             ISA!Sext(ISA!Remainder(Signed32(x), Signed32(y)))
        /\ (IF v = 0 THEN s ELSE Fast!mask32Signed64(Fast!mod64(u, v))) =
             ISA!Sext(ISA!Remainder(u, v))
    BY ManualDivision32
  <1>3. /\ ISA!S32(x) = Signed32(x) /\ ISA!S32(y) = Signed32(y) /\ ISA!U32(x) = u /\ ISA!U32(y) = v
    BY ManualTerms
  <1>4. Fast!mask32Signed64(Fast!mul64(u, v)) = ISA!Sext(x * y)
    <2> DEFINE P == u * v
               Q == x * y
    <2>1. /\ u \in Int /\ v \in Int /\ x \in Int /\ y \in Int
          /\ SameCut(u, x, HalfSize) /\ SameCut(v, y, HalfSize) /\ HalfSize \in Nat \ {0}
      BY HalfCut, Sizes
    <2>2. Fast!mul64(u, v) = P % RegSize
      BY <1>1, Products
    <2> HIDE DEF u, v
    <2>3. IsProduct(P, u, v) /\ IsProduct(Q, x, y)
      BY DEF IsProduct
    <2>4. P \in Int /\ Q \in Int
      BY <2>1
    <2> HIDE DEF P, Q
    <2>5. SameCut(P, Q, HalfSize)
      BY <2>1, <2>3, CongruentProduct
    <2>6. Fast!mask32Signed64(P % RegSize) = ISA!Sext(Q)
      BY <2>4, <2>5, MaskSame
    <2> QED BY <2>2, <2>6 DEF Q
  <1>5. s = Fast!mask32Signed64(x) /\ t = Fast!mask32Signed64(v)
    OBVIOUS
  <1> HIDE DEF u, v, s, t
  <1>6. f \in 0..7
    BY DEF Funct3
  <1>7. CASE f = 0
    BY <1>1, <1>4, <1>7 DEF Fast!MulDiv32, ISA!MulDiv32
  <1>8. CASE f = 4
    BY <1>1, <1>2, <1>3, <1>5, <1>8 DEF Fast!MulDiv32, ISA!MulDiv32
  <1>9. CASE f = 5
    BY <1>1, <1>2, <1>3, <1>5, <1>9 DEF Fast!MulDiv32, ISA!MulDiv32
  <1>10. CASE f = 6
    BY <1>1, <1>2, <1>3, <1>5, <1>10 DEF Fast!MulDiv32, ISA!MulDiv32
  <1>11. CASE f = 7
    BY <1>1, <1>2, <1>3, <1>5, <1>11 DEF Fast!MulDiv32, ISA!MulDiv32
  <1>12. CASE f \notin {0, 4, 5, 6, 7}
    BY <1>12 DEF ISA!MulDiv32, ISA!Reserved
  <1> QED BY <1>7, <1>8, <1>9, <1>10, <1>11, <1>12

\* Bit 5 of a shift amount, and what is left of it without.
LEMMA ShamtBit ==
    ASSUME NEW y \in Word
    PROVE  /\ (Fast!and64(y, Fast!Half) # 0) <=> (y % XLEN >= XLEN \div 2)
  <1>1. PICK k \in 1..XLEN : XLEN = 2 ^ k /\ XLEN \div 2 = 2 ^ (k - 1)
    BY Widths
  <1>2. k - 1 \in 0..(WIDE - 1) /\ (k - 1) + 1 = k
    BY Widths
  <1>3. y \in Nat /\ XLEN \div 2 \in Word
    BY WordNat, ConstantWords
  <1>4. Fast!and64(y, Fast!Half) = and(y, XLEN \div 2)
    BY <1>3, BitwiseOps DEF Fast!Half
  <1> DEFINE j == k - 1
  <1>5. j \in 0..(WIDE - 1) /\ j + 1 = k /\ XLEN \div 2 = 2 ^ j
    BY <1>1, <1>2
  <1> HIDE DEF j
  <1>6. and(y, 2 ^ j) = 0 <=> j \notin Ones(y)
    BY <1>3, <1>5, AndBit
  <1>7. j \in Ones(y) <=> y % 2 ^ (j + 1) >= 2 ^ j
    BY <1>3, <1>5, BitOf
  <1>8. 2 ^ (j + 1) = XLEN
    BY <1>1, <1>5
  <1>9. j \in Ones(y) <=> y % XLEN >= XLEN \div 2
    BY <1>5, <1>7, <1>8, Zenon
  <1>10. and(y, XLEN \div 2) = 0 <=> j \notin Ones(y)
    BY <1>5, <1>6, Zenon
  <1> QED BY <1>4, <1>9, <1>10, Zenon

\* Opcode 0x1B and the manual.
LEMMA OpImm32Manual ==
    ASSUME NEW f \in Funct3, NEW top \in Top, NEW x \in Word, NEW y \in Word,
           ISA!OpImm32(f, top, x, y) # ISA!Reserved
    PROVE  Fast!OpImm32(f, top, x, y) = ISA!OpImm32(f, top, x, y)
  <1> DEFINE n == y % (XLEN \div 2)
             res == Fast!and64(y, Fast!Half) # 0
             g == ISA!Funct7(f, top)
  <1>1. f \in {1, 5} => ~res
    <2>1. f \in {1, 5} => ~(y % XLEN >= XLEN \div 2)
      BY Zenon DEF ISA!OpImm32
    <2> QED BY <2>1, ShamtBit
  <1>2. ISA!OpImm32(f, top, x, y) = ISA!OpReg32(f, g, x, y) /\ ISA!OpReg32(f, g, x, y) # ISA!Reserved
    BY Zenon DEF ISA!OpImm32
  <1>3. Fast!and64(y, Fast!Half - 1) = n /\ n \in 0..(XLEN \div 2 - 1)
    BY HalfAmount
  <1>4. n = y % (XLEN \div 2)
    OBVIOUS
  <1>5. res = (Fast!and64(y, Fast!Half) # 0)
    OBVIOUS
  <1>6. Fast!mask32Signed64(Fast!add64(x, y)) = ISA!Sext(x + y)
    BY <1>3, ManualRegister32
  <1> HIDE DEF n, res
  <1>7. /\ Fast!mask32Signed64(Fast!shl64(n, x)) = ISA!Sext(x * 2 ^ n)
        /\ Fast!ShiftRight32(n, x) = ISA!Sext(ISA!U32(x) \div 2 ^ n)
        /\ Fast!ShiftSigned32(n, x) = ISA!Sext(ISA!S32(x) \div 2 ^ n)
    BY <1>3, ManualRegister32
  <1>8. g = (IF f \notin {1, 5} \/ top = "logical" THEN 0 ELSE IF top = "arithmetic" THEN 32 ELSE 64)
    BY DEF ISA!Funct7
  <1> HIDE DEF g
  <1>9. f \in 0..7
    BY DEF Funct3
  <1>10. top \in {"logical", "arithmetic", "reserved"}
    BY DEF Top
  <1>11. CASE f = 0
    BY <1>2, <1>6, <1>8, <1>11 DEF Fast!OpImm32, ISA!OpReg32
  <1>12. CASE f = 1
    <2>1. ~(Fast!and64(y, Fast!Half) # 0)
      BY <1>1, <1>5, <1>12
    <2> QED BY <1>2, <1>3, <1>4, <1>7, <1>8, <1>10, <1>12, <2>1 DEF Fast!OpImm32, ISA!OpReg32, ISA!Reserved
  <1>13. CASE f = 5
    <2>1. ~(Fast!and64(y, Fast!Half) # 0)
      BY <1>1, <1>5, <1>13
    <2> QED BY <1>2, <1>3, <1>4, <1>7, <1>8, <1>10, <1>13, <2>1 DEF Fast!OpImm32, ISA!OpReg32, ISA!Reserved
  <1>14. CASE f \notin {0, 1, 5}
    BY <1>2, <1>14 DEF ISA!OpReg32, ISA!Reserved
  <1> QED BY <1>11, <1>12, <1>13, <1>14

-----------------------------------------------------------------------------
(* The atomic operations and the manual.                                   *)

\* A sign-extended lower half: its reading, its own lower half, and its order
\* as an unsigned register.
LEMMA SignedHalf ==
    ASSUME NEW x \in Word, NEW y \in Word,
           NEW v, NEW w, v = Signed32(x) % RegSize, w = Signed32(y) % RegSize
    PROVE  /\ v \in Word /\ w \in Word
           /\ Signed64(v) = Signed32(x) /\ Signed64(w) = Signed32(y)
           /\ SameCut(v, x, HalfSize) /\ SameCut(w, y, HalfSize)
           /\ (v < w) <=> (x % HalfSize < y % HalfSize)
  <1> DEFINE u == x % HalfSize
             t == y % HalfSize
             sx == Signed32(x)
             sy == Signed32(y)
  <1>1. x \in Int /\ y \in Int /\ u \in 0..(HalfSize - 1) /\ t \in 0..(HalfSize - 1)
    BY WordNat, LowerHalf
  <1>2. /\ HalfSize \in Nat \ {0} /\ RegSize \in Nat \ {0} /\ SignBit \in Nat \ {0}
        /\ 2 * HalfSize <= RegSize
    BY Sizes
  <1>3. /\ sx \in Int /\ -SignBit <= sx /\ sx < SignBit /\ sx % HalfSize = u
        /\ sy \in Int /\ -SignBit <= sy /\ sy < SignBit /\ sy % HalfSize = t
    BY <1>1, Signed32Range
  <1>4. /\ sx = IF 2 * u >= HalfSize THEN u - HalfSize ELSE u
        /\ sy = IF 2 * t >= HalfSize THEN t - HalfSize ELSE t
    BY DEF Signed32
  <1>5. XLEN \div 2 \in 0..WIDE /\ XLEN \in (XLEN \div 2)..WIDE
    BY Widths
  <1> HIDE DEF sx, sy
  <1>6. (sx % RegSize) % HalfSize = sx % HalfSize /\ (sy % RegSize) % HalfSize = sy % HalfSize
    BY <1>3, <1>5, RemainderTwice DEF RegSize, HalfSize
  <1>7. SameCut(v, x, HalfSize) /\ SameCut(w, y, HalfSize)
    BY <1>3, <1>6 DEF SameCut, sx, sy
  <1> HIDE DEF u, t
  <1>8. v = IF 2 * u >= HalfSize THEN u - HalfSize + RegSize ELSE u
    <2>1. CASE 2 * u >= HalfSize
      <3>1. sx < 0 /\ -RegSize <= sx
        BY <1>1, <1>2, <1>4, <2>1
      <3>2. sx % RegSize = sx + RegSize
        BY <1>2, <1>3, <3>1, NegativeCut
      <3> QED BY <1>1, <1>2, <1>4, <2>1, <3>2 DEF sx
    <2>2. CASE ~(2 * u >= HalfSize)
      <3>1. sx \in Nat /\ sx < RegSize
        BY <1>1, <1>2, <1>4, <2>2
      <3>2. sx % RegSize = sx
        BY <1>2, <3>1, SmallCut
      <3> QED BY <1>4, <2>2, <3>2 DEF sx
    <2> QED BY <2>1, <2>2
  <1>9. w = IF 2 * t >= HalfSize THEN t - HalfSize + RegSize ELSE t
    <2>1. CASE 2 * t >= HalfSize
      <3>1. sy < 0 /\ -RegSize <= sy
        BY <1>1, <1>2, <1>4, <2>1
      <3>2. sy % RegSize = sy + RegSize
        BY <1>2, <1>3, <3>1, NegativeCut
      <3> QED BY <1>1, <1>2, <1>4, <2>1, <3>2 DEF sy
    <2>2. CASE ~(2 * t >= HalfSize)
      <3>1. sy \in Nat /\ sy < RegSize
        BY <1>1, <1>2, <1>4, <2>2
      <3>2. sy % RegSize = sy
        BY <1>2, <3>1, SmallCut
      <3> QED BY <1>4, <2>2, <3>2 DEF sy
    <2> QED BY <2>1, <2>2
  <1>10. v < w <=> u < t
    BY <1>1, <1>2, <1>8, <1>9
  <1>11. v \in Word /\ w \in Word /\ Signed64(v) = sx /\ Signed64(w) = sy
    BY <1>3, SignedWrap, CutWord DEF sx, sy
  <1> QED BY <1>7, <1>10, <1>11 DEF u, t, sx, sy

\* A 32-bit operation writes the lower half of the word.
LEMMA AmoHalf ==
    ASSUME NEW op, NEW x \in Word, NEW y \in Word, NEW nf, NEW ni,
           nf = Fast!AmoResult(op, Signed32(x) % RegSize, Signed32(y) % RegSize),
           nf \in Word, SameCut(nf, ni, HalfSize),
           ISA!Amo(op, TRUE, x, y) =
             [rd |-> ISA!Wrap(ISA!S32(x)), cell |-> x - ISA!U32(x) + ISA!U32(ni)]
    PROVE  Fast!Amo(op, TRUE, x, y) = ISA!Amo(op, TRUE, x, y)
  <1> DEFINE u == x % HalfSize
             l == nf % HalfSize
             v == Signed32(x) % RegSize
             w == Signed32(y) % RegSize
             k == RegSize - HalfSize
  <1>1. /\ Fast!and64(x, Fast!u32Mask) = u /\ u \in Word /\ x \in Int /\ y \in Int
        /\ Fast!and64(nf, Fast!u32Mask) = l /\ l \in 0..(HalfSize - 1) /\ l \in Word
    BY LowerHalf, WordNat
  <1>2. Fast!mask32Signed64(x) = v /\ Fast!mask32Signed64(y) = w
    BY <1>1, MaskIsSext
  <1>3. Fast!mask32Signed64(x) = Fast!signExtend64(u, Fast!Half - 1)
    BY <1>1 DEF Fast!mask32Signed64, Fast!Half
  <1>4. Fast!not64(Fast!u32Mask) = k
    BY Constants, Sizes DEF Fast!not64
  <1>5. k \in Word
    BY Ranges, Sizes
  <1> DEFINE c == and(x, k)
  <1>6. Fast!and64(x, k) = c /\ c \in Word
    BY <1>5, BitwiseOps
  <1>7. Fast!or64(c, l) = or(c, l)
    BY <1>1, <1>6, BitwiseOps
  <1>8. or(c, l) = x - u + l
    <2>1. XLEN \in 0..WIDE /\ XLEN \div 2 \in 0..XLEN
      BY Widths
    <2>2. x \in 0..(2 ^ XLEN - 1) /\ l \in 0..(2 ^ (XLEN \div 2) - 1)
      BY <1>1 DEF Word, HalfSize
    <2> HIDE DEF l
    <2>3. or(and(x, 2 ^ XLEN - 2 ^ (XLEN \div 2)), l) = x - (x % 2 ^ (XLEN \div 2)) + l
      BY <2>1, <2>2, Merge
    <2> QED BY <2>3 DEF RegSize, HalfSize
  <1>9. nf # Fast!Illegal
    BY WordNat DEF Fast!Illegal
  <1>10. nf = Fast!AmoResult(op, v, w)
    OBVIOUS
  <1>11. ISA!U32(ni) = l /\ ISA!U32(x) = u /\ ISA!Wrap(ISA!S32(x)) = v
    <2>1. ISA!U32(ni) = ni % HalfSize /\ ISA!U32(x) = u /\ ISA!Wrap(ISA!S32(x)) = v
      BY ManualTerms
    <2> QED BY <2>1 DEF SameCut
  <1> HIDE DEF u, l, v, w, k
  <1>12. Fast!or64(Fast!and64(x, Fast!not64(Fast!u32Mask)), Fast!and64(nf, Fast!u32Mask)) = x - u + l
    BY <1>1, <1>4, <1>6, <1>7, <1>8
  <1>13. Fast!Amo(op, TRUE, x, y) = [rd |-> v, cell |-> x - u + l]
    BY <1>1, <1>2, <1>3, <1>9, <1>10, <1>12 DEF Fast!Amo
  <1> QED BY <1>11, <1>13

\* A 64-bit one writes all of it.
LEMMA AmoFull ==
    ASSUME NEW op, NEW x \in Word, NEW y \in Word, NEW ni,
           Fast!AmoResult(op, x, y) = ni % RegSize, ni \in Int,
           ISA!Amo(op, FALSE, x, y) = [rd |-> ISA!Wrap(ISA!S(x)), cell |-> ISA!Wrap(ni)]
    PROVE  Fast!Amo(op, FALSE, x, y) = ISA!Amo(op, FALSE, x, y)
  <1>1. ISA!Wrap(ISA!S(x)) = x /\ ISA!Wrap(ni) = ni % RegSize
    BY ManualTerms, WrapSigned
  <1>2. ni % RegSize \in Word
    BY CutWord
  <1>3. ni % RegSize # Fast!Illegal
    BY <1>2, WordNat DEF Fast!Illegal
  <1>4. Fast!Amo(op, FALSE, x, y) = [rd |-> x, cell |-> ni % RegSize]
    BY <1>3 DEF Fast!Amo
  <1> QED BY <1>1, <1>4

\* The manual's bitwise operations, as an AMO refers to them.
LEMMA ManualOps ==
    ASSUME NEW x \in Word, NEW y \in Word
    PROVE  /\ ISA!OpReg(4, 0, x, y) = xor(x, y)
           /\ ISA!OpReg(6, 0, x, y) = or(x, y)
           /\ ISA!OpReg(7, 0, x, y) = and(x, y)
  <1> DEFINE A1 == ISA!Bits(x) \intersect ISA!Bits(y)
             A2 == ISA!Bits(x) \union ISA!Bits(y)
             A3 == (ISA!Bits(x) \union ISA!Bits(y)) \ (ISA!Bits(x) \intersect ISA!Bits(y))
  <1>1. ISA!FromBits(A1) = and(x, y) /\ ISA!FromBits(A2) = or(x, y) /\ ISA!FromBits(A3) = xor(x, y)
    BY ManualBitwise, Zenon
  <1>2. ISA!OpReg(4, 0, x, y) = ISA!FromBits(A3)
    BY DEF ISA!OpReg
  <1>3. ISA!OpReg(6, 0, x, y) = ISA!FromBits(A2)
    BY DEF ISA!OpReg
  <1>4. ISA!OpReg(7, 0, x, y) = ISA!FromBits(A1)
    BY DEF ISA!OpReg
  <1> QED BY <1>1, <1>2, <1>3, <1>4

\* Comparisons, where the code tests them against zero.
LEMMA Tests ==
    ASSUME NEW x \in Word, NEW y \in Word
    PROVE  /\ (Fast!slt64(y, x) # 0) <=> (Signed64(y) < Signed64(x))
           /\ (Fast!sgt64(y, x) # 0) <=> (Signed64(y) > Signed64(x))
           /\ (Fast!lt64(y, x) # 0) <=> (y < x)
           /\ (Fast!gt64(y, x) # 0) <=> (y > x)
  <1>1. /\ Fast!lt64(y, x) = Flag(y < x) /\ Fast!gt64(y, x) = Flag(y > x)
        /\ Fast!slt64(y, x) = Flag(Signed64(y) < Signed64(x))
        /\ Fast!sgt64(y, x) = Flag(Signed64(y) > Signed64(x))
    BY Comparisons
  <1> QED BY ONLY <1>1, SMT DEF Flag

\* Opcode 0x2F on lower halves.
LEMMA AmoManual32 ==
    ASSUME NEW op \in AmoOp \ {"unknown"}, NEW x \in Word, NEW y \in Word
    PROVE  Fast!Amo(op, TRUE, x, y) = ISA!Amo(op, TRUE, x, y)
  <1> DEFINE v == Signed32(x) % RegSize
             w == Signed32(y) % RegSize
             nf == Fast!AmoResult(op, v, w)
             Cell(ni) == [rd |-> ISA!Wrap(ISA!S32(x)), cell |-> x - ISA!U32(x) + ISA!U32(ni)]
  <1>1. /\ v \in Word /\ w \in Word /\ SameCut(v, x, HalfSize) /\ SameCut(w, y, HalfSize)
        /\ Signed64(v) = Signed32(x) /\ Signed64(w) = Signed32(y)
        /\ (v < w) <=> (x % HalfSize < y % HalfSize)
    BY SignedHalf
  <1>2. (w < v) <=> (y % HalfSize < x % HalfSize)
    BY SignedHalf
  <1>3. /\ ISA!S32(x) = Signed32(x) /\ ISA!S32(y) = Signed32(y)
        /\ ISA!U32(x) = x % HalfSize /\ ISA!U32(y) = y % HalfSize
    BY ManualTerms
  <1>4. /\ x \in Int /\ y \in Int /\ x \in Nat /\ y \in Nat
        /\ HalfSize \in Nat \ {0} /\ RegSize \in Nat \ {0}
    BY WordNat, Sizes
  <1>5. x % HalfSize \in Int /\ y % HalfSize \in Int /\ Signed32(x) \in Int /\ Signed32(y) \in Int
    BY <1>4, HalfCut, Signed32Range
  <1>6. ASSUME NEW ni, nf \in Word, SameCut(nf, ni, HalfSize), ISA!Amo(op, TRUE, x, y) = Cell(ni)
        PROVE  Fast!Amo(op, TRUE, x, y) = ISA!Amo(op, TRUE, x, y)
    BY <1>6, AmoHalf
  <1> HIDE DEF v, w
  <1>7. v \in Int /\ w \in Int /\ v \in Nat /\ w \in Nat
    BY <1>1, WordNat
  <1>8. /\ (Fast!slt64(w, v) # 0) <=> (Signed32(y) < Signed32(x))
        /\ (Fast!sgt64(w, v) # 0) <=> (Signed32(y) > Signed32(x))
        /\ (Fast!lt64(w, v) # 0) <=> (w < v)
        /\ (Fast!gt64(w, v) # 0) <=> (w > v)
    BY <1>1, Tests
  <1>9. (w > v) <=> (v < w)
    BY <1>7
  <1>10. CASE op = "add"
    <2> DEFINE p == v + w
    <2>1. nf = p % RegSize
      <3>1. nf = Fast!add64(v, w)
        BY <1>10 DEF Fast!AmoResult
      <3> QED BY <1>1, <3>1, AddSub
    <2>2. SameCut(p, x + y, HalfSize)
      BY <1>1, <1>4, <1>7, CongruentSums
    <2>3. p \in Int
      BY <1>7
    <2> HIDE DEF p
    <2>4. nf \in Word /\ (p % RegSize) % HalfSize = p % HalfSize
      <3>1. XLEN \div 2 \in 0..WIDE /\ XLEN \in (XLEN \div 2)..WIDE
        BY Widths
      <3> QED BY <2>1, <2>3, <3>1, CutWord, RemainderTwice DEF RegSize, HalfSize
    <2>5. SameCut(nf, x + y, HalfSize)
      BY <2>1, <2>2, <2>4 DEF SameCut
    <2>6. ISA!Amo(op, TRUE, x, y) = Cell(x + y)
      BY <1>10 DEF ISA!Amo
    <2> QED BY <1>6, <2>4, <2>5, <2>6
  <1>11. CASE op = "swap"
    <2>1. nf = w
      BY <1>11 DEF Fast!AmoResult
    <2>2. ISA!Amo(op, TRUE, x, y) = Cell(y)
      BY <1>11 DEF ISA!Amo
    <2> QED BY <1>1, <1>6, <2>1, <2>2
  <1>12. /\ and(v, w) % HalfSize = and(x, y) % HalfSize
         /\ or(v, w) % HalfSize = or(x, y) % HalfSize
         /\ xor(v, w) % HalfSize = xor(x, y) % HalfSize
    <2>1. v % HalfSize = x % HalfSize /\ w % HalfSize = y % HalfSize
      BY <1>1 DEF SameCut
    <2>2. XLEN \div 2 \in 0..WIDE
      BY Widths
    <2> DEFINE k == XLEN \div 2
    <2>3. v % 2 ^ k = x % 2 ^ k /\ w % 2 ^ k = y % 2 ^ k
      BY <2>1 DEF HalfSize
    <2>4. k \in 0..WIDE
      BY <2>2
    <2> HIDE DEF k
    <2>5. /\ and(v, w) % 2 ^ k = and(x, y) % 2 ^ k
          /\ or(v, w) % 2 ^ k = or(x, y) % 2 ^ k
          /\ xor(v, w) % 2 ^ k = xor(x, y) % 2 ^ k
      BY <1>4, <1>7, <2>3, <2>4, LowOps
    <2> QED BY <2>5 DEF HalfSize, k
  <1>13. /\ Fast!and64(v, w) = and(v, w) /\ Fast!or64(v, w) = or(v, w)
         /\ Fast!xor64(v, w) = xor(v, w) /\ and(v, w) \in Word /\ or(v, w) \in Word
         /\ xor(v, w) \in Word
    BY <1>1, BitwiseOps
  <1>14. CASE op = "xor"
    <2>1. nf = xor(v, w)
      BY <1>13, <1>14 DEF Fast!AmoResult
    <2>2. ISA!Amo(op, TRUE, x, y) = Cell(ISA!OpReg(4, 0, x, y))
      BY <1>14 DEF ISA!Amo
    <2>3. SameCut(nf, ISA!OpReg(4, 0, x, y), HalfSize)
      BY <1>12, <2>1, ManualOps DEF SameCut
    <2> QED BY <1>6, <1>13, <2>1, <2>2, <2>3
  <1>15. CASE op = "or"
    <2>1. nf = or(v, w)
      BY <1>13, <1>15 DEF Fast!AmoResult
    <2>2. ISA!Amo(op, TRUE, x, y) = Cell(ISA!OpReg(6, 0, x, y))
      BY <1>15 DEF ISA!Amo
    <2>3. SameCut(nf, ISA!OpReg(6, 0, x, y), HalfSize)
      BY <1>12, <2>1, ManualOps DEF SameCut
    <2> QED BY <1>6, <1>13, <2>1, <2>2, <2>3
  <1>16. CASE op = "and"
    <2>1. nf = and(v, w)
      BY <1>13, <1>16 DEF Fast!AmoResult
    <2>2. ISA!Amo(op, TRUE, x, y) = Cell(ISA!OpReg(7, 0, x, y))
      BY <1>16 DEF ISA!Amo
    <2>3. SameCut(nf, ISA!OpReg(7, 0, x, y), HalfSize)
      BY <1>12, <2>1, ManualOps DEF SameCut
    <2> QED BY <1>6, <1>13, <2>1, <2>2, <2>3
  <1>17. CASE op = "min"
    <2> DEFINE first == Signed32(x) <= Signed32(y)
               ni == IF first THEN x ELSE y
    <2>1. nf = IF first THEN v ELSE w
      <3>1. nf = IF Fast!slt64(w, v) # 0 THEN w ELSE v
        BY <1>17 DEF Fast!AmoResult
      <3>2. (Fast!slt64(w, v) # 0) <=> ~first
        BY <1>2, <1>1, <1>5, <1>8, <1>9
      <3> QED BY <3>1, <3>2
    <2>2. ISA!Amo(op, TRUE, x, y) = Cell(ni)
      <3>1. first <=> ISA!S32(x) <= ISA!S32(y)
        BY <1>3
      <3>2. ISA!Amo(op, TRUE, x, y) = Cell(IF ISA!S32(x) <= ISA!S32(y) THEN x ELSE y)
        BY <1>17 DEF ISA!Amo
      <3> HIDE DEF first
      <3> QED BY <3>1, <3>2
    <2>3. nf \in Word /\ SameCut(nf, ni, HalfSize)
      <3> HIDE DEF first
      <3> QED BY <1>1, <2>1
    <2> HIDE DEF ni
    <2> QED BY <1>6, <2>2, <2>3
  <1>18. CASE op = "max"
    <2> DEFINE first == Signed32(x) >= Signed32(y)
               ni == IF first THEN x ELSE y
    <2>1. nf = IF first THEN v ELSE w
      <3>1. nf = IF Fast!sgt64(w, v) # 0 THEN w ELSE v
        BY <1>18 DEF Fast!AmoResult
      <3>2. (Fast!sgt64(w, v) # 0) <=> ~first
        BY <1>2, <1>1, <1>5, <1>8, <1>9
      <3> QED BY <3>1, <3>2
    <2>2. ISA!Amo(op, TRUE, x, y) = Cell(ni)
      <3>1. first <=> ISA!S32(x) >= ISA!S32(y)
        BY <1>3
      <3>2. ISA!Amo(op, TRUE, x, y) = Cell(IF ISA!S32(x) >= ISA!S32(y) THEN x ELSE y)
        BY <1>18 DEF ISA!Amo
      <3> HIDE DEF first
      <3> QED BY <3>1, <3>2
    <2>3. nf \in Word /\ SameCut(nf, ni, HalfSize)
      <3> HIDE DEF first
      <3> QED BY <1>1, <2>1
    <2> HIDE DEF ni
    <2> QED BY <1>6, <2>2, <2>3
  <1>19. CASE op = "minu"
    <2> DEFINE first == x % HalfSize <= y % HalfSize
               ni == IF first THEN x ELSE y
    <2>1. nf = IF first THEN v ELSE w
      <3>1. nf = IF Fast!lt64(w, v) # 0 THEN w ELSE v
        BY <1>19 DEF Fast!AmoResult
      <3>2. (Fast!lt64(w, v) # 0) <=> ~first
        BY <1>2, <1>1, <1>5, <1>8, <1>9
      <3> QED BY <3>1, <3>2
    <2>2. ISA!Amo(op, TRUE, x, y) = Cell(ni)
      <3>1. first <=> ISA!U32(x) <= ISA!U32(y)
        BY <1>3
      <3>2. ISA!Amo(op, TRUE, x, y) = Cell(IF ISA!U32(x) <= ISA!U32(y) THEN x ELSE y)
        BY <1>19 DEF ISA!Amo
      <3> HIDE DEF first
      <3> QED BY <3>1, <3>2
    <2>3. nf \in Word /\ SameCut(nf, ni, HalfSize)
      <3> HIDE DEF first
      <3> QED BY <1>1, <2>1
    <2> HIDE DEF ni
    <2> QED BY <1>6, <2>2, <2>3
  <1>20. CASE op = "maxu"
    <2> DEFINE first == x % HalfSize >= y % HalfSize
               ni == IF first THEN x ELSE y
    <2>1. nf = IF first THEN v ELSE w
      <3>1. nf = IF Fast!gt64(w, v) # 0 THEN w ELSE v
        BY <1>20 DEF Fast!AmoResult
      <3>2. (Fast!gt64(w, v) # 0) <=> ~first
        BY <1>2, <1>1, <1>5, <1>8, <1>9
      <3> QED BY <3>1, <3>2
    <2>2. ISA!Amo(op, TRUE, x, y) = Cell(ni)
      <3>1. first <=> ISA!U32(x) >= ISA!U32(y)
        BY <1>3
      <3>2. ISA!Amo(op, TRUE, x, y) = Cell(IF ISA!U32(x) >= ISA!U32(y) THEN x ELSE y)
        BY <1>20 DEF ISA!Amo
      <3> HIDE DEF first
      <3> QED BY <3>1, <3>2
    <2>3. nf \in Word /\ SameCut(nf, ni, HalfSize)
      <3> HIDE DEF first
      <3> QED BY <1>1, <2>1
    <2> HIDE DEF ni
    <2> QED BY <1>6, <2>2, <2>3
  <1> QED BY <1>10, <1>11, <1>14, <1>15, <1>16, <1>17, <1>18, <1>19, <1>20 DEF AmoOp

\* Opcode 0x2F on whole words.
LEMMA AmoManual64 ==
    ASSUME NEW op \in AmoOp \ {"unknown"}, NEW x \in Word, NEW y \in Word
    PROVE  Fast!Amo(op, FALSE, x, y) = ISA!Amo(op, FALSE, x, y)
  <1> DEFINE nf == Fast!AmoResult(op, x, y)
             Cell(ni) == [rd |-> ISA!Wrap(ISA!S(x)), cell |-> ISA!Wrap(ni)]
  <1>1. x \in Int /\ y \in Int /\ Signed64(x) \in Int /\ Signed64(y) \in Int
    BY WordNat, ExtendWide
  <1>2. ISA!S(x) = Signed64(x) /\ ISA!S(y) = Signed64(y)
    BY ManualTerms
  <1>3. ASSUME NEW ni \in Int, nf = ni % RegSize, ISA!Amo(op, FALSE, x, y) = Cell(ni)
        PROVE  Fast!Amo(op, FALSE, x, y) = ISA!Amo(op, FALSE, x, y)
    BY <1>3, AmoFull
  <1>4. ASSUME NEW ni \in Word, nf = ni, ISA!Amo(op, FALSE, x, y) = Cell(ni)
        PROVE  Fast!Amo(op, FALSE, x, y) = ISA!Amo(op, FALSE, x, y)
    <2>1. ni \in Int /\ ni % RegSize = ni
      BY WordNat, CutWord
    <2> QED BY <1>3, <1>4, <2>1
  <1>5. /\ (Fast!slt64(y, x) # 0) <=> (Signed64(y) < Signed64(x))
        /\ (Fast!sgt64(y, x) # 0) <=> (Signed64(y) > Signed64(x))
        /\ (Fast!lt64(y, x) # 0) <=> (y < x)
        /\ (Fast!gt64(y, x) # 0) <=> (y > x)
    BY Tests
  <1>6. /\ Fast!and64(x, y) = and(x, y) /\ Fast!or64(x, y) = or(x, y)
        /\ Fast!xor64(x, y) = xor(x, y) /\ and(x, y) \in Word /\ or(x, y) \in Word
        /\ xor(x, y) \in Word
    BY BitwiseOps
  <1>7. CASE op = "add"
    <2>1. nf = (x + y) % RegSize
      <3>1. nf = Fast!add64(x, y)
        BY <1>7 DEF Fast!AmoResult
      <3> QED BY <3>1, AddSub
    <2>2. ISA!Amo(op, FALSE, x, y) = Cell(x + y)
      BY <1>7 DEF ISA!Amo
    <2>3. x + y \in Int
      BY <1>1
    <2> QED BY <1>3, <2>1, <2>2, <2>3
  <1>8. CASE op = "swap"
    <2>1. nf = y
      BY <1>8 DEF Fast!AmoResult
    <2>2. ISA!Amo(op, FALSE, x, y) = Cell(y)
      BY <1>8 DEF ISA!Amo
    <2> QED BY <1>4, <2>1, <2>2
  <1>9. CASE op = "xor"
    <2>1. nf = xor(x, y)
      BY <1>6, <1>9 DEF Fast!AmoResult
    <2>2. ISA!Amo(op, FALSE, x, y) = Cell(ISA!OpReg(4, 0, x, y))
      BY <1>9 DEF ISA!Amo
    <2>3. ISA!OpReg(4, 0, x, y) = xor(x, y)
      BY ManualOps
    <2> QED BY <1>4, <1>6, <2>1, <2>2, <2>3
  <1>10. CASE op = "or"
    <2>1. nf = or(x, y)
      BY <1>6, <1>10 DEF Fast!AmoResult
    <2>2. ISA!Amo(op, FALSE, x, y) = Cell(ISA!OpReg(6, 0, x, y))
      BY <1>10 DEF ISA!Amo
    <2>3. ISA!OpReg(6, 0, x, y) = or(x, y)
      BY ManualOps
    <2> QED BY <1>4, <1>6, <2>1, <2>2, <2>3
  <1>11. CASE op = "and"
    <2>1. nf = and(x, y)
      BY <1>6, <1>11 DEF Fast!AmoResult
    <2>2. ISA!Amo(op, FALSE, x, y) = Cell(ISA!OpReg(7, 0, x, y))
      BY <1>11 DEF ISA!Amo
    <2>3. ISA!OpReg(7, 0, x, y) = and(x, y)
      BY ManualOps
    <2> QED BY <1>4, <1>6, <2>1, <2>2, <2>3
  <1>12. CASE op = "min"
    <2> DEFINE first == Signed64(x) <= Signed64(y)
               ni == IF first THEN x ELSE y
    <2>1. nf = ni
      <3>1. nf = IF Fast!slt64(y, x) # 0 THEN y ELSE x
        BY <1>12 DEF Fast!AmoResult
      <3>2. (Fast!slt64(y, x) # 0) <=> ~first
        BY <1>1, <1>5
      <3> QED BY <3>1, <3>2
    <2>2. ISA!Amo(op, FALSE, x, y) = Cell(ni)
      <3>1. first <=> ISA!S(x) <= ISA!S(y)
        BY <1>2
      <3>2. ISA!Amo(op, FALSE, x, y) = Cell(IF ISA!S(x) <= ISA!S(y) THEN x ELSE y)
        BY <1>12 DEF ISA!Amo
      <3> HIDE DEF first
      <3> QED BY <3>1, <3>2
    <2>3. ni \in Word
      OBVIOUS
    <2> HIDE DEF ni
    <2> QED BY <1>4, <2>1, <2>2, <2>3
  <1>13. CASE op = "max"
    <2> DEFINE first == Signed64(x) >= Signed64(y)
               ni == IF first THEN x ELSE y
    <2>1. nf = ni
      <3>1. nf = IF Fast!sgt64(y, x) # 0 THEN y ELSE x
        BY <1>13 DEF Fast!AmoResult
      <3>2. (Fast!sgt64(y, x) # 0) <=> ~first
        BY <1>1, <1>5
      <3> QED BY <3>1, <3>2
    <2>2. ISA!Amo(op, FALSE, x, y) = Cell(ni)
      <3>1. first <=> ISA!S(x) >= ISA!S(y)
        BY <1>2
      <3>2. ISA!Amo(op, FALSE, x, y) = Cell(IF ISA!S(x) >= ISA!S(y) THEN x ELSE y)
        BY <1>13 DEF ISA!Amo
      <3> HIDE DEF first
      <3> QED BY <3>1, <3>2
    <2>3. ni \in Word
      OBVIOUS
    <2> HIDE DEF ni
    <2> QED BY <1>4, <2>1, <2>2, <2>3
  <1>14. CASE op = "minu"
    <2> DEFINE first == x <= y
               ni == IF first THEN x ELSE y
    <2>1. nf = ni
      <3>1. nf = IF Fast!lt64(y, x) # 0 THEN y ELSE x
        BY <1>14 DEF Fast!AmoResult
      <3>2. (Fast!lt64(y, x) # 0) <=> ~first
        BY <1>1, <1>5
      <3> QED BY <3>1, <3>2
    <2>2. ISA!Amo(op, FALSE, x, y) = Cell(ni)
      <3>1. first <=> x <= y
        BY <1>2
      <3>2. ISA!Amo(op, FALSE, x, y) = Cell(IF x <= y THEN x ELSE y)
        BY <1>14 DEF ISA!Amo
      <3> HIDE DEF first
      <3> QED BY <3>1, <3>2
    <2>3. ni \in Word
      OBVIOUS
    <2> HIDE DEF ni
    <2> QED BY <1>4, <2>1, <2>2, <2>3
  <1>15. CASE op = "maxu"
    <2> DEFINE first == x >= y
               ni == IF first THEN x ELSE y
    <2>1. nf = ni
      <3>1. nf = IF Fast!gt64(y, x) # 0 THEN y ELSE x
        BY <1>15 DEF Fast!AmoResult
      <3>2. (Fast!gt64(y, x) # 0) <=> ~first
        BY <1>1, <1>5
      <3> QED BY <3>1, <3>2
    <2>2. ISA!Amo(op, FALSE, x, y) = Cell(ni)
      <3>1. first <=> x >= y
        BY <1>2
      <3>2. ISA!Amo(op, FALSE, x, y) = Cell(IF x >= y THEN x ELSE y)
        BY <1>15 DEF ISA!Amo
      <3> HIDE DEF first
      <3> QED BY <3>1, <3>2
    <2>3. ni \in Word
      OBVIOUS
    <2> HIDE DEF ni
    <2> QED BY <1>4, <2>1, <2>2, <2>3
  <1> QED BY <1>7, <1>8, <1>9, <1>10, <1>11, <1>12, <1>13, <1>14, <1>15 DEF AmoOp

\* The results of the instructions the manual defines, on words.
LEMMA ResultsManual ==
    ASSUME Registers, NEW i \in Instr, ManualResult(i) # ISA!Reserved
    PROVE  FastResult(i) = ManualResult(i)
  <1>0. a \in Word /\ b \in Word
    BY DEF Registers
  <1>1. CASE i \in [opcode : {19, 27}, funct3 : Funct3, top : Top, imm : Word]
    <2>1. i.funct3 \in Funct3 /\ i.top \in Top /\ i.imm \in Word /\ i.opcode \in {19, 27}
      BY <1>1
    <2>2. CASE i.opcode = 19
      <3>1. /\ FastResult(i) = Fast!OpImm(i.funct3, i.top, a, i.imm)
            /\ ManualResult(i) = ISA!OpImm(i.funct3, i.top, a, i.imm)
        BY <2>2 DEF FastResult, ManualResult
      <3> QED BY <1>0, <2>1, <3>1, OpImmManual
    <2>3. CASE i.opcode = 27
      <3>1. /\ FastResult(i) = Fast!OpImm32(i.funct3, i.top, a, i.imm)
            /\ ManualResult(i) = ISA!OpImm32(i.funct3, i.top, a, i.imm)
        BY <2>3 DEF FastResult, ManualResult
      <3> QED BY <1>0, <2>1, <3>1, OpImm32Manual
    <2> QED BY <2>1, <2>2, <2>3
  <1>2. CASE i \in [opcode : {51, 59}, funct3 : Funct3, funct7 : Funct7]
    <2>1. i.funct3 \in Funct3 /\ i.opcode \in {51, 59}
      BY <1>2
    <2>2. CASE i.opcode = 51
      <3>1. /\ FastResult(i) = IF i.funct7 = 1 THEN Fast!MulDiv(i.funct3, a, b)
                               ELSE Fast!OpReg(i.funct3, i.funct7, a, b)
            /\ ManualResult(i) = IF i.funct7 = 1 THEN ISA!MulDiv(i.funct3, a, b)
                                 ELSE ISA!OpReg(i.funct3, i.funct7, a, b)
        BY <2>2 DEF FastResult, ManualResult
      <3>2. CASE i.funct7 = 1
        BY <1>0, <2>1, <3>1, <3>2, MulDivManual
      <3>3. CASE i.funct7 # 1
        BY <1>0, <2>1, <3>1, <3>3, OpRegManual
      <3> QED BY <3>2, <3>3
    <2>3. CASE i.opcode = 59
      <3>1. /\ FastResult(i) = IF i.funct7 = 1 THEN Fast!MulDiv32(i.funct3, a, b)
                               ELSE Fast!OpReg32(i.funct3, i.funct7, a, b)
            /\ ManualResult(i) = IF i.funct7 = 1 THEN ISA!MulDiv32(i.funct3, a, b)
                                 ELSE ISA!OpReg32(i.funct3, i.funct7, a, b)
        BY <2>3 DEF FastResult, ManualResult
      <3>2. CASE i.funct7 = 1
        BY <1>0, <2>1, <3>1, <3>2, MulDiv32Manual
      <3>3. CASE i.funct7 # 1
        BY <1>0, <2>1, <3>1, <3>3, OpReg32Manual
      <3> QED BY <3>2, <3>3
    <2> QED BY <2>1, <2>2, <2>3
  <1>3. CASE i \in [opcode : {99}, funct3 : Funct3]
    <2>1. i.opcode = 99 /\ i.funct3 \in Funct3
      BY <1>3
    <2>2. FastResult(i) = Fast!Branch(i.funct3, a, b) /\ ManualResult(i) = ISA!Branch(i.funct3, a, b)
      BY <2>1 DEF FastResult, ManualResult
    <2> QED BY <1>0, <2>1, <2>2, BranchManual
  <1> QED BY <1>1, <1>2, <1>3 DEF Instr

\* The arithmetic of the fast VM (rvgo/fast/yul64.go, and the instructions of
\* rvgo/fast/vm.go over it) is that of the RISC-V manual, for every width: every
\* instruction the manual defines gives the register or the memory word the
\* value the manual says, on every pair of words a program can come to.
THEOREM ManualAlwaysMatched == Spec => []MatchesManual
  <1>1. Registers => MatchesManual
    <2> SUFFICES ASSUME Registers PROVE MatchesManual
      OBVIOUS
    <2>1. a \in Word /\ b \in Word
      BY DEF Registers
    <2>2. \A i \in Instr : ManualResult(i) # ISA!Reserved => FastResult(i) = ManualResult(i)
      BY ResultsManual
    <2>3. ASSUME NEW op \in AmoOp \ {"unknown"}, NEW is32 \in BOOLEAN
          PROVE  Fast!Amo(op, is32, a, b) = ISA!Amo(op, is32, a, b)
      <3>1. CASE is32 = TRUE
        BY <2>1, <3>1, AmoManual32
      <3>2. CASE is32 = FALSE
        BY <2>1, <3>2, AmoManual64
      <3> QED BY <3>1, <3>2
    <2> QED BY <2>2, <2>3 DEF MatchesManual
  <1> QED BY <1>1, RegistersAlwaysWords, PTL
=============================================================================
