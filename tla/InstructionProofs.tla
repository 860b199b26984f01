------------------------- MODULE InstructionProofs -------------------------
(***************************************************************************)
(* Theorems about how an instruction is decoded and executed.              *)
(*                                                                         *)
(* Decode: the decoder is right for every one of the 2^32 instruction      *)
(* words.  The argument is about single bits: a bit is in an immediate     *)
(* exactly when the bit at its place is in the word (BitsInPlace), and a   *)
(* bit is in what shifts, masks and sign extensions return exactly when    *)
(* another one is in their argument (the lemmas before).  Each operand     *)
(* then follows by comparing the two, bit by bit.                          *)
(*                                                                         *)
(* VMControl and VMLockstep: for every width of addresses, page size, heap *)
(* and program.                                                            *)
(*                                                                         *)
(* PreimageIO: for leaves, keys and values of any length, at any           *)
(* alignment, transferred in pieces of any size.                           *)
(***************************************************************************)
EXTENDS Decode, VMLockstep, PreimageIO, TLAPS

\* The bits an assembled instruction has are in the places of its kind.
DecodeInv ==
    /\ kind \in Kinds
    /\ imm \subseteq ImmBits(kind)
    /\ rest \subseteq OtherPlaces(kind)

-----------------------------------------------------------------------------
(* Bits of the results of shifts and sign extensions.                      *)

\* shr64 moves bits down.
LEMMA ShrBits ==
    ASSUME NEW v \in SUBSET (0 .. 63), NEW n \in 0 .. 63
    PROVE  /\ shr64(n, v) \subseteq 0 .. 63 - n
           /\ \A k \in 0 .. 63 - n : k \in shr64(n, v) <=> k + n \in v
<1>1. ASSUME NEW k \in shr64(n, v) PROVE k \in 0 .. 63 - n /\ k + n \in v
  <2>1. PICK j \in {i \in v : i >= n} : k = j - n
    BY DEF shr64
  <2> QED BY <2>1
<1>2. ASSUME NEW k \in 0 .. 63 - n, k + n \in v PROVE k \in shr64(n, v)
  <2>1. k + n \in {i \in v : i >= n}
    BY <1>2
  <2>2. k = (k + n) - n
    OBVIOUS
  <2> QED BY <2>1, <2>2 DEF shr64
<1> QED BY <1>1, <1>2

\* shl64 moves bits up, and out of the word.
LEMMA ShlBits ==
    ASSUME NEW v \in SUBSET (0 .. 63), NEW n \in 0 .. 63
    PROVE  /\ shl64(n, v) \subseteq n .. 63
           /\ \A k \in n .. 63 : k \in shl64(n, v) <=> k - n \in v
<1>1. ASSUME NEW k \in shl64(n, v) PROVE k \in n .. 63 /\ k - n \in v
  <2>1. PICK j \in v : k = j + n /\ k \in 0 .. 63
    BY DEF shl64
  <2> QED BY <2>1
<1>2. ASSUME NEW k \in n .. 63, k - n \in v PROVE k \in shl64(n, v)
  <2>1. k = (k - n) + n
    OBVIOUS
  <2> QED BY <1>2, <2>1 DEF shl64
<1> QED BY <1>1, <1>2

\* signExtend64 keeps the bits up to the sign, and copies the sign above it.
LEMMA SignBits ==
    ASSUME NEW v \in SUBSET (0 .. 63), NEW bit \in 0 .. 63
    PROVE  /\ signExtend64(v, bit) \in SUBSET (0 .. 63)
           /\ \A k \in 0 .. bit : k \in signExtend64(v, bit) <=> k \in v
           /\ \A k \in bit .. 63 : k \in signExtend64(v, bit) <=> bit \in v
  BY DEF signExtend64

\* Two words whose bits agree up to the sign are extended to the same value.
LEMMA SameExtension ==
    ASSUME NEW v \in SUBSET (0 .. 63), NEW w \in SUBSET (0 .. 63), NEW bit \in 0 .. 63,
           \A k \in 0 .. bit : k \in v <=> k \in w
    PROVE  signExtend64(v, bit) = signExtend64(w, bit)
<1>1. \A k \in 0 .. bit : k \in signExtend64(v, bit) <=> k \in signExtend64(w, bit)
  BY SignBits
<1>2. \A k \in bit .. 63 : k \in signExtend64(v, bit) <=> k \in signExtend64(w, bit)
  <2>1. bit \in v <=> bit \in w
    OBVIOUS
  <2> QED BY <2>1, SignBits
<1>3. \A k \in 0 .. 63 : k \in 0 .. bit \/ k \in bit .. 63
  OBVIOUS
<1>4. /\ signExtend64(v, bit) \in SUBSET (0 .. 63)
      /\ signExtend64(w, bit) \in SUBSET (0 .. 63)
  BY SignBits
<1> QED BY <1>1, <1>2, <1>3, <1>4

\* Extending a second time changes nothing: riscvStep does so with immediates
\* that parse.go has extended.
LEMMA ExtendTwice ==
    ASSUME NEW v \in SUBSET (0 .. 63), NEW bit \in 0 .. 63
    PROVE  signExtend64(signExtend64(v, bit), bit) = signExtend64(v, bit)
<1>1. /\ signExtend64(v, bit) \in SUBSET (0 .. 63)
      /\ \A k \in 0 .. bit : k \in signExtend64(v, bit) <=> k \in v
  BY SignBits
<1> QED BY <1>1, SameExtension

\* A field of w bits at f, moved to t: how the layouts are put together.
LEMMA FieldMoved ==
    ASSUME NEW v \in SUBSET (0 .. 31), NEW f \in 0 .. 31, NEW t \in 0 .. 31,
           NEW w \in 1 .. 32
    PROVE  /\ shl64(t, and64(shr64(f, v), Low(w))) \in SUBSET (0 .. 63)
           /\ \A k \in 0 .. 63 :
                 k \in shl64(t, and64(shr64(f, v), Low(w)))
                     <=> k \in t .. (t + w) - 1 /\ (k - t) + f \in v
<1> DEFINE part == and64(shr64(f, v), Low(w))
           field == shl64(t, part)
<1>0. v \in SUBSET (0 .. 63) /\ f \in 0 .. 63 /\ t \in 0 .. 63
  OBVIOUS
<1>1. \A k \in 0 .. 63 : k \in part <=> k < w /\ k + f \in v
  <2>1. /\ shr64(f, v) \subseteq 0 .. 63 - f
        /\ \A k \in 0 .. 63 - f : k \in shr64(f, v) <=> k + f \in v
    BY <1>0, ShrBits
  <2>2. ASSUME NEW k \in 0 .. 63, k \in part PROVE k < w /\ k + f \in v
    BY <2>1, <2>2 DEF and64, Low
  <2>3. ASSUME NEW k \in 0 .. 63, k < w, k + f \in v PROVE k \in part
    <3>1. k \in 0 .. 63 - f
      BY <2>3
    <3> QED BY <2>1, <2>3, <3>1 DEF and64, Low
  <2> QED BY <2>2, <2>3
<1>2. part \in SUBSET (0 .. 63)
  BY <1>0, ShrBits DEF and64
<1>3. /\ field \subseteq t .. 63
      /\ \A k \in t .. 63 : k \in field <=> k - t \in part
  <2> HIDE DEF part
  <2> QED BY <1>0, <1>2, ShlBits
<1> HIDE DEF part, field
<1>4. ASSUME NEW k \in 0 .. 63
      PROVE  k \in field <=> k \in t .. (t + w) - 1 /\ (k - t) + f \in v
  <2>1. CASE k < t
    BY <2>1, <1>3
  <2>2. CASE k >= t
    <3>1. k \in t .. 63 /\ k - t \in 0 .. 63
      BY <2>2
    <3>2. k - t < w <=> k \in t .. (t + w) - 1
      BY <2>2
    <3> QED BY <3>1, <3>2, <1>1, <1>3
  <2> QED BY <2>1, <2>2
<1>5. field \in SUBSET (0 .. 63)
  BY <1>3
<1> QED BY <1>4, <1>5 DEF field, part

\* The topmost field needs no mask.
LEMMA TopFieldMoved ==
    ASSUME NEW v \in SUBSET (0 .. 31), NEW f \in 0 .. 31, NEW t \in 0 .. 31
    PROVE  /\ shl64(t, shr64(f, v)) \in SUBSET (0 .. 63)
           /\ \A k \in 0 .. 63 :
                 k \in shl64(t, shr64(f, v)) <=> k \in t .. 63 /\ (k - t) + f \in v
<1> DEFINE part == shr64(f, v)
           field == shl64(t, part)
<1>0. v \in SUBSET (0 .. 63) /\ f \in 0 .. 63 /\ t \in 0 .. 63
  OBVIOUS
<1>1. \A k \in 0 .. 63 : k \in part <=> k + f \in v
  <2>1. /\ part \subseteq 0 .. 63 - f
        /\ \A k \in 0 .. 63 - f : k \in part <=> k + f \in v
    BY <1>0, ShrBits
  <2>2. ASSUME NEW k \in 0 .. 63, k + f \in v PROVE k \in 0 .. 63 - f
    BY <2>2
  <2> HIDE DEF part
  <2> QED BY <2>1, <2>2
<1>2. part \in SUBSET (0 .. 63)
  BY <1>0, ShrBits
<1>3. /\ field \subseteq t .. 63
      /\ \A k \in t .. 63 : k \in field <=> k - t \in part
  <2> HIDE DEF part
  <2> QED BY <1>0, <1>2, ShlBits
<1> HIDE DEF part, field
<1>4. ASSUME NEW k \in 0 .. 63
      PROVE  k \in field <=> k \in t .. 63 /\ (k - t) + f \in v
  <2>1. CASE k < t
    BY <2>1, <1>3
  <2>2. CASE k >= t
    <3>1. k \in t .. 63 /\ k - t \in 0 .. 63
      BY <2>2
    <3> QED BY <3>1, <1>1, <1>3
  <2> QED BY <2>1, <2>2
<1>5. field \in SUBSET (0 .. 63)
  BY <1>3
<1> QED BY <1>4, <1>5 DEF field, part

-----------------------------------------------------------------------------
(* The assembler.                                                          *)

\* The invariant holds at the start.
LEMMA InvInit == DecodeInit => DecodeInv
  BY DEF DecodeInit, DecodeInv

\* Every step keeps it.
LEMMA InvNext == DecodeInv /\ [DecodeNext]_decodeVars => DecodeInv'
<1> SUFFICES ASSUME DecodeInv, [DecodeNext]_decodeVars PROVE DecodeInv'
  OBVIOUS
<1>1. ASSUME NEW bit \in 0 .. 31, FlipImm(bit) PROVE DecodeInv'
  BY <1>1 DEF DecodeInv, FlipImm, Flip
<1>2. ASSUME NEW bit \in 0 .. 31, FlipOther(bit) PROVE DecodeInv'
  BY <1>2 DEF DecodeInv, FlipOther, Flip
<1>3. CASE UNCHANGED decodeVars
  BY <1>3 DEF DecodeInv, decodeVars
<1> QED BY <1>1, <1>2, <1>3 DEF DecodeNext

\* No two bits of an immediate share a place.
LEMMA PlacesDiffer ==
    ASSUME NEW k \in Kinds
    PROVE  /\ ImmBits(k) \subseteq 0 .. 31
           /\ \A b \in ImmBits(k) : Place(k, b) \in 0 .. 31
           /\ \A b, c \in ImmBits(k) : Place(k, b) = Place(k, c) => b = c
<1>1. CASE k = "load"
  BY <1>1 DEF ImmBits, Place
<1>2. CASE k = "store"
  BY <1>2 DEF ImmBits, Place, StorePlace
<1>3. CASE k = "branch"
  BY <1>3 DEF ImmBits, Place, BranchPlace
<1>4. CASE k = "upper"
  BY <1>4 DEF ImmBits, Place
<1>5. CASE k = "jump"
  BY <1>5 DEF ImmBits, Place, JumpPlace
<1> QED BY <1>1, <1>2, <1>3, <1>4, <1>5 DEF Kinds

\* A bit is in the immediate when the bit at its place is in the instruction.
LEMMA BitsInPlace ==
    ASSUME DecodeInv
    PROVE  /\ Instr \in SUBSET (0 .. 31)
           /\ imm \in SUBSET (0 .. 31)
           /\ \A b \in ImmBits(kind) : Place(kind, b) \in Instr <=> b \in imm
<1>1. ImmBits(kind) \subseteq 0 .. 31
  BY PlacesDiffer DEF DecodeInv
<1>2. \A b \in ImmBits(kind) : Place(kind, b) \in 0 .. 31
  BY PlacesDiffer DEF DecodeInv
<1>3. \A b, c \in ImmBits(kind) : Place(kind, b) = Place(kind, c) => b = c
  BY PlacesDiffer DEF DecodeInv
<1>4. \A b \in ImmBits(kind) : Place(kind, b) \notin rest
  BY DEF DecodeInv, OtherPlaces, ImmPlaces
<1>5. rest \subseteq 0 .. 31
  BY DEF DecodeInv, OtherPlaces
<1> QED BY <1>1, <1>2, <1>3, <1>4, <1>5 DEF DecodeInv, Instr

-----------------------------------------------------------------------------
(* The five layouts.                                                       *)

\* The immediate of a load is decoded right,
LEMMA LoadDecoded ==
    ASSUME DecodeInv, kind = "load"
    PROVE  parseImmTypeI(Instr) = Immediate /\ LoadOffset(Instr) = Immediate
<1>1. /\ Instr \in SUBSET (0 .. 31)
      /\ imm \in SUBSET (0 .. 63)
      /\ \A b \in 0 .. 11 : 20 + b \in Instr <=> b \in imm
  BY BitsInPlace DEF ImmBits, Place
<1>2. /\ shr64(20, Instr) \in SUBSET (0 .. 63)
      /\ \A k \in 0 .. 11 : k \in shr64(20, Instr) <=> k \in imm
  <2>1. /\ shr64(20, Instr) \subseteq 0 .. 43
        /\ \A k \in 0 .. 43 : k \in shr64(20, Instr) <=> k + 20 \in Instr
    BY <1>1, ShrBits
  <2> QED BY <1>1, <2>1
<1>3. parseImmTypeI(Instr) = Immediate
  BY <1>1, <1>2, SameExtension DEF parseImmTypeI, Immediate, SignBit
<1>4. signExtend64(signExtend64(imm, 11), 11) = signExtend64(imm, 11)
  BY <1>1, ExtendTwice
<1> QED BY <1>3, <1>4 DEF LoadOffset, Immediate, SignBit

\* that of a store,
LEMMA StoreDecoded ==
    ASSUME DecodeInv, kind = "store"
    PROVE  StoreOffset(Instr) = Immediate
<1> DEFINE high == shl64(5, shr64(25, Instr))
           low == and64(shr64(7, Instr), Low(5))
<1>1. /\ Instr \in SUBSET (0 .. 31)
      /\ imm \in SUBSET (0 .. 63)
      /\ \A b \in 0 .. 4 : 7 + b \in Instr <=> b \in imm
      /\ \A b \in 5 .. 11 : 20 + b \in Instr <=> b \in imm
  BY BitsInPlace DEF ImmBits, Place, StorePlace
<1>2. /\ low \subseteq 0 .. 4
      /\ \A k \in 0 .. 4 : k \in low <=> k \in imm
  <2>1. \A k \in 0 .. 56 : k \in shr64(7, Instr) <=> k + 7 \in Instr
    BY <1>1, ShrBits
  <2> QED BY <1>1, <2>1 DEF and64, Low
<1>3. /\ high \subseteq 5 .. 63
      /\ \A k \in 5 .. 11 : k \in high <=> k \in imm
  <2>1. /\ shr64(25, Instr) \subseteq 0 .. 38
        /\ \A k \in 0 .. 38 : k \in shr64(25, Instr) <=> k + 25 \in Instr
    BY <1>1, ShrBits
  <2>2. shr64(25, Instr) \in SUBSET (0 .. 63)
    BY <2>1
  <2>3. /\ high \subseteq 5 .. 63
        /\ \A k \in 5 .. 63 : k \in high <=> k - 5 \in shr64(25, Instr)
    BY <2>2, ShlBits
  <2>4. \A k \in 5 .. 11 : k - 5 \in shr64(25, Instr) <=> 20 + k \in Instr
    <3> SUFFICES ASSUME NEW k \in 5 .. 11
                 PROVE  k - 5 \in shr64(25, Instr) <=> 20 + k \in Instr
      OBVIOUS
    <3>1. k - 5 \in 0 .. 38 /\ (k - 5) + 25 = 20 + k
      OBVIOUS
    <3> QED BY <3>1, <2>1
  <2> QED BY <1>1, <2>3, <2>4
<1>4. /\ or64(high, low) \in SUBSET (0 .. 63)
      /\ \A k \in 0 .. 11 : k \in or64(high, low) <=> k \in imm
  BY <1>2, <1>3 DEF or64
<1> HIDE DEF high, low
<1>5. signExtend64(or64(high, low), 11) = signExtend64(imm, 11)
  BY <1>1, <1>4, SameExtension
<1>6. parseImmTypeS(Instr) = signExtend64(imm, 11)
  BY <1>5 DEF parseImmTypeS, high, low
<1>7. signExtend64(signExtend64(imm, 11), 11) = signExtend64(imm, 11)
  BY <1>1, ExtendTwice
<1> QED BY <1>6, <1>7 DEF StoreOffset, Immediate, SignBit

\* that of a branch,
LEMMA BranchDecoded ==
    ASSUME DecodeInv, kind = "branch"
    PROVE  BranchOffset(Instr) = Immediate
<1> DEFINE b1 == shl64(1, and64(shr64(8, Instr), Low(4)))
           b5 == shl64(5, and64(shr64(25, Instr), Low(6)))
           b11 == shl64(11, and64(shr64(7, Instr), Low(1)))
           b12 == shl64(12, shr64(31, Instr))
           all == or64(or64(b1, b5), or64(b11, b12))
<1>1. Instr \in SUBSET (0 .. 31) /\ imm \in SUBSET (1 .. 12)
  BY BitsInPlace DEF DecodeInv, ImmBits
<1>2. /\ \A b \in 1 .. 4 : 7 + b \in Instr <=> b \in imm
      /\ \A b \in 5 .. 10 : 20 + b \in Instr <=> b \in imm
      /\ 7 \in Instr <=> 11 \in imm
      /\ 31 \in Instr <=> 12 \in imm
  BY BitsInPlace DEF ImmBits, Place, BranchPlace
<1>3. /\ b1 \in SUBSET (0 .. 63)
      /\ \A k \in 0 .. 63 : k \in b1 <=> k \in 1 .. 4 /\ (k - 1) + 8 \in Instr
  <2>1. /\ b1 \in SUBSET (0 .. 63)
        /\ \A k \in 0 .. 63 : k \in b1 <=> k \in 1 .. (1 + 4) - 1 /\ (k - 1) + 8 \in Instr
    BY <1>1, 8 \in 0 .. 31, 1 \in 0 .. 31, 4 \in 1 .. 32, FieldMoved, Zenon
  <2>2. (1 + 4) - 1 = 4
    OBVIOUS
  <2> QED BY <2>1, <2>2
<1>4. /\ b5 \in SUBSET (0 .. 63)
      /\ \A k \in 0 .. 63 : k \in b5 <=> k \in 5 .. 10 /\ (k - 5) + 25 \in Instr
  <2>1. /\ b5 \in SUBSET (0 .. 63)
        /\ \A k \in 0 .. 63 : k \in b5 <=> k \in 5 .. (5 + 6) - 1 /\ (k - 5) + 25 \in Instr
    BY <1>1, 25 \in 0 .. 31, 5 \in 0 .. 31, 6 \in 1 .. 32, FieldMoved, Zenon
  <2>2. (5 + 6) - 1 = 10
    OBVIOUS
  <2> QED BY <2>1, <2>2
<1>5. /\ b11 \in SUBSET (0 .. 63)
      /\ \A k \in 0 .. 63 : k \in b11 <=> k \in 11 .. 11 /\ (k - 11) + 7 \in Instr
  <2>1. /\ b11 \in SUBSET (0 .. 63)
        /\ \A k \in 0 .. 63 : k \in b11 <=> k \in 11 .. (11 + 1) - 1 /\ (k - 11) + 7 \in Instr
    BY <1>1, 7 \in 0 .. 31, 11 \in 0 .. 31, 1 \in 1 .. 32, FieldMoved, Zenon
  <2>2. (11 + 1) - 1 = 11
    OBVIOUS
  <2> QED BY <2>1, <2>2
<1>6. /\ b12 \in SUBSET (0 .. 63)
      /\ \A k \in 0 .. 63 : k \in b12 <=> k \in 12 .. 63 /\ (k - 12) + 31 \in Instr
  BY <1>1, 31 \in 0 .. 31, 12 \in 0 .. 31, TopFieldMoved, Zenon
<1> HIDE DEF b1, b5, b11, b12
<1>7. ASSUME NEW k \in 0 .. 12 PROVE k \in all <=> k \in imm
  <2>1. k \in all <=> k \in b1 \/ k \in b5 \/ k \in b11 \/ k \in b12
    BY DEF or64
  <2>2. CASE k = 0
    BY <2>1, <2>2, <1>1, <1>3, <1>4, <1>5, <1>6
  <2>3. CASE k \in 1 .. 4
    <3>1. (k - 1) + 8 = 7 + k
      OBVIOUS
    <3> QED BY <2>1, <2>3, <3>1, <1>2, <1>3, <1>4, <1>5, <1>6
  <2>4. CASE k \in 5 .. 10
    <3>1. (k - 5) + 25 = 20 + k
      OBVIOUS
    <3> QED BY <2>1, <2>4, <3>1, <1>2, <1>3, <1>4, <1>5, <1>6
  <2>5. CASE k = 11
    BY <2>1, <2>5, <1>2, <1>3, <1>4, <1>5, <1>6
  <2>6. CASE k = 12
    BY <2>1, <2>6, <1>2, <1>3, <1>4, <1>5, <1>6
  <2> QED BY <2>2, <2>3, <2>4, <2>5, <2>6
<1>8. all \in SUBSET (0 .. 63) /\ imm \in SUBSET (0 .. 63)
  BY <1>1, <1>3, <1>4, <1>5, <1>6 DEF or64
<1> HIDE DEF all
<1>9. signExtend64(all, 12) = signExtend64(imm, 12)
  BY <1>7, <1>8, SameExtension
<1> QED BY <1>9 DEF BranchOffset, parseImmTypeB, all, b1, b5, b11, b12, Immediate, SignBit

\* that of an upper-immediate instruction,
LEMMA UpperDecoded ==
    ASSUME DecodeInv, kind = "upper"
    PROVE  LoadUpper(Instr) = Immediate /\ AddUpper(Instr) = Immediate
<1> DEFINE u == parseImmTypeU(Instr)
           up == shl64(12, u)
<1>1. Instr \in SUBSET (0 .. 31) /\ imm \in SUBSET (12 .. 31)
  BY BitsInPlace DEF DecodeInv, ImmBits
<1>2. \A b \in 12 .. 31 : b \in Instr <=> b \in imm
  BY BitsInPlace DEF ImmBits, Place
<1>3. /\ shr64(12, Instr) \in SUBSET (0 .. 63)
      /\ \A k \in 0 .. 51 : k \in shr64(12, Instr) <=> k + 12 \in Instr
  BY <1>1, ShrBits
<1>4. /\ u \in SUBSET (0 .. 63)
      /\ \A k \in 0 .. 19 : k \in u <=> k \in shr64(12, Instr)
      /\ \A k \in 19 .. 63 : k \in u <=> 19 \in shr64(12, Instr)
  BY <1>3, SignBits, SMTT(20) DEF parseImmTypeU
<1> HIDE DEF u
<1>5. /\ up \subseteq 12 .. 63
      /\ \A k \in 12 .. 63 : k \in up <=> k - 12 \in u
  BY <1>4, ShlBits
<1> HIDE DEF up
<1>6. /\ Immediate \in SUBSET (0 .. 63)
      /\ \A k \in 0 .. 31 : k \in Immediate <=> k \in imm
      /\ \A k \in 31 .. 63 : k \in Immediate <=> 31 \in imm
  <2>1. imm \in SUBSET (0 .. 63)
    BY <1>1
  <2> QED BY <2>1, SignBits DEF Immediate, SignBit
<1>7. ASSUME NEW k \in 0 .. 63 PROVE k \in up <=> k \in Immediate
  <2>1. CASE k < 12
    BY <2>1, <1>1, <1>5, <1>6
  <2>2. CASE k \in 12 .. 31
    <3>1. k - 12 \in 0 .. 19 /\ k - 12 \in 0 .. 51 /\ (k - 12) + 12 = k
      BY <2>2
    <3> QED BY <2>2, <3>1, <1>2, <1>3, <1>4, <1>5, <1>6
  <2>3. CASE k \in 31 .. 63
    <3>1. k - 12 \in 19 .. 63 /\ 19 + 12 = 31
      BY <2>3
    <3>2. 19 \in shr64(12, Instr) <=> 31 \in imm
      BY <1>2, <1>3
    <3> QED BY <2>3, <3>1, <3>2, <1>4, <1>5, <1>6
  <2> QED BY <2>1, <2>2, <2>3
<1>8. up = Immediate
  <2>1. \A k \in up : k \in 0 .. 63
    BY <1>5
  <2>2. \A k \in Immediate : k \in 0 .. 63
    BY <1>6
  <2> QED BY <2>1, <2>2, <1>7
<1>9. signExtend64(Immediate, 31) = Immediate
  <2>1. imm \in SUBSET (0 .. 63)
    BY <1>1
  <2> QED BY <2>1, ExtendTwice DEF Immediate, SignBit
<1> QED BY <1>8, <1>9 DEF LoadUpper, AddUpper, up, u

\* and that of a jump.
LEMMA JumpDecoded ==
    ASSUME DecodeInv, kind = "jump"
    PROVE  JumpOffset(Instr) = Immediate
<1> DEFINE b0 == and64(shr64(21, Instr), Low(10))
           b10 == shl64(10, and64(shr64(20, Instr), Low(1)))
           b11 == shl64(11, and64(shr64(12, Instr), Low(8)))
           b19 == shl64(19, shr64(31, Instr))
           all == or64(or64(b0, b10), or64(b11, b19))
           j == parseImmTypeJ(Instr)
<1>1. Instr \in SUBSET (0 .. 31) /\ imm \in SUBSET (1 .. 20)
  BY BitsInPlace DEF DecodeInv, ImmBits
<1>2. /\ \A b \in 1 .. 10 : 20 + b \in Instr <=> b \in imm
      /\ 20 \in Instr <=> 11 \in imm
      /\ \A b \in 12 .. 19 : b \in Instr <=> b \in imm
      /\ 31 \in Instr <=> 20 \in imm
  BY BitsInPlace DEF ImmBits, Place, JumpPlace
<1>3. /\ b0 \in SUBSET (0 .. 63)
      /\ \A k \in 0 .. 63 : k \in b0 <=> k \in 0 .. 9 /\ k + 21 \in Instr
  <2>1. /\ shr64(21, Instr) \subseteq 0 .. 42
        /\ \A k \in 0 .. 42 : k \in shr64(21, Instr) <=> k + 21 \in Instr
    BY <1>1, ShrBits
  <2> QED BY <2>1 DEF and64, Low
<1>4. /\ b10 \in SUBSET (0 .. 63)
      /\ \A k \in 0 .. 63 : k \in b10 <=> k \in 10 .. 10 /\ (k - 10) + 20 \in Instr
  <2>1. /\ b10 \in SUBSET (0 .. 63)
        /\ \A k \in 0 .. 63 : k \in b10 <=> k \in 10 .. (10 + 1) - 1 /\ (k - 10) + 20 \in Instr
    BY <1>1, 20 \in 0 .. 31, 10 \in 0 .. 31, 1 \in 1 .. 32, FieldMoved, Zenon
  <2>2. (10 + 1) - 1 = 10
    OBVIOUS
  <2> QED BY <2>1, <2>2
<1>5. /\ b11 \in SUBSET (0 .. 63)
      /\ \A k \in 0 .. 63 : k \in b11 <=> k \in 11 .. 18 /\ (k - 11) + 12 \in Instr
  <2>1. /\ b11 \in SUBSET (0 .. 63)
        /\ \A k \in 0 .. 63 : k \in b11 <=> k \in 11 .. (11 + 8) - 1 /\ (k - 11) + 12 \in Instr
    BY <1>1, 12 \in 0 .. 31, 11 \in 0 .. 31, 8 \in 1 .. 32, FieldMoved, Zenon
  <2>2. (11 + 8) - 1 = 18
    OBVIOUS
  <2> QED BY <2>1, <2>2
<1>6. /\ b19 \in SUBSET (0 .. 63)
      /\ \A k \in 0 .. 63 : k \in b19 <=> k \in 19 .. 63 /\ (k - 19) + 31 \in Instr
  BY <1>1, 31 \in 0 .. 31, 19 \in 0 .. 31, TopFieldMoved, Zenon
<1> HIDE DEF b0, b10, b11, b19
<1>7. ASSUME NEW k \in 0 .. 19 PROVE k \in all <=> k + 1 \in imm
  <2>1. k \in all <=> k \in b0 \/ k \in b10 \/ k \in b11 \/ k \in b19
    BY DEF or64
  <2>2. CASE k \in 0 .. 9
    <3>1. k + 1 \in 1 .. 10 /\ k + 21 = 20 + (k + 1)
      BY <2>2
    <3> QED BY <2>1, <2>2, <3>1, <1>2, <1>3, <1>4, <1>5, <1>6
  <2>3. CASE k = 10
    BY <2>1, <2>3, <1>2, <1>3, <1>4, <1>5, <1>6
  <2>4. CASE k \in 11 .. 18
    <3>1. k + 1 \in 12 .. 19 /\ (k - 11) + 12 = k + 1
      BY <2>4
    <3> QED BY <2>1, <2>4, <3>1, <1>2, <1>3, <1>4, <1>5, <1>6
  <2>5. CASE k = 19
    BY <2>1, <2>5, <1>2, <1>3, <1>4, <1>5, <1>6
  <2> QED BY <2>2, <2>3, <2>4, <2>5
<1>8. all \in SUBSET (0 .. 63)
  BY <1>3, <1>4, <1>5, <1>6 DEF or64
<1> HIDE DEF all
<1>9. /\ j \in SUBSET (0 .. 63)
      /\ \A k \in 0 .. 19 : k \in j <=> k \in all
  <2>1. j = signExtend64(all, 19)
    BY DEF j, parseImmTypeJ, all, b0, b10, b11, b19
  <2> HIDE DEF j
  <2> QED BY <2>1, <1>8, SignBits
<1> HIDE DEF j
<1>10. /\ shl64(1, j) \subseteq 1 .. 63
       /\ \A k \in 1 .. 63 : k \in shl64(1, j) <=> k - 1 \in j
  BY <1>9, ShlBits
<1>11. ASSUME NEW k \in 0 .. 20 PROVE k \in shl64(1, j) <=> k \in imm
  <2>1. CASE k = 0
    BY <2>1, <1>1, <1>10
  <2>2. CASE k \in 1 .. 20
    <3>1. k - 1 \in 0 .. 19 /\ (k - 1) + 1 = k
      BY <2>2
    <3> QED BY <2>2, <3>1, <1>7, <1>9, <1>10
  <2> QED BY <2>1, <2>2
<1>12. shl64(1, j) \in SUBSET (0 .. 63) /\ imm \in SUBSET (0 .. 63)
  BY <1>1, <1>10
<1>13. signExtend64(shl64(1, j), 20) = signExtend64(imm, 20)
  BY <1>11, <1>12, SameExtension
<1> QED BY <1>13 DEF JumpOffset, j, Immediate, SignBit

-----------------------------------------------------------------------------
(* The fields.                                                             *)

\* The fields tile the instruction word.
LEMMA WordTiled ==
    ASSUME DecodeInv
    PROVE  FieldsTile
<1> DEFINE f1 == parseOpcode(Instr)
           f2 == shl64(7, parseRd(Instr))
           f3 == shl64(12, parseFunct3(Instr))
           f4 == shl64(15, parseRs1(Instr))
           f5 == shl64(20, parseRs2(Instr))
           f6 == shl64(25, parseFunct7(Instr))
           fields == <<f1, f2, f3, f4, f5, f6>>
<1>1. Instr \in SUBSET (0 .. 31)
  BY BitsInPlace
<1>2. /\ f1 \in SUBSET (0 .. 63)
      /\ \A k \in 0 .. 63 : k \in f1 <=> k \in 0 .. 6 /\ k \in Instr
  BY <1>1 DEF parseOpcode, and64, Low
<1>3. /\ f2 \in SUBSET (0 .. 63)
      /\ \A k \in 0 .. 63 : k \in f2 <=> k \in 7 .. 11 /\ k \in Instr
  <2>1. /\ f2 \in SUBSET (0 .. 63)
        /\ \A k \in 0 .. 63 :
              k \in f2 <=> k \in 7 .. (7 + 5) - 1 /\ (k - 7) + 7 \in Instr
    BY <1>1, 7 \in 0 .. 31, 5 \in 1 .. 32, FieldMoved, Zenon DEF parseRd
  <2>2. (7 + 5) - 1 = 11 /\ \A k \in 0 .. 63 : (k - 7) + 7 = k
    OBVIOUS
  <2> QED BY <2>1, <2>2
<1>4. /\ f3 \in SUBSET (0 .. 63)
      /\ \A k \in 0 .. 63 : k \in f3 <=> k \in 12 .. 14 /\ k \in Instr
  <2>1. /\ f3 \in SUBSET (0 .. 63)
        /\ \A k \in 0 .. 63 :
              k \in f3 <=> k \in 12 .. (12 + 3) - 1 /\ (k - 12) + 12 \in Instr
    BY <1>1, 12 \in 0 .. 31, 3 \in 1 .. 32, FieldMoved, Zenon DEF parseFunct3
  <2>2. (12 + 3) - 1 = 14 /\ \A k \in 0 .. 63 : (k - 12) + 12 = k
    OBVIOUS
  <2> QED BY <2>1, <2>2
<1>5. /\ f4 \in SUBSET (0 .. 63)
      /\ \A k \in 0 .. 63 : k \in f4 <=> k \in 15 .. 19 /\ k \in Instr
  <2>1. /\ f4 \in SUBSET (0 .. 63)
        /\ \A k \in 0 .. 63 :
              k \in f4 <=> k \in 15 .. (15 + 5) - 1 /\ (k - 15) + 15 \in Instr
    BY <1>1, 15 \in 0 .. 31, 5 \in 1 .. 32, FieldMoved, Zenon DEF parseRs1
  <2>2. (15 + 5) - 1 = 19 /\ \A k \in 0 .. 63 : (k - 15) + 15 = k
    OBVIOUS
  <2> QED BY <2>1, <2>2
<1>6. /\ f5 \in SUBSET (0 .. 63)
      /\ \A k \in 0 .. 63 : k \in f5 <=> k \in 20 .. 24 /\ k \in Instr
  <2>1. /\ f5 \in SUBSET (0 .. 63)
        /\ \A k \in 0 .. 63 :
              k \in f5 <=> k \in 20 .. (20 + 5) - 1 /\ (k - 20) + 20 \in Instr
    BY <1>1, 20 \in 0 .. 31, 5 \in 1 .. 32, FieldMoved, Zenon DEF parseRs2
  <2>2. (20 + 5) - 1 = 24 /\ \A k \in 0 .. 63 : (k - 20) + 20 = k
    OBVIOUS
  <2> QED BY <2>1, <2>2
<1>7. /\ f6 \in SUBSET (0 .. 63)
      /\ \A k \in 0 .. 63 : k \in f6 <=> k \in 25 .. 63 /\ k \in Instr
  <2>1. /\ f6 \in SUBSET (0 .. 63)
        /\ \A k \in 0 .. 63 : k \in f6 <=> k \in 25 .. 63 /\ (k - 25) + 25 \in Instr
    BY <1>1, 25 \in 0 .. 31, TopFieldMoved, Zenon DEF parseFunct7
  <2>2. \A k \in 0 .. 63 : (k - 25) + 25 = k
    OBVIOUS
  <2> QED BY <2>1, <2>2
<1> HIDE DEF f1, f2, f3, f4, f5, f6
<1>8. f1 \cup f2 \cup f3 \cup f4 \cup f5 \cup f6 = Instr
  <2>1. ASSUME NEW k \in 0 .. 63
        PROVE  k \in f1 \cup f2 \cup f3 \cup f4 \cup f5 \cup f6 <=> k \in Instr
    BY <1>1, <1>2, <1>3, <1>4, <1>5, <1>6, <1>7
  <2>2. /\ f1 \cup f2 \cup f3 \cup f4 \cup f5 \cup f6 \subseteq 0 .. 63
        /\ Instr \subseteq 0 .. 63
    BY <1>1, <1>2, <1>3, <1>4, <1>5, <1>6, <1>7
  <2> QED BY <2>1, <2>2
<1>9. /\ f1 \cap f2 = {} /\ f1 \cap f3 = {} /\ f1 \cap f4 = {} /\ f1 \cap f5 = {}
      /\ f1 \cap f6 = {} /\ f2 \cap f3 = {} /\ f2 \cap f4 = {} /\ f2 \cap f5 = {}
      /\ f2 \cap f6 = {} /\ f3 \cap f4 = {} /\ f3 \cap f5 = {} /\ f3 \cap f6 = {}
      /\ f4 \cap f5 = {} /\ f4 \cap f6 = {} /\ f5 \cap f6 = {}
  BY <1>2, <1>3, <1>4, <1>5, <1>6, <1>7
<1>10. UNION {fields[f] : f \in 1 .. 6} = f1 \cup f2 \cup f3 \cup f4 \cup f5 \cup f6
  OBVIOUS
<1>11. \A f, g \in 1 .. 6 : f # g => fields[f] \cap fields[g] = {}
  BY <1>9
<1> QED BY <1>8, <1>10, <1>11 DEF FieldsTile, f1, f2, f3, f4, f5, f6

-----------------------------------------------------------------------------

\* A shift is named by the upper bits of its immediate, its amount by the lower.
LEMMA ShiftsRight == DecodeInv => ShiftsDecoded
<1> SUFFICES ASSUME DecodeInv, kind = "load" PROVE ShiftsDecoded
  BY DEF ShiftsDecoded
<1> DEFINE I == parseImmTypeI(Instr)
<1>1. imm \in SUBSET (0 .. 11)
  BY DEF DecodeInv, ImmBits
<1>2. I = signExtend64(imm, 11)
  BY LoadDecoded DEF Immediate, SignBit
<1>3. /\ I \in SUBSET (0 .. 63)
      /\ \A k \in 0 .. 11 : k \in I <=> k \in imm
      /\ \A k \in 11 .. 63 : k \in I <=> 11 \in imm
  BY <1>1, <1>2, SignBits, imm \in SUBSET (0 .. 63), 11 \in 0 .. 63
<1> HIDE DEF I
<1>4. /\ shr64(6, I) \subseteq 0 .. 57
      /\ \A k \in 0 .. 57 : k \in shr64(6, I) <=> k + 6 \in I
  BY <1>3, ShrBits, 6 \in 0 .. 63
<1>5. /\ shr64(5, I) \subseteq 0 .. 58
      /\ \A k \in 0 .. 58 : k \in shr64(5, I) <=> k + 5 \in I
  BY <1>3, ShrBits, 5 \in 0 .. 63
<1>6. shr64(6, I) = {} <=> imm \subseteq 0 .. 5
  <2>1. ASSUME shr64(6, I) = {}, NEW b \in imm PROVE b \in 0 .. 5
    <3>1. ASSUME b \in 6 .. 11 PROVE FALSE
      BY <1>1, <1>3, <1>4, <2>1, <3>1, b - 6 \in 0 .. 57, (b - 6) + 6 = b
    <3> QED BY <1>1, <3>1
  <2>2. ASSUME imm \subseteq 0 .. 5, NEW k \in shr64(6, I) PROVE FALSE
    BY <1>3, <1>4, <2>2, k + 6 \in 6 .. 63
  <2> QED BY <2>1, <2>2
<1>7. shr64(6, I) = {4} <=> (10 \in imm /\ imm \subseteq (0 .. 5) \cup {10})
  <2>1. ASSUME shr64(6, I) = {4} PROVE 10 \in imm
    BY <1>3, <1>4, <2>1, 4 + 6 = 10
  <2>2. ASSUME shr64(6, I) = {4}, NEW b \in imm PROVE b \in (0 .. 5) \cup {10}
    <3>1. ASSUME b \in 6 .. 11, b # 10 PROVE FALSE
      BY <1>1, <1>3, <1>4, <2>2, <3>1, b - 6 \in 0 .. 57, (b - 6) + 6 = b
    <3> QED BY <1>1, <3>1
  <2>3. ASSUME 10 \in imm, imm \subseteq (0 .. 5) \cup {10} PROVE shr64(6, I) = {4}
    <3>1. 4 \in shr64(6, I)
      BY <1>3, <1>4, <2>3, 4 + 6 = 10
    <3>2. ASSUME NEW k \in shr64(6, I) PROVE k = 4
      BY <1>3, <1>4, <2>3, <3>2, k + 6 \in 6 .. 63
    <3> QED BY <3>1, <3>2
  <2> QED BY <2>1, <2>2, <2>3
<1>8. shr64(5, I) = {} <=> imm \subseteq 0 .. 4
  <2>1. ASSUME shr64(5, I) = {}, NEW b \in imm PROVE b \in 0 .. 4
    <3>1. ASSUME b \in 5 .. 11 PROVE FALSE
      BY <1>1, <1>3, <1>5, <2>1, <3>1, b - 5 \in 0 .. 58, (b - 5) + 5 = b
    <3> QED BY <1>1, <3>1
  <2>2. ASSUME imm \subseteq 0 .. 4, NEW k \in shr64(5, I) PROVE FALSE
    BY <1>3, <1>5, <2>2, k + 5 \in 5 .. 63
  <2> QED BY <2>1, <2>2
<1>9. shr64(5, I) = {5} <=> (10 \in imm /\ imm \subseteq (0 .. 4) \cup {10})
  <2>1. ASSUME shr64(5, I) = {5} PROVE 10 \in imm
    BY <1>3, <1>5, <2>1, 5 + 5 = 10
  <2>2. ASSUME shr64(5, I) = {5}, NEW b \in imm PROVE b \in (0 .. 4) \cup {10}
    <3>1. ASSUME b \in 5 .. 11, b # 10 PROVE FALSE
      BY <1>1, <1>3, <1>5, <2>2, <3>1, b - 5 \in 0 .. 58, (b - 5) + 5 = b
    <3> QED BY <1>1, <3>1
  <2>3. ASSUME 10 \in imm, imm \subseteq (0 .. 4) \cup {10} PROVE shr64(5, I) = {5}
    <3>1. 5 \in shr64(5, I)
      BY <1>3, <1>5, <2>3, 5 + 5 = 10
    <3>2. ASSUME NEW k \in shr64(5, I) PROVE k = 5
      BY <1>3, <1>5, <2>3, <3>2, k + 5 \in 5 .. 63
    <3> QED BY <3>1, <3>2
  <2> QED BY <2>1, <2>2, <2>3
<1>10. I \cap Low(6) = imm \cap (0 .. 5) /\ I \cap Low(5) = imm \cap (0 .. 4)
  <2>1. Low(6) = 0 .. 5 /\ Low(5) = 0 .. 4
    BY DEF Low
  <2> QED BY <1>3, <2>1
<1> QED BY <1>6, <1>7, <1>8, <1>9, <1>10
    DEF ShiftsDecoded, ShiftType, ShiftType32, ShiftAmount, ShiftAmount32, and64, I

\* The invariant gives the decoding property.
LEMMA InvDecodes == DecodeInv => OperandsDecoded
  BY LoadDecoded, StoreDecoded, BranchDecoded, UpperDecoded, JumpDecoded, WordTiled, ShiftsRight
     DEF OperandsDecoded

\* Whatever the bits of an immediate and of the other fields, and however many
\* of them are set, the operand that riscvStep uses is the immediate that was
\* assembled, and the six fields share no bit and miss none: parse.go is right
\* for every instruction word of the five layouts.
THEOREM DecodingSound == DecodeSpec => []OperandsDecoded
<1>1. DecodeSpec => []DecodeInv
  BY InvInit, InvNext, PTL DEF DecodeSpec
<1> QED BY <1>1, InvDecodes, PTL

-----------------------------------------------------------------------------
(* Control flow and system calls.                                          *)

\* A word modulo a positive number, and a word that is in range already.
LEMMA ModInRange ==
    ASSUME NEW n \in Nat \ {0}, NEW x \in Nat
    PROVE  /\ x % n \in 0..(n - 1)
           /\ x < n => x % n = x
           /\ x = n => x % n = 0
  <1>1. x % n \in 0..(n - 1)
    OBVIOUS
  <1>2. x < n => x % n = x
    OBVIOUS
  <1>3. x = n => x % n = 0
    OBVIOUS
  <1> QED BY <1>1, <1>2, <1>3

\* An aligned word plus four is aligned, also where the address space ends.
LEMMA NextAligned ==
    ASSUME NEW x \in Word, x % 4 = 0
    PROVE  (x + 4) % AddrSpace \in Word /\ ((x + 4) % AddrSpace) % 4 = 0
  <1> USE ControlAssumption DEF Word
  <1>1. x + 4 <= AddrSpace
    OBVIOUS
  <1>2. CASE x + 4 = AddrSpace
    BY <1>2, ModInRange
  <1>3. CASE x + 4 < AddrSpace
    <2>1. (x + 4) % AddrSpace = x + 4
      <3> DEFINE y == x + 4
      <3>1. y \in Nat /\ y < AddrSpace
        BY <1>3
      <3> HIDE DEF y
      <3>2. y % AddrSpace = y
        BY <3>1, ModInRange
      <3> QED BY <3>2 DEF y
    <2>2. x + 4 \in Word /\ (x + 4) % 4 = 0
      BY <1>3
    <2> QED BY <2>1, <2>2
  <1> QED BY <1>1, <1>2, <1>3

\* Every step that jumps does so through the alignment check.
LEMMA JumpAligned ==
    ASSUME NEW target \in Word, JumpTo(target), pc \in Word, pc % 4 = 0
    PROVE  pc' \in Word /\ pc' % 4 = 0
  BY DEF JumpTo, Revert

\* The inductive strengthening of PcAligned.
PcInv == pc \in Word /\ PcAligned

\* Every step of the fast VM keeps PcInv.
LEMMA PcStep == PcInv /\ [Next]_vars => PcInv'
  <1> SUFFICES ASSUME pc \in Word, pc % 4 = 0, [Next]_vars
               PROVE  pc' \in Word /\ pc' % 4 = 0
    BY DEF PcInv, PcAligned
  <1>a. ASSUME Advance PROVE pc' \in Word /\ pc' % 4 = 0
    BY <1>a, NextAligned DEF Advance
  <1>r. ASSUME pc' = pc PROVE pc' \in Word /\ pc' % 4 = 0
    BY <1>r
  <1>1. CASE Basic
    BY <1>1, <1>a, <1>r DEF Basic, Plain, Load, Store, Arithmetic, UnknownOpCode, Fails, Revert
  <1>2. CASE Jump
    <2>1. ASSUME NEW hit \in BOOLEAN, NEW offset \in Offsets, Branch(hit, offset)
          PROVE  pc' \in Word /\ pc' % 4 = 0
      <3>1. (pc + IF hit THEN offset ELSE 4) % AddrSpace \in Word
        BY ControlAssumption DEF Word
      <3> QED BY <2>1, <3>1, JumpAligned DEF Branch
    <2>2. ASSUME NEW rs1 \in Values, NEW offset \in Offsets, JALR(rs1, offset)
          PROVE  pc' \in Word /\ pc' % 4 = 0
      <3> DEFINE target == (rs1 + offset) % AddrSpace
      <3>1. target \in Word
        BY ControlAssumption DEF Word
      <3>2. target - (target % 2) \in Word
        BY <3>1, ControlAssumption DEF Word
      <3> QED BY <2>2, <3>2, JumpAligned DEF JALR
    <2> QED BY <1>2, <2>1, <2>2 DEF Jump
  <1>3. CASE Atomic
    BY <1>3, <1>a, <1>r DEF Atomic, BadAMOSize, Fails, LR, SC, AMO, Revert
  <1>4. CASE sysCall
    BY <1>4, <1>a, <1>r
       DEF sysCall, SysExit, SysBrk, SysMmap, SysRead, ReadPreimagePanics, SysWrite, WritePanics, SysFcntl,
           SysOpenat, SysZero, SysClone, SysGetrlimit, SysUnsupported, Fails, Syscall, Revert
  <1>5. CASE ExitedStep \/ UNCHANGED vars
    BY <1>5, <1>r DEF ExitedStep, vars, control
  <1> QED BY <1>1, <1>2, <1>3, <1>4, <1>5 DEF Next

\* The program counter stays a multiple of four, whatever the program does.
THEOREM PcAlwaysAligned == Spec => []PcAligned
  <1>1. Init => PcInv
    BY ControlAssumption DEF Init, PcInv, PcAligned, Word
  <1>2. PcInv => PcAligned
    BY DEF PcInv
  <1> QED BY <1>1, <1>2, PcStep, PTL DEF Spec

-----------------------------------------------------------------------------
(* The load reservation.                                                   *)

\* The reservation is the address of the last LR that no SC has used up, and
\* zero when there is none.
ReservationInv == LoadReservation = IF reserved = None THEN 0 ELSE reserved

\* Every step keeps the invariant of the load reservation.
LEMMA ReservationStep == ReservationInv /\ [Next]_vars => ReservationInv'
  <1> SUFFICES ASSUME ReservationInv, [Next]_vars
               PROVE  ReservationInv'
    OBVIOUS
  <1> USE DEF ReservationInv, reservation
  <1>1. CASE Basic
    BY <1>1 DEF Basic, Plain, Load, Store, Arithmetic, UnknownOpCode, Fails
  <1>2. CASE Jump
    BY <1>2 DEF Jump, Branch, JALR
  <1>3. CASE Atomic
    <2>1. ASSUME NEW addr \in Values, NEW size \in {4, 8}, LR(addr, size)
          PROVE  ReservationInv'
      <3>1. addr # None
        BY ControlAssumption DEF None
      <3> QED BY <2>1, <3>1 DEF LR
    <2>2. ASSUME NEW addr \in Values, NEW size \in {4, 8}, SC(addr, size)
          PROVE  ReservationInv'
      BY <2>2 DEF SC
    <2>3. ASSUME NEW addr \in Values, NEW size \in {4, 8}, NEW known \in BOOLEAN,
                 AMO(addr, size, known)
          PROVE  ReservationInv'
      BY <2>3 DEF AMO
    <2>4. ASSUME NEW size \in Sizes, BadAMOSize(size)
          PROVE  ReservationInv'
      BY <2>4 DEF BadAMOSize, Fails
    <2> QED BY <1>3, <2>1, <2>2, <2>3, <2>4 DEF Atomic
  <1>4. CASE sysCall
    BY <1>4
       DEF sysCall, SysExit, SysBrk, SysMmap, SysRead, ReadPreimagePanics, SysWrite, WritePanics, SysFcntl,
           SysOpenat, SysZero, SysClone, SysGetrlimit, SysUnsupported, Fails, Syscall
  <1>5. CASE ExitedStep \/ UNCHANGED vars
    BY <1>5 DEF ExitedStep, vars
  <1> QED BY <1>1, <1>2, <1>3, <1>4, <1>5 DEF Next

\* Only an SC stores under a reservation, and only where the reservation is.
LEMMA StoreStep ==
    ReservationInv /\ [Next]_vars => [stored' # None => stored' \in {reserved, 0}]_vars
  <1> SUFFICES ASSUME ReservationInv, Next, stored' # None, vars' # vars
               PROVE  stored' \in {reserved, 0}
    OBVIOUS
  <1>1. CASE Basic
    BY <1>1 DEF Basic, Plain, Load, Store, Arithmetic, UnknownOpCode, Fails
  <1>2. CASE Jump
    BY <1>2 DEF Jump, Branch, JALR
  <1>3. CASE Atomic
    BY <1>3 DEF Atomic, BadAMOSize, Fails, LR, SC, AMO, ReservationInv
  <1>4. CASE sysCall
    BY <1>4
       DEF sysCall, SysExit, SysBrk, SysMmap, SysRead, ReadPreimagePanics, SysWrite, WritePanics, SysFcntl,
           SysOpenat, SysZero, SysClone, SysGetrlimit, SysUnsupported, Fails, Syscall
  <1>5. CASE ExitedStep
    BY <1>5 DEF ExitedStep
  <1> QED BY <1>1, <1>2, <1>3, <1>4, <1>5 DEF Next

\* An SC stores only to the address of the last LR, or to address zero.
THEOREM ReservationSound == Spec => StoresReserved
  <1>1. Init => ReservationInv
    BY DEF Init, ReservationInv
  <1> QED BY <1>1, ReservationStep, StoreStep, PTL DEF Spec, StoresReserved

-----------------------------------------------------------------------------
(* The heap.                                                               *)

\* Rounding never makes a length smaller, nor larger by a page, as long as the
\* page fits into the address space.
LEMMA PagesOfBounds ==
    ASSUME NEW length \in Word, length + PageSize <= AddrSpace
    PROVE  PagesOf(length) \in length..(length + PageSize - 1)
  <1> USE ControlAssumption DEF Word
  <1>1. CASE length % PageSize = 0
    BY <1>1 DEF PagesOf
  <1>2. CASE length % PageSize # 0
    <2> DEFINE sum == length + (PageSize - (length % PageSize))
    <2>1. length % PageSize \in 0..(PageSize - 1)
      BY ModInRange
    <2>2. sum \in length..(length + PageSize - 1)
      BY <1>2, <2>1
    <2>3. sum < AddrSpace /\ sum \in Nat
      BY <2>2
    <2> HIDE DEF sum
    <2>4. sum % AddrSpace = sum
      BY <2>3, ModInRange
    <2> QED BY <1>2, <2>2, <2>4 DEF PagesOf, sum
  <1> QED BY <1>1, <1>2

\* Regions are numbered by the steps that made them, so the next one is the last.
HeapInv ==
    /\ step \in Nat
    /\ Heap \in Word
    /\ regions \subseteq [start : Word, length : Word, at : Nat]
    /\ overrun \in BOOLEAN
    /\ \A r \in regions : r.at < step
    /\ ~overrun => Heap >= HeapStart
    /\ RegionsDisjoint

\* Every step keeps the invariant of the heap.
LEMMA HeapStep == HeapInv /\ [Next]_vars => HeapInv'
  <1> SUFFICES ASSUME HeapInv, [Next]_vars
               PROVE  HeapInv'
    OBVIOUS
  <1>a. ASSUME UNCHANGED heap, step' \in {step, step + 1}
        PROVE  HeapInv'
    BY <1>a DEF HeapInv, heap, RegionsDisjoint
  <1>1. CASE Basic
    BY <1>1, <1>a DEF Basic, Plain, Load, Store, Arithmetic, UnknownOpCode, Fails, Begin
  <1>2. CASE Jump
    BY <1>2, <1>a DEF Jump, Branch, JALR, Begin
  <1>3. CASE Atomic
    BY <1>3, <1>a DEF Atomic, BadAMOSize, Fails, LR, SC, AMO, Begin
  <1>4. ASSUME NEW addr \in Values, NEW length \in Values, NEW anonymous \in BOOLEAN,
               SysMmap(addr, length, anonymous)
        PROVE  HeapInv'
    <2> DEFINE new == [start |-> Heap, length |-> length, at |-> step]
    <2>1. CASE UNCHANGED heap
      BY <1>4, <2>1, <1>a DEF SysMmap, Begin
    <2>2. CASE /\ Heap' = Grow(length)
               /\ regions' = regions \union {new}
               /\ overrun' = (overrun \/ Heap + length + PageSize > AddrSpace)
      <3>1. length \in Word /\ Heap \in Word /\ step' = step + 1 /\ step \in Nat
        BY <1>4, ControlAssumption DEF SysMmap, Begin, HeapInv, Word
      <3>2. PagesOf(length) \in Nat
        <4>1. length \in Nat /\ length % PageSize \in 0..(PageSize - 1)
          BY <3>1, ControlAssumption, ModInRange DEF Word
        <4>2. length + (PageSize - (length % PageSize)) \in Nat
          BY <4>1, ControlAssumption
        <4>3. (length + (PageSize - (length % PageSize))) % AddrSpace \in Nat
          BY <4>2, ControlAssumption, ModInRange
        <4>4. CASE length % PageSize = 0
          BY <4>1, <4>4 DEF PagesOf
        <4>5. CASE length % PageSize # 0
          BY <4>3, <4>5 DEF PagesOf
        <4> QED BY <4>4, <4>5
      <3>3. Heap' \in Word
        <4> DEFINE top == Heap + PagesOf(length)
        <4>1. top \in Nat
          BY <3>1, <3>2, ControlAssumption DEF Word
        <4> HIDE DEF top
        <4>2. top % AddrSpace \in 0..(AddrSpace - 1)
          BY <4>1, ControlAssumption, ModInRange
        <4> QED BY <2>2, <4>2 DEF Grow, Word, top
      <3>4. regions' \subseteq [start : Word, length : Word, at : Nat]
        BY <2>2, <3>1 DEF HeapInv
      <3>5. \A r \in regions' : r.at < step'
        BY <2>2, <3>1, <3>4 DEF HeapInv
      <3>6. ASSUME ~overrun'
            PROVE  ~overrun /\ Heap' >= Heap + length /\ Heap >= HeapStart
        <4>0. ~overrun /\ ~(Heap + length + PageSize > AddrSpace)
          BY <2>2, <3>6, Zenon
        <4>1. ~overrun /\ Heap + length + PageSize <= AddrSpace
          BY <4>0, <3>1, ControlAssumption DEF Word
        <4>2. PagesOf(length) \in length..(length + PageSize - 1)
          BY <3>1, <4>1, PagesOfBounds, ControlAssumption DEF Word
        <4>3. Heap + PagesOf(length) \in Nat /\ Heap + PagesOf(length) < AddrSpace
          BY <3>1, <4>1, <4>2, ControlAssumption DEF Word
        <4>4. Heap' = Heap + PagesOf(length)
          BY <2>2, <4>3, ModInRange, ControlAssumption, SMTT(20) DEF Grow
        <4> QED BY <3>1, <4>1, <4>2, <4>4, ControlAssumption DEF Word, HeapInv
      <3>7. ASSUME ~overrun'
            PROVE  /\ \A r \in regions' : r.start >= HeapStart /\ r.start + r.length <= Heap'
                   /\ \A r, t \in regions' : r.at < t.at => r.start + r.length <= t.start
        <4>1. \A r \in regions : /\ r.start \in Nat /\ r.length \in Nat /\ r.at < step
                                 /\ r.start >= HeapStart /\ r.start + r.length <= Heap
          BY <3>6, <3>7 DEF HeapInv, RegionsDisjoint, Word
        <4>2. \A r, t \in regions : r.at < t.at => r.start + r.length <= t.start
          BY <3>6, <3>7 DEF HeapInv, RegionsDisjoint
        <4>3. \A r \in regions' : r.start >= HeapStart /\ r.start + r.length <= Heap'
          BY <2>2, <3>1, <3>3, <3>6, <3>7, <4>1, ControlAssumption DEF Word
        <4>4. \A r, t \in regions' : r.at < t.at => r.start + r.length <= t.start
          <5> SUFFICES ASSUME NEW r \in regions', NEW t \in regions', r.at < t.at
                       PROVE  r.start + r.length <= t.start
            OBVIOUS
          <5>1. CASE r \in regions /\ t \in regions
            BY <5>1, <4>2
          <5>2. CASE r \in regions /\ t = new
            BY <5>2, <4>1
          <5>3. CASE r = new
            <6>1. t \in regions \/ t = new
              BY <2>2
            <6>2. t.at <= step /\ r.at = step /\ t.at \in Int
              BY <5>3, <6>1, <3>1, <4>1 DEF HeapInv
            <6> QED BY <6>2, <3>1
          <5> QED BY <2>2, <5>1, <5>2, <5>3
        <4> QED BY <4>3, <4>4
      <3>8. ~overrun' => Heap' >= HeapStart
        BY <3>1, <3>3, <3>6, ControlAssumption DEF Word
      <3>9. overrun' \in BOOLEAN
        BY <2>2
      <3> QED BY <3>1, <3>3, <3>4, <3>5, <3>7, <3>8, <3>9 DEF HeapInv, RegionsDisjoint
    <2> QED BY <1>4, <2>1, <2>2 DEF SysMmap
  <1>5. CASE sysCall /\ UNCHANGED heap
    BY <1>5, <1>a
       DEF sysCall, SysExit, SysBrk, SysMmap, SysRead, ReadPreimagePanics, SysWrite, WritePanics, SysFcntl,
           SysOpenat, SysZero, SysClone, SysGetrlimit, SysUnsupported, Fails, Syscall, Begin
  <1>6. CASE sysCall
    BY <1>4, <1>5, <1>6
       DEF sysCall, SysExit, SysBrk, SysRead, ReadPreimagePanics, SysWrite, WritePanics, SysFcntl,
           SysOpenat, SysZero, SysClone, SysGetrlimit, SysUnsupported, Fails, Syscall
  <1>7. CASE ExitedStep \/ UNCHANGED vars
    BY <1>7, <1>a DEF ExitedStep, vars, control
  <1> QED BY <1>1, <1>2, <1>3, <1>6, <1>7 DEF Next

\* The regions that mmap chooses never overlap, for any sequence of lengths that
\* the address space has room for.
THEOREM MmapDisjoint == Spec => []RegionsDisjoint
  <1>1. Init => HeapInv
    <2> SUFFICES ASSUME Init PROVE HeapInv
      OBVIOUS
    <2>1. overrun \in BOOLEAN
      BY Zenon DEF Init
    <2>2. /\ step \in Nat
          /\ Heap \in Word
          /\ Heap >= HeapStart
      BY ControlAssumption DEF Init, Word
    <2>3. /\ regions = {}
          /\ RegionsDisjoint
      BY Zenon DEF Init, RegionsDisjoint
    <2> QED BY <2>1, <2>2, <2>3 DEF HeapInv
  <1>2. HeapInv => RegionsDisjoint
    BY DEF HeapInv
  <1> QED BY <1>1, <1>2, HeapStep, PTL DEF Spec

-----------------------------------------------------------------------------
(* The modes of descriptors.                                               *)

\* What fcntl has last told of a descriptor is what AccessMode says of it, and it
\* has told of no other than the eight descriptors.
ToldInv ==
    /\ told.fd \in FD \union {None}
    /\ told.fd = None => told.mode = None
    /\ told.fd \in 0..6 => told.mode = AccessMode(told.fd)
    /\ told.fd = 7 => told.mode = None

ModesInv == ToldInv /\ ModesAgree

\* Every step keeps ToldInv.
LEMMA ToldStep == ToldInv /\ [Next]_vars => ToldInv'
  <1> SUFFICES ASSUME ToldInv, [Next]_vars
               PROVE  ToldInv'
    OBVIOUS
  <1>a. ASSUME UNCHANGED told PROVE ToldInv'
    BY <1>a DEF ToldInv, AccessMode
  <1>1. CASE Basic
    BY <1>1, <1>a DEF Basic, Plain, Load, Store, Arithmetic, UnknownOpCode, Fails, NoSyscall
  <1>2. CASE Jump
    BY <1>2, <1>a DEF Jump, Branch, JALR, NoSyscall
  <1>3. CASE Atomic
    BY <1>3, <1>a DEF Atomic, BadAMOSize, Fails, LR, SC, AMO, NoSyscall
  <1>4. ASSUME NEW fd \in FD, NEW cmd \in {1, 2, 3}, SysFcntl(fd, cmd)
        PROVE  ToldInv'
    <2>1. CASE fd \in 0..6 /\ told' = [fd |-> fd, mode |-> AccessMode(fd)]
      BY <2>1 DEF ToldInv, FD, None, AccessMode
    <2>2. CASE fd \notin 0..6 /\ told' = [fd |-> fd, mode |-> None]
      BY <2>2 DEF ToldInv, FD, None
    <2> QED BY <1>4, <1>a, <2>1, <2>2 DEF SysFcntl
  <1>5. CASE sysCall
    BY <1>4, <1>5, <1>a
       DEF sysCall, SysExit, SysBrk, SysMmap, SysRead, ReadPreimagePanics, SysWrite, WritePanics,
           SysOpenat, SysZero, SysClone, SysGetrlimit, SysUnsupported, Fails, NoSyscall
  <1>6. CASE ExitedStep \/ UNCHANGED vars
    BY <1>6, <1>a DEF ExitedStep, vars
  <1> QED BY <1>1, <1>2, <1>3, <1>5, <1>6 DEF Next

\* A step that is neither a read nor a write says nothing about modes.
LEMMA OtherCall ==
    ASSUME ret'.call \notin {"read", "write"} PROVE ModesAgree'
  BY DEF ModesAgree

\* Every step keeps ModesInv.
LEMMA ModesStep == ModesInv /\ [Next]_vars => ModesInv'
  <1> SUFFICES ASSUME ToldInv, ModesAgree, [Next]_vars
               PROVE  ModesAgree'
    BY ToldStep DEF ModesInv
  <1>n. ASSUME NoSyscall PROVE ModesAgree'
    BY <1>n, OtherCall DEF NoSyscall, NoCall
  <1>1. CASE Basic
    BY <1>1, <1>n DEF Basic, Plain, Load, Store, Arithmetic, UnknownOpCode, Fails
  <1>2. CASE Jump
    BY <1>2, <1>n DEF Jump, Branch, JALR
  <1>3. CASE Atomic
    BY <1>3, <1>n DEF Atomic, BadAMOSize, Fails, LR, SC, AMO
  <1>4. ASSUME NEW fd \in FD, NEW count \in Values, SysRead(fd, count)
        PROVE  ModesAgree'
    <2>1. told' = told /\ ret'.call = "read" /\ ret'.fd = fd
      BY <1>4 DEF SysRead, Syscall, Return
    <2>2. ret'.a1 = NoError <=> fd \in {0, 3, 5}
      BY <1>4 DEF SysRead, Syscall, Return, NoError, EBADF
    <2>3. told.fd = fd => (fd \in {0, 3, 5} <=> told.mode = 0)
      BY DEF ToldInv, FD, AccessMode, None
    <2> QED BY <2>1, <2>2, <2>3 DEF ModesAgree
  <1>5. ASSUME NEW fd \in FD, NEW count \in Values, SysWrite(fd, count)
        PROVE  ModesAgree'
    <2>1. told' = told /\ ret'.call = "write" /\ ret'.fd = fd
      BY <1>5 DEF SysWrite, Syscall, Return
    <2>2. ret'.a1 = NoError <=> fd \in {1, 2, 4, 6}
      BY <1>5 DEF SysWrite, Syscall, Return, NoError, EBADF
    <2>3. told.fd = fd => (fd \in {1, 2, 4, 6} <=> told.mode = 1)
      BY DEF ToldInv, FD, AccessMode, None
    <2> QED BY <2>1, <2>2, <2>3 DEF ModesAgree
  <1>6. CASE \E a0 \in Values : SysExit(a0)
    BY <1>6, <1>n DEF SysExit
  <1>7. CASE SysBrk \/ SysOpenat \/ SysZero \/ SysClone
    BY <1>7, OtherCall DEF SysBrk, SysOpenat, SysZero, SysClone, Syscall, Return
  <1>8. CASE \E addr, length \in Values, anonymous \in BOOLEAN : SysMmap(addr, length, anonymous)
    BY <1>8, OtherCall DEF SysMmap, Return
  <1>9. CASE \E fd \in FD, cmd \in {1, 2, 3} : SysFcntl(fd, cmd)
    BY <1>9, OtherCall DEF SysFcntl, Syscall, Return
  <1>10. CASE ReadPreimagePanics \/ SysUnsupported \/ \E res \in {0, 7} : SysGetrlimit(res)
    BY <1>10, <1>n, OtherCall
       DEF ReadPreimagePanics, SysUnsupported, SysGetrlimit, Fails, Syscall, Return
  <1>12. ASSUME NEW fd \in FD, NEW count \in Values, WritePanics(fd, count)
         PROVE  ModesAgree'
    BY <1>12, <1>n DEF WritePanics, Fails
  <1>11. CASE ExitedStep \/ UNCHANGED vars
    BY <1>11 DEF ExitedStep, vars, ModesAgree
  <1> QED BY <1>1, <1>2, <1>3, <1>4, <1>5, <1>6, <1>7, <1>8, <1>9, <1>10, <1>11, <1>12
          DEF Next, sysCall

\* read and write succeed on exactly the descriptors that fcntl reports open in
\* their mode, after every sequence of calls.
THEOREM ModesAlwaysAgree == Spec => []ModesAgree
  <1>1. Init => ModesInv
    BY DEF Init, ModesInv, ToldInv, ModesAgree, NoCall, None, FD
  <1>2. ModesInv => ModesAgree
    BY DEF ModesInv
  <1> QED BY <1>1, <1>2, ModesStep, PTL DEF Spec

-----------------------------------------------------------------------------
(* The two VMs side by side.                                               *)

\* Rounding up a length in the slow VM, where every operation masks its result, is
\* rounding up in the fast VM.
LEMMA SameRounding ==
    ASSUME NEW length \in Word
    PROVE  Slow!mmapLength(length) = PagesOf(length)
  <1> DEFINE align == length % PageSize
  <1>1. align \in 0..(PageSize - 1)
    BY ControlAssumption, ModInRange DEF Word
  <1>2. CASE align = 0
    BY <1>2 DEF Slow!mmapLength, Slow!mod64, PagesOf
  <1>3. CASE align # 0
    <2> DEFINE left == PageSize - align
    <2>1. left \in Nat /\ left < AddrSpace
      BY <1>1, <1>3, ControlAssumption
    <2> HIDE DEF left
    <2>2. (left + AddrSpace) % AddrSpace = left
      BY <2>1, ControlAssumption
    <2>3. Slow!sub64(PageSize, align) = left
      BY <2>2 DEF Slow!sub64, left
    <2> QED BY <1>3, <2>3 DEF Slow!mmapLength, Slow!mod64, Slow!add64, PagesOf, left
  <1> QED BY <1>2, <1>3

\* The step counter, while it does not wrap around.
LEMMA SameCounter ==
    ASSUME step \in Nat, Begin
    PROVE  Slow!add64(step, 1) = step' /\ step' \in Nat
  <1>0. MaxSteps \in Nat /\ AddrSpace \in Nat \ {0} /\ MaxSteps < AddrSpace
    BY ControlAssumption
  <1>1. step' = step + 1 /\ step' \in Nat /\ step' < AddrSpace
    BY <1>0 DEF Begin
  <1>2. step' % AddrSpace = step'
    BY <1>0, <1>1, ModInRange
  <1> QED BY <1>1, <1>2 DEF Slow!add64

\* A state of the slow VM.
State(at, n, top, lr, ended, code, error, a0, a1, addr) ==
    [pc |-> at, step |-> n, Heap |-> top, LoadReservation |-> lr, exited |-> ended,
     exitCode |-> code, failed |-> error, a0 |-> a0, a1 |-> a1, stored |-> addr]

\* The fields of a state.
LEMMA Fields ==
    ASSUME NEW at, NEW n, NEW top, NEW lr, NEW ended, NEW code, NEW error, NEW a0, NEW a1,
           NEW addr, NEW s, s = State(at, n, top, lr, ended, code, error, a0, a1, addr)
    PROVE  s.pc = at /\ s.step = n /\ s.Heap = top /\ s.LoadReservation = lr
  BY DEF State

\* What the assignment of one field does to a state.
LEMMA SetPC ==
    ASSUME NEW at, NEW n, NEW top, NEW lr, NEW ended, NEW code, NEW error, NEW a0, NEW a1,
           NEW addr, NEW x
    PROVE  [State(at, n, top, lr, ended, code, error, a0, a1, addr) EXCEPT !.pc = x]
              = State(x, n, top, lr, ended, code, error, a0, a1, addr)
  BY DEF State

\* One field of a state set: the step counter,
LEMMA SetCounter ==
    ASSUME NEW at, NEW n, NEW top, NEW lr, NEW ended, NEW code, NEW error, NEW a0, NEW a1,
           NEW addr, NEW x
    PROVE  [State(at, n, top, lr, ended, code, error, a0, a1, addr) EXCEPT !.step = x]
              = State(at, x, top, lr, ended, code, error, a0, a1, addr)
  BY DEF State

\* the heap pointer,
LEMMA SetHeap ==
    ASSUME NEW at, NEW n, NEW top, NEW lr, NEW ended, NEW code, NEW error, NEW a0, NEW a1,
           NEW addr, NEW x
    PROVE  [State(at, n, top, lr, ended, code, error, a0, a1, addr) EXCEPT !.Heap = x]
              = State(at, n, x, lr, ended, code, error, a0, a1, addr)
  BY DEF State

\* the reservation,
LEMMA SetReservation ==
    ASSUME NEW at, NEW n, NEW top, NEW lr, NEW ended, NEW code, NEW error, NEW a0, NEW a1,
           NEW addr, NEW x
    PROVE  [State(at, n, top, lr, ended, code, error, a0, a1, addr) EXCEPT !.LoadReservation = x]
              = State(at, n, top, x, ended, code, error, a0, a1, addr)
  BY DEF State

\* the exit flag,
LEMMA SetExited ==
    ASSUME NEW at, NEW n, NEW top, NEW lr, NEW ended, NEW code, NEW error, NEW a0, NEW a1,
           NEW addr, NEW x
    PROVE  [State(at, n, top, lr, ended, code, error, a0, a1, addr) EXCEPT !.exited = x]
              = State(at, n, top, lr, x, code, error, a0, a1, addr)
  BY DEF State

\* the exit code,
LEMMA SetExitCode ==
    ASSUME NEW at, NEW n, NEW top, NEW lr, NEW ended, NEW code, NEW error, NEW a0, NEW a1,
           NEW addr, NEW x
    PROVE  [State(at, n, top, lr, ended, code, error, a0, a1, addr) EXCEPT !.exitCode = x]
              = State(at, n, top, lr, ended, x, error, a0, a1, addr)
  BY DEF State

\* the error,
LEMMA SetFailed ==
    ASSUME NEW at, NEW n, NEW top, NEW lr, NEW ended, NEW code, NEW error, NEW a0, NEW a1,
           NEW addr, NEW x
    PROVE  [State(at, n, top, lr, ended, code, error, a0, a1, addr) EXCEPT !.failed = x]
              = State(at, n, top, lr, ended, code, x, a0, a1, addr)
  BY DEF State

\* the first result register,
LEMMA SetA0 ==
    ASSUME NEW at, NEW n, NEW top, NEW lr, NEW ended, NEW code, NEW error, NEW a0, NEW a1,
           NEW addr, NEW x
    PROVE  [State(at, n, top, lr, ended, code, error, a0, a1, addr) EXCEPT !.a0 = x]
              = State(at, n, top, lr, ended, code, error, x, a1, addr)
  BY DEF State

\* the second result register,
LEMMA SetA1 ==
    ASSUME NEW at, NEW n, NEW top, NEW lr, NEW ended, NEW code, NEW error, NEW a0, NEW a1,
           NEW addr, NEW x
    PROVE  [State(at, n, top, lr, ended, code, error, a0, a1, addr) EXCEPT !.a1 = x]
              = State(at, n, top, lr, ended, code, error, a0, x, addr)
  BY DEF State

\* and the address that was stored to.
LEMMA SetStored ==
    ASSUME NEW at, NEW n, NEW top, NEW lr, NEW ended, NEW code, NEW error, NEW a0, NEW a1,
           NEW addr, NEW x
    PROVE  [State(at, n, top, lr, ended, code, error, a0, a1, addr) EXCEPT !.stored = x]
              = State(at, n, top, lr, ended, code, error, a0, a1, x)
  BY DEF State

\* What a system call returns.
Returned(s, x, y) == [s EXCEPT !.a0 = x, !.a1 = y]

\* What a system call returns.
LEMMA SetReturned ==
    ASSUME NEW at, NEW n, NEW top, NEW lr, NEW ended, NEW code, NEW error, NEW a0, NEW a1,
           NEW addr, NEW x, NEW y
    PROVE  Returned(State(at, n, top, lr, ended, code, error, a0, a1, addr), x, y)
              = State(at, n, top, lr, ended, code, error, x, y, addr)
  <1> DEFINE s == State(at, n, top, lr, ended, code, error, a0, a1, addr)
  <1>1. [s EXCEPT !.a0 = x, !.a1 = y]
          = [[s EXCEPT !.a0 = x] EXCEPT !.a1 = y]
    <2> HIDE DEF s
    <2> QED OBVIOUS
  <1>2. [s EXCEPT !.a0 = x]
          = State(at, n, top, lr, ended, code, error, x, a1, addr)
    BY SetA0
  <1>3. [State(at, n, top, lr, ended, code, error, x, a1, addr) EXCEPT !.a1 = y]
          = State(at, n, top, lr, ended, code, error, x, y, addr)
    BY SetA1
  <1> HIDE DEF s
  <1>4. [s EXCEPT !.a0 = x, !.a1 = y]
          = [State(at, n, top, lr, ended, code, error, x, a1, addr) EXCEPT !.a1 = y]
    BY <1>1, <1>2
  <1>5. [s EXCEPT !.a0 = x, !.a1 = y]
          = State(at, n, top, lr, ended, code, error, x, y, addr)
    BY <1>4, <1>3
  <1> QED BY <1>5 DEF s, Returned

\* How a program ends.
Ended(s, x, y) == [s EXCEPT !.exitCode = x, !.exited = y]

\* What the exit calls leave.
LEMMA SetExit ==
    ASSUME NEW at, NEW n, NEW top, NEW lr, NEW ended, NEW code, NEW error, NEW a0, NEW a1,
           NEW addr, NEW x, NEW y
    PROVE  Ended(State(at, n, top, lr, ended, code, error, a0, a1, addr), x, y)
              = State(at, n, top, lr, y, x, error, a0, a1, addr)
  <1> DEFINE s == State(at, n, top, lr, ended, code, error, a0, a1, addr)
  <1>1. [s EXCEPT !.exitCode = x, !.exited = y]
          = [[s EXCEPT !.exitCode = x] EXCEPT !.exited = y]
    <2> HIDE DEF s
    <2> QED OBVIOUS
  <1>2. [s EXCEPT !.exitCode = x]
          = State(at, n, top, lr, ended, x, error, a0, a1, addr)
    BY SetExitCode
  <1>3. [State(at, n, top, lr, ended, x, error, a0, a1, addr) EXCEPT !.exited = y]
          = State(at, n, top, lr, y, x, error, a0, a1, addr)
    BY SetExited
  <1> HIDE DEF s
  <1>4. [s EXCEPT !.exitCode = x, !.exited = y]
          = [State(at, n, top, lr, ended, x, error, a0, a1, addr) EXCEPT !.exited = y]
    BY <1>1, <1>2
  <1>5. [s EXCEPT !.exitCode = x, !.exited = y]
          = State(at, n, top, lr, y, x, error, a0, a1, addr)
    BY <1>4, <1>3
  <1> QED BY <1>5 DEF s, Ended

\* What a store under a reservation leaves.
Conditional(s, x, y) == [s EXCEPT !.stored = x, !.LoadReservation = y]

\* What a store-conditional leaves.
LEMMA SetConditional ==
    ASSUME NEW at, NEW n, NEW top, NEW lr, NEW ended, NEW code, NEW error, NEW a0, NEW a1,
           NEW addr, NEW x, NEW y
    PROVE  Conditional(State(at, n, top, lr, ended, code, error, a0, a1, addr), x, y)
              = State(at, n, top, y, ended, code, error, a0, a1, x)
  <1> DEFINE s == State(at, n, top, lr, ended, code, error, a0, a1, addr)
  <1>1. [s EXCEPT !.stored = x, !.LoadReservation = y]
          = [[s EXCEPT !.stored = x] EXCEPT !.LoadReservation = y]
    <2> HIDE DEF s
    <2> QED OBVIOUS
  <1>2. [s EXCEPT !.stored = x]
          = State(at, n, top, lr, ended, code, error, a0, a1, x)
    BY SetStored
  <1>3. [State(at, n, top, lr, ended, code, error, a0, a1, x) EXCEPT !.LoadReservation = y]
          = State(at, n, top, y, ended, code, error, a0, a1, x)
    BY SetReservation
  <1> HIDE DEF s
  <1>4. [s EXCEPT !.stored = x, !.LoadReservation = y]
          = [State(at, n, top, lr, ended, code, error, a0, a1, x) EXCEPT !.LoadReservation = y]
    BY <1>1, <1>2
  <1>5. [s EXCEPT !.stored = x, !.LoadReservation = y]
          = State(at, n, top, y, ended, code, error, a0, a1, x)
    BY <1>4, <1>3
  <1> QED BY <1>5 DEF s, Conditional

\* A state one instruction ahead, after a call that has returned x.
Slipped(s, x) == [s EXCEPT !.pc = (@ + 4) % AddrSpace, !.failed = "no", !.a0 = x]

\* What completing a system call leaves, where the other VM has panicked in it.
LEMMA SetAhead ==
    ASSUME NEW at, NEW n, NEW top, NEW lr, NEW ended, NEW code, NEW error, NEW a0, NEW a1,
           NEW addr, NEW x
    PROVE  Slipped(State(at, n, top, lr, ended, code, error, a0, a1, addr), x)
              = State((at + 4) % AddrSpace, n, top, lr, ended, code, "no", x, a1, addr)
  <1> DEFINE s == State(at, n, top, lr, ended, code, error, a0, a1, addr)
             next == (at + 4) % AddrSpace
  <1>0. s.pc = at
    BY Fields
  <1>1. Slipped(s, x) = [[[s EXCEPT !.pc = next] EXCEPT !.failed = "no"] EXCEPT !.a0 = x]
    <2> HIDE DEF s
    <2> QED BY <1>0 DEF Slipped
  <1> HIDE DEF next
  <1>2. [s EXCEPT !.pc = next] = State(next, n, top, lr, ended, code, error, a0, a1, addr)
    BY SetPC
  <1>3. [State(next, n, top, lr, ended, code, error, a0, a1, addr) EXCEPT !.failed = "no"]
          = State(next, n, top, lr, ended, code, "no", a0, a1, addr)
    BY SetFailed
  <1>4. [State(next, n, top, lr, ended, code, "no", a0, a1, addr) EXCEPT !.a0 = x]
          = State(next, n, top, lr, ended, code, "no", x, a1, addr)
    BY SetA0
  <1> HIDE DEF s
  <1>5. Slipped(s, x)
          = [[State(next, n, top, lr, ended, code, error, a0, a1, addr)
                EXCEPT !.failed = "no"] EXCEPT !.a0 = x]
    BY <1>1, <1>2
  <1>6. Slipped(s, x) = State(next, n, top, lr, ended, code, "no", x, a1, addr)
    BY <1>5, <1>3, <1>4
  <1> QED BY <1>6 DEF s, next

\* What begins a step.
Begun(s, x) == [s EXCEPT !.step = x, !.a0 = 0, !.a1 = 0, !.stored = None]

\* What the start of a step leaves.
LEMMA SetBegin ==
    ASSUME NEW at, NEW n, NEW top, NEW lr, NEW ended, NEW code, NEW error, NEW a0, NEW a1,
           NEW addr, NEW x
    PROVE  Begun(State(at, n, top, lr, ended, code, error, a0, a1, addr), x)
              = State(at, x, top, lr, ended, code, error, 0, 0, None)
  <1> DEFINE s == State(at, n, top, lr, ended, code, error, a0, a1, addr)
  <1>1. [s EXCEPT !.step = x, !.a0 = 0, !.a1 = 0, !.stored = None]
          = [[[[s EXCEPT !.step = x] EXCEPT !.a0 = 0] EXCEPT !.a1 = 0] EXCEPT !.stored = None]
    <2> HIDE DEF s
    <2> QED OBVIOUS
  <1>2. [s EXCEPT !.step = x]
          = State(at, x, top, lr, ended, code, error, a0, a1, addr)
    BY SetCounter
  <1>3. [State(at, x, top, lr, ended, code, error, a0, a1, addr) EXCEPT !.a0 = 0]
          = State(at, x, top, lr, ended, code, error, 0, a1, addr)
    BY SetA0
  <1>4. [State(at, x, top, lr, ended, code, error, 0, a1, addr) EXCEPT !.a1 = 0]
          = State(at, x, top, lr, ended, code, error, 0, 0, addr)
    BY SetA1
  <1>5. [State(at, x, top, lr, ended, code, error, 0, 0, addr) EXCEPT !.stored = None]
          = State(at, x, top, lr, ended, code, error, 0, 0, None)
    BY SetStored
  <1> HIDE DEF s
  <1>6. [s EXCEPT !.step = x, !.a0 = 0, !.a1 = 0, !.stored = None]
          = [[[State(at, x, top, lr, ended, code, error, a0, a1, addr)
                 EXCEPT !.a0 = 0] EXCEPT !.a1 = 0] EXCEPT !.stored = None]
    BY <1>1, <1>2
  <1>7. [s EXCEPT !.step = x, !.a0 = 0, !.a1 = 0, !.stored = None]
          = [[State(at, x, top, lr, ended, code, error, 0, a1, addr)
                EXCEPT !.a1 = 0] EXCEPT !.stored = None]
    BY <1>6, <1>3
  <1>8. [s EXCEPT !.step = x, !.a0 = 0, !.a1 = 0, !.stored = None]
          = [State(at, x, top, lr, ended, code, error, 0, 0, addr) EXCEPT !.stored = None]
    BY <1>7, <1>4
  <1>9. [s EXCEPT !.step = x, !.a0 = 0, !.a1 = 0, !.stored = None]
          = State(at, x, top, lr, ended, code, error, 0, 0, None)
    BY <1>8, <1>5
  <1> QED BY <1>9 DEF s, Begun

\* What a step over an instruction leaves.
LEMMA SetNextPC ==
    ASSUME NEW at, NEW n, NEW top, NEW lr, NEW ended, NEW code, NEW error, NEW a0, NEW a1,
           NEW addr
    PROVE  Slow!nextPC(State(at, n, top, lr, ended, code, error, a0, a1, addr))
              = State((at + 4) % AddrSpace, n, top, lr, ended, code, error, a0, a1, addr)
  BY SetPC, Fields DEF Slow!nextPC, Slow!add64

\* What begins every step of the slow VM.
LEMMA SlowBegin ==
    ASSUME slow = Fast, step \in Nat, Begin
    PROVE  Slow!setStep(slow) = State(pc, step', Heap, LoadReservation, exited, exitCode,
                                      failed, 0, 0, None)
  <1>1. slow = State(pc, step, Heap, LoadReservation, exited, exitCode, failed,
                     ret.a0, ret.a1, stored)
    BY DEF Fast, State
  <1>2. slow.step = step
    BY <1>1, Fields
  <1>3. Slow!setStep(slow) = Begun(slow, step')
    BY <1>2, SameCounter DEF Slow!setStep, Slow!None, None, Begun
  <1> QED BY <1>1, <1>3, SetBegin

\* The inductive strengthening of SlowInStep: the step counter has not wrapped around.
LockInv == step \in Nat /\ SlowInStep

\* Every step of the two VMs together keeps LockInv.
LEMMA LockInvStep == LockInv /\ [LockNext]_<<vars, slow>> => LockInv'
  <1>u. ASSUME SlowInStep, UNCHANGED <<vars, slow>> PROVE SlowInStep' /\ step' = step
    BY <1>u DEF SlowInStep, Ahead, Fast, vars, control, heap, reservation
  <1>x. ASSUME SlowInStep, ExitedStep, slow' = Slow!exitedStep(slow)
        PROVE  SlowInStep' /\ step' = step
    BY <1>u, <1>x DEF ExitedStep, Slow!exitedStep
  <1>y. LockNext => Begin \/ (ExitedStep /\ slow' = Slow!exitedStep(slow))
    <2>1. Basic \/ Jump \/ Atomic => Begin
      BY DEF Basic, Plain, Load, Store, Arithmetic, UnknownOpCode, Fails, Jump, Branch, JALR,
             Atomic, BadAMOSize, LR, SC, AMO
    <2>2. sysCall => Begin
      BY DEF sysCall, SysExit, SysBrk, SysMmap, SysRead, ReadPreimagePanics, SysWrite, WritePanics,
             SysFcntl, SysOpenat, SysZero, SysClone, SysGetrlimit, SysUnsupported, Fails, Syscall
    <2>3. LockInstruction => Basic \/ (ExitedStep /\ slow' = Slow!exitedStep(slow))
      BY DEF LockInstruction, Basic
    <2>4. LockJump => Jump
      <3>1. ASSUME NEW offset \in Offsets, Branch(TRUE, offset) PROVE Jump
        BY <3>1 DEF Jump
      <3> QED BY <3>1 DEF LockJump, Jump
    <2>5. LockAtomic => Atomic
      BY DEF LockAtomic, Atomic
    <2>6. LockSyscall => sysCall
      BY DEF LockSyscall, sysCall
    <2> QED BY <2>1, <2>2, <2>3, <2>4, <2>5, <2>6 DEF LockNext
  <1> SUFFICES ASSUME step \in Nat, slow = Fast, failed = "no", Begin, LockNext
               PROVE  step' \in Nat /\ SlowInStep'
    <2>1. ASSUME step \in Nat, SlowInStep, LockNext, Begin
          PROVE  slow = Fast /\ failed = "no"
      BY <2>1 DEF SlowInStep, Begin
    <2> QED BY <1>u, <1>x, <1>y, <2>1 DEF LockInv
  <1> DEFINE begun == State(pc, step', Heap, LoadReservation, exited, exitCode, failed,
                            0, 0, None)
             after == State(pc', step', Heap', LoadReservation', exited', exitCode', failed',
                            ret'.a0, ret'.a1, stored')
  <1>b. Begin => Slow!setStep(slow) = begun /\ step' \in Nat
    BY SlowBegin, SameCounter
  <1>f. slow.pc = pc /\ slow.Heap = Heap
    BY DEF Fast
  <1>g. failed' # "panic" /\ slow' = after => SlowInStep'
    BY DEF SlowInStep, Fast, State
  <1>n. NoSyscall => ret'.a0 = 0 /\ ret'.a1 = 0
    BY DEF NoSyscall, NoCall
  <1>h. /\ UNCHANGED heap => Heap' = Heap
        /\ UNCHANGED reservation => LoadReservation' = LoadReservation
    BY DEF heap, reservation
  <1>r. ASSUME NEW code, code # "panic", Begin, Revert(code), stored' = None, NoSyscall,
               UNCHANGED <<heap, reservation, exited, exitCode>>,
               slow' = Slow!revertWithCode(Slow!setStep(slow), code)
        PROVE  step' \in Nat /\ SlowInStep'
    BY <1>b, <1>g, <1>h, <1>n, <1>r, SetFailed DEF Revert, Slow!revertWithCode
  <1>p. ASSUME Begin
        PROVE  Slow!nextPC(Slow!setStep(slow))
                  = State((pc + 4) % AddrSpace, step', Heap, LoadReservation, exited, exitCode,
                          failed, 0, 0, None)
    BY <1>b, <1>p, SetNextPC
  <1>a. Advance => pc' = (pc + 4) % AddrSpace /\ failed' = failed
    BY DEF Advance
  <1> HIDE DEF begun
  <1>1. CASE LockInstruction
    <2>1. CASE Plain /\ slow' = Slow!plain(slow)
      BY <1>a, <1>b, <1>g, <1>h, <1>n, <1>p, <2>1 DEF Plain, Slow!plain
    <2>2. ASSUME NEW funct3 \in 0..7, Load(funct3), slow' = Slow!load(slow, funct3)
          PROVE  step' \in Nat /\ SlowInStep'
      BY <1>r, <2>1, <2>2 DEF Load, Fails, Slow!load
    <2>3. ASSUME NEW size \in Sizes, Store(size), slow' = Slow!store(slow, size)
          PROVE  step' \in Nat /\ SlowInStep'
      BY <1>r, <2>1, <2>3 DEF Store, Fails, Slow!store
    <2>4. ASSUME NEW legal \in BOOLEAN, Arithmetic(legal), slow' = Slow!arithmetic(slow, legal)
          PROVE  step' \in Nat /\ SlowInStep'
      BY <1>r, <2>1, <2>4 DEF Arithmetic, Fails, Slow!arithmetic
    <2>5. CASE UnknownOpCode /\ slow' = Slow!unknownOpCode(slow)
      BY <1>r, <2>5 DEF UnknownOpCode, Fails, Slow!unknownOpCode
    <2>6. ~ExitedStep
      BY DEF ExitedStep, Begin
    <2> QED BY <1>1, <2>1, <2>2, <2>3, <2>4, <2>5, <2>6 DEF LockInstruction
  <1>j. ASSUME NEW target, JumpTo(target), Begin, stored' = None, NoSyscall,
               UNCHANGED <<heap, reservation, exited, exitCode>>,
               slow' = Slow!jumpTo(Slow!setStep(slow), target)
        PROVE  step' \in Nat /\ SlowInStep'
    <2>1. CASE target % 4 # 0
      BY <1>j, <1>r, <2>1 DEF JumpTo, Slow!jumpTo, Slow!mod64
    <2>2. CASE target % 4 = 0
      <3>1. slow' = [Slow!setStep(slow) EXCEPT !.pc = target]
        BY <1>j, <2>2 DEF Slow!jumpTo, Slow!mod64
      <3>2. slow' = State(target, step', Heap, LoadReservation, exited, exitCode, failed,
                          0, 0, None)
        BY <1>b, <1>j, <3>1, SetPC DEF begun
      <3>3. pc' = target /\ failed' = failed
        BY <1>j, <2>2 DEF JumpTo
      <3> QED BY <1>b, <1>g, <1>h, <1>j, <1>n, <3>2, <3>3
    <2> QED BY <2>1, <2>2
  <1>2. CASE LockJump
    <2>1. ASSUME NEW hit \in BOOLEAN, NEW offset \in Offsets, Branch(hit, offset),
                 slow' = Slow!branch(slow, hit, offset)
          PROVE  step' \in Nat /\ SlowInStep'
      BY <1>f, <1>j, <2>1 DEF Branch, Slow!branch, Slow!add64
    <2>2. ASSUME NEW offset \in Offsets, Branch(TRUE, offset), slow' = Slow!JAL(slow, offset)
          PROVE  step' \in Nat /\ SlowInStep'
      BY <1>f, <1>j, <2>2 DEF Branch, Slow!JAL, Slow!add64
    <2>3. ASSUME NEW rs1 \in Values, NEW offset \in Offsets, JALR(rs1, offset),
                 slow' = Slow!JALR(slow, rs1, offset)
          PROVE  step' \in Nat /\ SlowInStep'
      BY <1>j, <2>3 DEF JALR, Slow!JALR, Slow!add64, Slow!mod64
    <2> QED BY <1>2, <2>1, <2>2, <2>3 DEF LockJump
  <1>m. ASSUME NEW addr \in Values, NEW size \in {4, 8}, NEW op, Begin,
               slow' = Slow!atomic(slow, op, size, addr)
        PROVE  slow' = IF addr % size # 0
                       THEN Slow!revertWithCode(Slow!setStep(slow), "NotAlignedAddr")
                       ELSE IF op = "LR" THEN Slow!LR(Slow!setStep(slow), addr)
                       ELSE IF op = "SC" THEN Slow!SC(Slow!setStep(slow), addr)
                       ELSE Slow!AMO(Slow!setStep(slow), op = "AMO")
    BY <1>m DEF Slow!atomic, Slow!mod64
  <1>3. CASE LockAtomic
    <2>1. ASSUME NEW addr \in Values, NEW size \in {4, 8}, LR(addr, size),
                 slow' = Slow!atomic(slow, "LR", size, addr)
          PROVE  step' \in Nat /\ SlowInStep'
      <3>1. CASE addr % size # 0
        BY <1>m, <1>r, <2>1, <3>1 DEF LR
      <3>2. CASE addr % size = 0
        <4>1. slow' = [Slow!nextPC(Slow!setStep(slow)) EXCEPT !.LoadReservation = addr]
          BY <1>m, <2>1, <3>2 DEF LR, Slow!LR
        <4>2. slow' = State((pc + 4) % AddrSpace, step', Heap, addr, exited, exitCode, failed,
                            0, 0, None)
          BY <1>p, <2>1, <4>1, SetReservation DEF LR
        <4> QED BY <1>a, <1>b, <1>g, <1>h, <1>n, <2>1, <3>2, <4>2 DEF LR
      <3> QED BY <3>1, <3>2
    <2>2. ASSUME NEW addr \in Values, NEW size \in {4, 8}, SC(addr, size),
                 slow' = Slow!atomic(slow, "SC", size, addr)
          PROVE  step' \in Nat /\ SlowInStep'
      <3>1. CASE addr % size # 0
        BY <1>m, <1>r, <2>2, <3>1 DEF SC
      <3>2. CASE addr % size = 0
        <4> DEFINE where == IF addr = LoadReservation THEN addr ELSE None
        <4>1. slow' = Slow!SC(Slow!setStep(slow), addr)
          BY <1>m, <2>2, <3>2 DEF SC
        <4>2. Slow!setStep(slow).LoadReservation = LoadReservation
          BY <1>b, <2>2, Fields DEF SC, begun
        <4>3. slow' = Conditional(Slow!nextPC(Slow!setStep(slow)), where, 0)
          BY <4>1, <4>2 DEF Slow!SC, None, Slow!None, Conditional
        <4> HIDE DEF where
        <4>4. slow' = State((pc + 4) % AddrSpace, step', Heap, 0, exited, exitCode, failed,
                            0, 0, where)
          BY <1>p, <2>2, <4>3, SetConditional DEF SC
        <4>5. stored' = where
          BY <2>2, <3>2 DEF SC, where
        <4> QED BY <1>a, <1>b, <1>g, <1>h, <1>n, <2>2, <3>2, <4>4, <4>5 DEF SC
      <3> QED BY <3>1, <3>2
    <2>3. ASSUME NEW addr \in Values, NEW size \in {4, 8}, NEW known \in BOOLEAN,
                 AMO(addr, size, known),
                 slow' = Slow!atomic(slow, IF known THEN "AMO" ELSE "unknown", size, addr)
          PROVE  step' \in Nat /\ SlowInStep'
      <3> DEFINE op == IF known THEN "AMO" ELSE "unknown"
      <3>1. op # "LR" /\ op # "SC" /\ (op = "AMO" <=> known)
        OBVIOUS
      <3>2. slow' = Slow!atomic(slow, op, size, addr) /\ Begin
        BY <2>3 DEF AMO
      <3> HIDE DEF op
      <3>3. CASE addr % size # 0
        BY <1>m, <1>r, <2>3, <3>2, <3>3 DEF AMO
      <3>4. CASE addr % size = 0 /\ ~known
        BY <1>m, <1>r, <2>3, <3>1, <3>2, <3>4 DEF AMO, Slow!AMO
      <3>5. CASE addr % size = 0 /\ known
        BY <1>a, <1>b, <1>g, <1>h, <1>n, <1>p, <1>m, <2>3, <3>1, <3>2, <3>5 DEF AMO, Slow!AMO
      <3> QED BY <3>3, <3>4, <3>5
    <2>4. ASSUME NEW addr \in Values, NEW size \in Sizes, BadAMOSize(size),
                 slow' = Slow!atomic(slow, "AMO", size, addr)
          PROVE  step' \in Nat /\ SlowInStep'
      <3>1. slow' = Slow!revertWithCode(Slow!setStep(slow), "BadAMOSize")
        BY <2>4 DEF BadAMOSize, Slow!atomic
      <3> QED BY <1>r, <2>4, <3>1 DEF BadAMOSize, Fails
    <2> QED BY <1>3, <2>1, <2>2, <2>3, <2>4 DEF LockAtomic
  <1>e. ASSUME NEW a0, NEW a1, Begin
        PROVE  Slow!return(Slow!ecall(slow), a0, a1)
                  = State((pc + 4) % AddrSpace, step', Heap, LoadReservation, exited, exitCode,
                          failed, a0, a1, None)
    <2>1. Slow!return(Slow!ecall(slow), a0, a1) = Returned(Slow!nextPC(Slow!setStep(slow)), a0, a1)
      BY DEF Slow!ecall, Slow!return, Returned
    <2> QED BY <1>e, <1>p, <2>1, SetReturned
  <1>t. ASSUME NEW call, NEW fd, NEW a0, NEW a1, Return(call, fd, a0, a1)
        PROVE  ret'.a0 = a0 /\ ret'.a1 = a1
    BY <1>t DEF Return
  <1>s. ASSUME NEW a0, NEW a1, NEW name, NEW fd, Syscall(a0, a1, name, fd),
               slow' = Slow!return(Slow!ecall(slow), a0, a1)
        PROVE  step' \in Nat /\ SlowInStep'
    BY <1>a, <1>b, <1>e, <1>g, <1>h, <1>s, <1>t DEF Syscall
  <1>v. ASSUME Fails("panic")
        PROVE  Fast' = State(pc, step', Heap, LoadReservation, exited, exitCode, "panic", 0, 0, None)
    BY <1>h, <1>n, <1>v DEF Fails, Revert, Fast, State
  <1>z. ASSUME NEW n \in Values, Fails("panic"), slow' = Slow!return(Slow!ecall(slow), n, 0)
        PROVE  step' \in Nat /\ SlowInStep'
    <2>1. slow' = State((pc + 4) % AddrSpace, step', Heap, LoadReservation, exited, exitCode,
                        "no", n, 0, None)
      BY <1>e, <1>z
    <2>2. Fast' = State(pc, step', Heap, LoadReservation, exited, exitCode, "panic", 0, 0, None)
      BY <1>v, <1>z
    <2>3. slow' = Slipped(Fast', n)
      BY <2>1, <2>2, SetAhead
    <2>5. Ahead(n)'
      BY <2>3 DEF Ahead, Slipped
    <2>4. failed' = "panic"
      BY <1>z DEF Fails, Revert
    <2> QED BY <1>b, <1>z, <2>4, <2>5 DEF SlowInStep, Fails
  <1> USE DEF NoError, EBADF, EINVAL, EACCES, u64Mask, Slow!u64Mask
  <1>4. CASE LockSyscall
    <2>1. ASSUME NEW a0 \in Values, SysExit(a0), slow' = Slow!sysExit(slow, a0)
          PROVE  step' \in Nat /\ SlowInStep'
      <3>1. slow' = Ended(Slow!nextPC(Slow!setStep(slow)), a0 % ExitCodes, TRUE)
        BY <2>1 DEF Slow!sysExit, Slow!ecall, Slow!mod64, Ended
      <3>2. slow' = State((pc + 4) % AddrSpace, step', Heap, LoadReservation, TRUE,
                          a0 % ExitCodes, failed, 0, 0, None)
        <4> DEFINE yes == TRUE
        <4>1. slow' = Ended(Slow!nextPC(Slow!setStep(slow)), a0 % ExitCodes, yes)
          BY <3>1
        <4> HIDE DEF yes
        <4>2. slow' = State((pc + 4) % AddrSpace, step', Heap, LoadReservation, yes,
                            a0 % ExitCodes, failed, 0, 0, None)
          BY <1>p, <2>1, <4>1, SetExit DEF SysExit
        <4> QED BY <4>2 DEF yes
      <3> QED BY <1>a, <1>b, <1>g, <1>h, <1>n, <2>1, <3>2 DEF SysExit
    <2>2. CASE SysBrk /\ slow' = Slow!sysBrk(slow)
      BY <1>s, <2>2 DEF SysBrk, Slow!sysBrk
    <2>3. ASSUME NEW addr \in Values, NEW length \in Values, NEW anonymous \in BOOLEAN,
                 SysMmap(addr, length, anonymous),
                 slow' = Slow!sysMmap(slow, addr, length, anonymous)
          PROVE  step' \in Nat /\ SlowInStep'
      <3>1. Slow!mmapLength(length) = PagesOf(length)
        BY SameRounding, ControlAssumption DEF Word
      <3>2. Begin /\ Advance /\ stored' = None /\ exited' = exited /\ exitCode' = exitCode
              /\ LoadReservation' = LoadReservation
        BY <1>h, <2>3 DEF SysMmap
      <3>3. CASE ~anonymous
        BY <1>a, <1>b, <1>e, <1>g, <1>h, <1>t, <2>3, <3>2, <3>3 DEF SysMmap, Slow!sysMmap
      <3>4. CASE anonymous /\ addr # 0
        BY <1>a, <1>b, <1>e, <1>g, <1>h, <1>t, <2>3, <3>2, <3>4 DEF SysMmap, Slow!sysMmap
      <3>5. CASE anonymous /\ addr = 0
        <4>1. slow' = [Slow!return(Slow!ecall(slow), Heap, 0) EXCEPT !.Heap = Grow(length)]
          BY <1>f, <2>3, <3>1, <3>5 DEF Slow!sysMmap, Slow!add64, Grow
        <4>2. slow' = State((pc + 4) % AddrSpace, step', Grow(length), LoadReservation, exited,
                            exitCode, failed, Heap, 0, None)
          BY <1>e, <3>2, <4>1, SetHeap
        <4> QED BY <1>a, <1>b, <1>g, <1>t, <2>3, <3>2, <3>5, <4>2 DEF SysMmap
      <3> QED BY <3>3, <3>4, <3>5
    <2>4. ASSUME NEW fd \in FD, NEW count \in Values, SysRead(fd, count),
                 slow' = Slow!sysRead(slow, fd, count, ret'.a0)
          PROVE  step' \in Nat /\ SlowInStep'
      <3>1. ASSUME NEW a0, Syscall(a0, NoError, "read", fd) PROVE ret'.a0 = a0
        BY <3>1 DEF Syscall, Return
      <3> QED BY <1>s, <2>4, <3>1 DEF SysRead, Slow!sysRead
    <2>5. ASSUME NEW fd \in FD, NEW count \in Values, SysWrite(fd, count),
                 slow' = Slow!sysWrite(slow, fd, count, ret'.a0)
          PROVE  step' \in Nat /\ SlowInStep'
      <3>1. ASSUME NEW a0, Syscall(a0, NoError, "write", fd) PROVE ret'.a0 = a0
        BY <3>1 DEF Syscall, Return
      <3> QED BY <1>s, <2>5, <3>1 DEF SysWrite, Slow!sysWrite
    <2>6. ASSUME NEW fd \in FD, NEW cmd \in {1, 2, 3}, SysFcntl(fd, cmd),
                 slow' = Slow!sysFcntl(slow, fd, cmd)
          PROVE  step' \in Nat /\ SlowInStep'
      BY <1>s, <2>6 DEF SysFcntl, Slow!sysFcntl, AccessMode, FD
    <2>7. CASE SysOpenat /\ slow' = Slow!sysOpenat(slow)
      BY <1>s, <2>7 DEF SysOpenat, Slow!sysOpenat
    <2>8. CASE SysZero /\ slow' = Slow!sysZero(slow)
      BY <1>s, <2>8 DEF SysZero, Slow!sysZero
    <2>9. CASE SysClone /\ slow' = Slow!sysClone(slow)
      BY <1>s, <2>9 DEF SysClone, Slow!sysClone
    <2>10. ASSUME NEW res \in {0, 7}, SysGetrlimit(res), slow' = Slow!sysGetrlimit(slow, res)
           PROVE  step' \in Nat /\ SlowInStep'
      BY <1>s, <1>r, <2>10 DEF SysGetrlimit, Fails, Slow!sysGetrlimit
    <2>11. CASE ReadPreimagePanics /\ slow' = Slow!readPreimageFails(slow)
      <3>1. slow' = State(pc, step', Heap, LoadReservation, exited, exitCode,
                          "FailToReadPreimage", 0, 0, None)
        BY <1>b, <2>11, SetFailed DEF Slow!readPreimageFails, Slow!revertWithCode, begun
      <3>2. Fast' = State(pc, step', Heap, LoadReservation, exited, exitCode, "panic", 0, 0, None)
        BY <1>v, <2>11 DEF ReadPreimagePanics
      <3>3. slow' = [Fast' EXCEPT !.failed = "FailToReadPreimage"]
        BY <3>1, <3>2, SetFailed
      <3>4. failed' = "panic"
        BY <2>11 DEF ReadPreimagePanics, Fails, Revert
      <3> QED BY <1>b, <3>3, <3>4 DEF SlowInStep
    <2>12. CASE SysUnsupported /\ slow' = Slow!sysUnsupported(slow)
      BY <1>r, <2>12 DEF SysUnsupported, Fails, Slow!sysUnsupported
    <2>13. ASSUME NEW count \in Values, NEW n \in Values, ReadPreimagePanics,
                  slow' = Slow!sysRead(slow, 5, count, n)
           PROVE  step' \in Nat /\ SlowInStep'
      <3>1. slow' = Slow!return(Slow!ecall(slow), n, 0)
        BY <2>13 DEF Slow!sysRead
      <3> QED BY <1>z, <2>13, <3>1 DEF ReadPreimagePanics
    <2>14. ASSUME NEW fd \in FD, NEW count \in Values, WritePanics(fd, count),
                  slow' = Slow!sysWrite(slow, fd, count, 0)
           PROVE  step' \in Nat /\ SlowInStep'
      <3>1. slow' = Slow!return(Slow!ecall(slow), count, 0)
        BY <2>14 DEF WritePanics, Slow!sysWrite
      <3> QED BY <1>z, <2>14, <3>1 DEF WritePanics
    <2> QED BY <1>4, <2>1, <2>2, <2>3, <2>4, <2>5, <2>6, <2>7, <2>8, <2>9, <2>10, <2>11, <2>12,
               <2>13, <2>14
            DEF LockSyscall
  <1> QED BY <1>1, <1>2, <1>3, <1>4 DEF LockNext

\* The slow VM stays in step with the fast one: no sequence of instructions and
\* system calls, with whatever operands, tells them apart in the program counter,
\* the heap, the reservation, the exit status, what a call has returned or the
\* code they revert with, up to a step in which the fast VM panics without a code;
\* there the slow VM has reverted for want of a pre-image or is one call ahead.
THEOREM SlowStaysInStep == LockSpec => []SlowInStep
  <1>1. LockInit => LockInv
    BY DEF LockInit, Init, LockInv, SlowInStep, Fast
  <1>2. LockInv => SlowInStep
    BY DEF LockInv
  <1> QED BY <1>1, <1>2, LockInvStep, PTL DEF LockSpec

-----------------------------------------------------------------------------
(* The pre-image channel.                                                  *)

\* A sequence of n bytes, or of what is in memory,
HasLength(f, n) == f = [i \in 1..n |-> f[i]]

\* and one as long as a key.
IsKey(k) == HasLength(k, LeafBytes)

\* While a key is written: all of it is in memory, and the bytes that have been
\* written are the last ones of the key in the VM state, behind what is left of the
\* key before it.
Writing ==
    guest.phase = "write" =>
        /\ guest.key \in Keys /\ guest.addr \in KeyAddrs /\ guest.done \in 0..LeafBytes
        /\ \A i \in 1..LeafBytes : mem[guest.addr + i - 1] = guest.key[i]
        /\ \A i \in 1..guest.done : PreimageKey[LeafBytes - guest.done + i] = guest.key[i]
        /\ guest.done # 0 => PreimageOffset = 0

\* While a value is read.
Reading ==
    guest.phase = "read" =>
        /\ guest.key \in Keys /\ guest.addr \in BufAddrs
        /\ guest.done \in 0..Len(Preimage[guest.key])

\* The pre-image that is kept is that of its key.
Kept ==
    lastPreimage # Nil => lastPreimageKey \in Keys /\ lastPreimage = Preimage[lastPreimageKey]

\* What the last step has read, if it was a read.
Noted ==
    asked # NoPart =>
        /\ asked.key \in Keys /\ asked.offset \in 0..(Len(Preimage[asked.key]) - 1)
        /\ DOMAIN asked = {"key", "offset"}
        /\ lastPreimage = Preimage[asked.key]
        /\ witness = [key |-> asked.key, value |-> Preimage[asked.key], offset |-> asked.offset]

\* The inductive invariant.
TransferInv ==
    /\ DOMAIN mem = 0..(MemBytes - 1)
    /\ IsKey(PreimageKey)
    /\ DOMAIN guest = {"phase", "key", "addr", "done"}
    /\ guest.phase \in {"idle", "write", "read"}
    /\ Writing /\ Reading /\ Kept /\ Noted
    /\ DeliveredInOrder

-----------------------------------------------------------------------------

\* The least of two numbers,
LEMMA LeastOfTwo ==
    ASSUME NEW a \in Int, NEW b \in Int
    PROVE  Least({a, b}) \in {a, b} /\ Least({a, b}) <= a /\ Least({a, b}) <= b
  <1>1. \E n \in {a, b} : \A m \in {a, b} : n <= m
    <2>1. CASE a <= b
      BY <2>1
    <2>2. CASE b <= a
      BY <2>2
    <2> QED BY <2>1, <2>2
  <1> QED BY <1>1 DEF Least

\* and of four.
LEMMA LeastOfFour ==
    ASSUME NEW a \in Int, NEW b \in Int, NEW c \in Int, NEW d \in Int
    PROVE  /\ Least({a, b, c, d}) \in {a, b, c, d}
           /\ Least({a, b, c, d}) <= a /\ Least({a, b, c, d}) <= b
           /\ Least({a, b, c, d}) <= c /\ Least({a, b, c, d}) <= d
  <1>1. PICK x \in {a, b} : x <= a /\ x <= b
    BY LeastOfTwo
  <1>2. PICK y \in {c, d} : y <= c /\ y <= d
    BY LeastOfTwo
  <1>3. PICK z \in {x, y} : z <= x /\ z <= y
    BY <1>1, <1>2, LeastOfTwo
  <1>4. z \in {a, b, c, d} /\ \A m \in {a, b, c, d} : z <= m
    BY <1>1, <1>2, <1>3
  <1> QED BY <1>4 DEF Least

\* There is room for a byte at every address.
LEMMA RoomForOne == ASSUME NEW addr \in Nat PROVE Room(addr) \in 1..LeafBytes
  BY PreimageAssumption DEF Room

\* What a write of n bytes to the descriptor makes of the key,
Shift(k, n, f) == SubSeq(k, n + 1, LeafBytes) \o f

\* which moves down by n bytes.
LEMMA Shifted ==
    ASSUME NEW k, IsKey(k), NEW n \in 1..LeafBytes, NEW f, HasLength(f, n)
    PROVE  /\ IsKey(Shift(k, n, f))
           /\ \A i \in 1..(LeafBytes - n) : Shift(k, n, f)[i] = k[n + i]
           /\ \A i \in 1..n : Shift(k, n, f)[LeafBytes - n + i] = f[i]
  <1> DEFINE S == {k[i] : i \in 1..LeafBytes} \union {f[i] : i \in 1..n}
             s == SubSeq(k, n + 1, LeafBytes)
             r == Shift(k, n, f)
  <1>0. r = s \o f
    BY DEF Shift
  <1> HIDE DEF r
  <1>1. LeafBytes \in Nat /\ n \in Nat /\ n <= LeafBytes
    BY PreimageAssumption
  <1>2. k \in [1..LeafBytes -> S] /\ f \in [1..n -> S]
    BY DEF IsKey, HasLength
  <1> HIDE DEF S
  <1>3. k \in Seq(S) /\ Len(k) = LeafBytes /\ f \in Seq(S) /\ Len(f) = n
    BY <1>1, <1>2
  <1>4. s \in Seq(S) /\ Len(s) = LeafBytes - n /\ \A i \in 1..(LeafBytes - n) : s[i] = k[n + i]
    BY <1>1, <1>3
  <1> HIDE DEF s
  <1>5. r \in Seq(S) /\ Len(r) = LeafBytes
    <2>1. s \o f \in Seq(S) /\ Len(s \o f) = Len(s) + Len(f)
      BY <1>3, <1>4
    <2> QED BY <1>0, <1>1, <1>3, <1>4, <2>1
  <1>6. ASSUME NEW i \in 1..(LeafBytes - n) PROVE r[i] = k[n + i]
    <2>1. i \in 1..Len(s)
      BY <1>4
    <2>2. (s \o f)[i] = s[i]
      BY <1>3, <1>4, <2>1
    <2> QED BY <1>0, <1>4, <2>2
  <1>7. ASSUME NEW i \in 1..n PROVE r[LeafBytes - n + i] = f[i]
    <2>1. i \in 1..Len(f)
      BY <1>3
    <2>2. (s \o f)[Len(s) + i] = f[i]
      BY <1>3, <1>4, <2>1, SMTT(20)
    <2> QED BY <1>0, <1>4, <2>2
  <1>8. IsKey(r)
    <2>1. r \in [1..Len(r) -> S]
      BY <1>5
    <2> QED BY <1>5, <2>1 DEF IsKey, HasLength
  <1> QED BY <1>6, <1>7, <1>8 DEF r

-----------------------------------------------------------------------------
(* The steps.                                                              *)

\* The start of a request.
LEMMA RequestKeeps ==
    ASSUME TransferInv, NEW k \in Keys, NEW addr \in KeyAddrs, Request(k, addr)
    PROVE  TransferInv'
  <1>1. /\ guest' = [phase |-> "write", key |-> k, addr |-> addr, done |-> 0]
        /\ mem' = [i \in DOMAIN mem |->
                      IF i \in addr..(addr + LeafBytes - 1) THEN k[i - addr + 1] ELSE mem[i]]
        /\ asked' = NoPart
        /\ UNCHANGED <<PreimageKey, PreimageOffset, lastPreimage, lastPreimageKey>>
    BY DEF Request, NoRead
  <1>2. addr \in Nat /\ LeafBytes \in Nat /\ addr + LeafBytes <= MemBytes /\ MemBytes \in Nat
    BY PreimageAssumption
  <1>3. ASSUME NEW i \in 1..LeafBytes PROVE mem'[addr + i - 1] = k[i]
    <2>1. addr + i - 1 \in 0..(MemBytes - 1) /\ addr + i - 1 \in addr..(addr + LeafBytes - 1)
      BY <1>2
    <2>2. (addr + i - 1) - addr + 1 = i
      BY <1>2
    <2> QED BY <1>1, <2>1, <2>2 DEF TransferInv
  <1>4. Writing'
    BY <1>1, <1>2, <1>3 DEF Writing
  <1>5. (Reading /\ DeliveredInOrder)'
    BY <1>1 DEF Reading, DeliveredInOrder
  <1>6. (Kept /\ Noted)'
    BY <1>1 DEF TransferInv, Kept, Noted
  <1> QED BY <1>1, <1>4, <1>5, <1>6 DEF TransferInv

\* A piece of the key.
LEMMA WriteKeyKeeps ==
    ASSUME TransferInv, NEW count \in Counts, WriteKey(count)
    PROVE  TransferInv'
  <1> DEFINE done == guest.done
             addr == guest.addr + done
             want == Least({count, LeafBytes - done})
             n    == Least({want, Room(addr)})
             f    == [i \in 1..n |-> mem[addr + i - 1]]
  <1>1. /\ guest.phase = "write" /\ done < LeafBytes
        /\ PreimageKey' = SubSeq(PreimageKey, n + 1, LeafBytes) \o f
        /\ PreimageOffset' = 0
        /\ guest' = [guest EXCEPT !.done = @ + n]
        /\ asked' = NoPart
        /\ UNCHANGED <<mem, lastPreimage, lastPreimageKey>>
    BY DEF WriteKey, writePreimageKey, KeyWritten
  <1>2. /\ guest.key \in Keys /\ guest.addr \in KeyAddrs /\ done \in 0..LeafBytes
        /\ \A i \in 1..LeafBytes : mem[guest.addr + i - 1] = guest.key[i]
        /\ \A i \in 1..done : PreimageKey[LeafBytes - done + i] = guest.key[i]
    BY <1>1 DEF TransferInv, Writing
  <1>3. LeafBytes \in Nat \ {0} /\ count \in Nat \ {0} /\ guest.addr \in Nat
    BY <1>2, PreimageAssumption
  <1> HIDE DEF done
  <1>4. want \in 1..(LeafBytes - done)
    <2>1. count \in Int /\ LeafBytes - done \in Int
      BY <1>2, <1>3
    <2>2. want \in {count, LeafBytes - done} /\ want <= LeafBytes - done
      BY <2>1, LeastOfTwo
    <2> QED BY <1>1, <1>2, <1>3, <2>2
  <1> HIDE DEF want
  <1>5. n \in 1..(LeafBytes - done)
    <2>1. addr \in Nat
      BY <1>2, <1>3
    <2>2. Room(addr) \in 1..LeafBytes
      BY <2>1, RoomForOne
    <2>3. want \in Int /\ Room(addr) \in Int
      BY <1>2, <1>3, <1>4, <2>2
    <2>4. n \in {want, Room(addr)} /\ n <= want
      BY <2>3, LeastOfTwo
    <2> HIDE DEF n
    <2> QED BY <1>2, <1>3, <1>4, <2>2, <2>4
  <1> HIDE DEF n
  <1>6. n \in 1..LeafBytes
    BY <1>2, <1>3, <1>5
  <1>7. HasLength(f, n)
    BY DEF HasLength
  <1>8. IsKey(PreimageKey)
    BY DEF TransferInv
  <1>9. \A i \in 1..n : f[i] = mem[addr + i - 1]
    OBVIOUS
  <1> HIDE DEF f
  <1>10. /\ IsKey(PreimageKey')
         /\ \A i \in 1..(LeafBytes - n) : PreimageKey'[i] = PreimageKey[n + i]
         /\ \A i \in 1..n : PreimageKey'[LeafBytes - n + i] = f[i]
    <2>1. PreimageKey' = Shift(PreimageKey, n, f)
      BY <1>1 DEF Shift
    <2> QED BY <1>6, <1>7, <1>8, <2>1, Shifted
  <1>11. /\ DOMAIN guest' = DOMAIN guest /\ guest'.phase = "write" /\ guest'.key = guest.key
         /\ guest'.addr = guest.addr /\ guest'.done = done + n
    BY <1>1 DEF TransferInv, done
  <1>12. ASSUME NEW i \in 1..(done + n)
         PROVE  PreimageKey'[LeafBytes - (done + n) + i] = guest.key[i]
    <2>1. CASE i <= done
      <3>1. /\ LeafBytes - (done + n) + i \in 1..(LeafBytes - n)
            /\ n + (LeafBytes - (done + n) + i) = LeafBytes - done + i
            /\ i \in 1..done
        BY <1>2, <1>3, <1>5, <2>1
      <3> QED BY <1>2, <1>10, <3>1
    <2>2. CASE i > done
      <3> DEFINE j == i - done
      <3>1. /\ j \in 1..n /\ i \in 1..LeafBytes
            /\ LeafBytes - (done + n) + i = LeafBytes - n + j
            /\ addr + j - 1 = guest.addr + i - 1
        BY <1>2, <1>3, <1>5, <2>2
      <3> HIDE DEF j, addr
      <3>2. PreimageKey'[LeafBytes - n + j] = f[j] /\ f[j] = mem[addr + j - 1]
        BY <1>9, <1>10, <3>1
      <3> QED BY <1>2, <3>1, <3>2
    <2> QED BY <1>2, <1>3, <1>5, <2>1, <2>2
  <1>13. Writing'
    <2>1. done + n \in 0..LeafBytes
      BY <1>2, <1>3, <1>5
    <2> QED BY <1>1, <1>2, <1>11, <1>12, <2>1 DEF Writing
  <1>14. (Reading /\ DeliveredInOrder)'
    BY <1>11 DEF Reading, DeliveredInOrder
  <1>15. (Kept /\ Noted)'
    BY <1>1 DEF TransferInv, Kept, Noted
  <1> QED BY <1>1, <1>10, <1>11, <1>13, <1>14, <1>15 DEF TransferInv

\* What a read from the descriptor does, whether the pre-image was kept or not.
LEMMA ReadStep ==
    ASSUME TransferInv, guest.phase = "read", NEW addr, NEW count, readPreimageValue(addr, count)
    PROVE  LET v == Preimage[guest.key]
               n == Transferred(v, count, addr)
           IN  /\ lastPreimageKey' = guest.key /\ lastPreimage' = v /\ PreimageKey' = guest.key
               /\ \/ /\ OutOfBounds(v)
                     /\ asked' = NoPart
                     /\ UNCHANGED <<mem, PreimageOffset, guest>>
                  \/ /\ ~OutOfBounds(v)
                     /\ PreimageOffset' = PreimageOffset + n
                     /\ mem' = Stored(v, n, addr)
                     /\ guest' = [guest EXCEPT !.done = @ + n]
                     /\ witness' = [key |-> guest.key, value |-> v, offset |-> PreimageOffset]
                     /\ asked' = [key |-> guest.key, offset |-> PreimageOffset]
  <1> DEFINE value == IF Fetched THEN lastPreimage ELSE Preimage[PreimageKey]
             key   == IF Fetched THEN lastPreimageKey ELSE PreimageKey
             v     == Preimage[guest.key]
  <1>1. PreimageKey = guest.key
    BY DEF TransferInv, DeliveredInOrder
  <1>2. value = v /\ key = guest.key
    BY <1>1 DEF TransferInv, Kept, Fetched
  <1>3. /\ lastPreimageKey' = key /\ lastPreimage' = value /\ PreimageKey' = PreimageKey
        /\ \/ /\ OutOfBounds(value)
              /\ asked' = NoPart
              /\ UNCHANGED <<mem, PreimageOffset, guest>>
           \/ /\ ~OutOfBounds(value)
              /\ PreimageOffset' = PreimageOffset + Transferred(value, count, addr)
              /\ mem' = Stored(value, Transferred(value, count, addr), addr)
              /\ guest' = [guest EXCEPT !.done = @ + Transferred(value, count, addr)]
              /\ witness' = [key |-> key, value |-> value, offset |-> PreimageOffset]
              /\ asked' = [key |-> PreimageKey, offset |-> PreimageOffset]
    BY DEF readPreimageValue, readPreimagePart
  <1> HIDE DEF value, key, v
  <1> QED BY <1>1, <1>2, <1>3 DEF v

\* A read that panics: nothing arrives.
LEMMA PanicKeeps ==
    ASSUME TransferInv, guest.phase = "read",
           lastPreimageKey' = guest.key, lastPreimage' = Preimage[guest.key],
           PreimageKey' = guest.key, asked' = NoPart, UNCHANGED <<mem, PreimageOffset, guest>>
    PROVE  TransferInv'
  <1>1. PreimageKey' = PreimageKey
    BY DEF TransferInv, DeliveredInOrder
  <1>2. (Writing /\ Reading /\ DeliveredInOrder)'
    BY <1>1 DEF TransferInv, Writing, Reading, DeliveredInOrder
  <1>3. (Kept /\ Noted)'
    BY DEF TransferInv, Reading, Kept, Noted
  <1> QED BY <1>1, <1>2, <1>3 DEF TransferInv

\* What the arithmetic of masks and shifts does to the leaf: n bytes of the value
\* from the offset on are at the address, and all other bytes are as before.
LEMMA StoredBytes ==
    ASSUME NEW v, Len(v) \in Nat, NEW addr \in Nat, NEW n \in 1..Room(addr),
           DOMAIN mem \subseteq Int, PreimageOffset \in Nat, PreimageOffset + n <= Len(v)
    PROVE  Stored(v, n, addr)
             = [i \in DOMAIN mem |->
                  IF i \in addr..(addr + n - 1) THEN v[PreimageOffset + i - addr + 1] ELSE mem[i]]
  <1> DEFINE alignment == addr % LeafBytes
             At(i) == i - (addr - alignment) + 1
             mask == Mask(n, alignment)
             pdat == ShiftRight(alignment, Part(v), 0)
  <1>1. /\ LeafBytes \in Nat \ {0} /\ alignment \in 0..(LeafBytes - 1)
        /\ n \in 1..(LeafBytes - alignment)
    BY PreimageAssumption DEF Room
  <1>2. Stored(v, n, addr) =
          [i \in DOMAIN mem |->
             IF At(i) \in 1..LeafBytes /\ mask[At(i)] THEN pdat[At(i)] ELSE mem[i]]
    BY DEF Stored
  <1> HIDE DEF alignment
  <1>3. ASSUME NEW j \in 1..LeafBytes
        PROVE  mask[j] <=> j \in (alignment + 1)..(alignment + n)
    <2>1. CASE j > alignment
      <3>1. j - alignment \in 1..LeafBytes
        BY <1>1, <2>1
      <3>2. mask[j] <=> ~LowBytes(LeafBytes - n)[j - alignment]
        BY <2>1, <3>1 DEF Mask, ShiftRight
      <3>3. LowBytes(LeafBytes - n)[j - alignment] <=> j - alignment > LeafBytes - (LeafBytes - n)
        BY <3>1 DEF LowBytes
      <3>4. j - alignment > LeafBytes - (LeafBytes - n) <=> j > alignment + n
        BY <1>1, <3>1
      <3> QED BY <1>1, <2>1, <3>2, <3>3, <3>4
    <2>2. CASE ~(j > alignment)
      <3>1. mask[j] = FALSE
        BY <2>2 DEF Mask, ShiftRight
      <3> QED BY <1>1, <2>2, <3>1
    <2> QED BY <2>1, <2>2
  <1>4. ASSUME NEW j \in (alignment + 1)..(alignment + n)
        PROVE  pdat[j] = v[PreimageOffset + (j - alignment)]
    <2>1. j \in 1..LeafBytes /\ j > alignment /\ j - alignment \in 1..LeafBytes
      BY <1>1
    <2>2. pdat[j] = Part(v)[j - alignment]
      BY <2>1 DEF ShiftRight
    <2>3. PreimageOffset + (j - alignment) <= Len(v)
      BY <1>1
    <2>4. Part(v)[j - alignment] = v[PreimageOffset + (j - alignment)]
      BY <2>1, <2>3 DEF Part
    <2> QED BY <2>2, <2>4
  <1> HIDE DEF mask, pdat
  <1>5. ASSUME NEW i \in DOMAIN mem
        PROVE  (IF At(i) \in 1..LeafBytes /\ mask[At(i)] THEN pdat[At(i)] ELSE mem[i])
                 = IF i \in addr..(addr + n - 1) THEN v[PreimageOffset + i - addr + 1] ELSE mem[i]
    <2>1. i \in Int
      OBVIOUS
    <2>2. CASE i \in addr..(addr + n - 1)
      <3>1. /\ At(i) \in (alignment + 1)..(alignment + n) /\ At(i) \in 1..LeafBytes
            /\ PreimageOffset + (At(i) - alignment) = PreimageOffset + i - addr + 1
        <4>1. /\ alignment \in Nat /\ n \in Nat /\ addr \in Nat /\ LeafBytes \in Nat
              /\ alignment + n <= LeafBytes
          BY <1>1
        <4>2. At(i) \in Int /\ At(i) = i - addr + alignment + 1
          BY <2>1, <4>1
        <4>3. i - addr \in 0..(n - 1)
          BY <2>1, <2>2, <4>1
        <4> HIDE DEF At
        <4>4. At(i) \in (alignment + 1)..(alignment + n) /\ At(i) \in 1..LeafBytes
          BY <2>1, <4>1, <4>2, <4>3
        <4>5. PreimageOffset + (At(i) - alignment) = PreimageOffset + i - addr + 1
          BY <2>1, <4>1, <4>2
        <4> QED BY <4>4, <4>5
      <3> HIDE DEF At
      <3> QED BY <1>3, <1>4, <2>2, <3>1
    <2>3. CASE i \notin addr..(addr + n - 1)
      <3>1. At(i) \notin (alignment + 1)..(alignment + n)
        BY <1>1, <2>1, <2>3
      <3> HIDE DEF At
      <3> QED BY <1>3, <2>3, <3>1
    <2> QED BY <2>2, <2>3
  <1> HIDE DEF At
  <1> QED BY <1>2, <1>5

\* How much a read takes, and where it puts it: behind what has arrived.
LEMMA TransferredPart ==
    ASSUME NEW k \in Keys, NEW addr \in BufAddrs, NEW done \in 0..Len(Preimage[k]),
           done # Len(Preimage[k]), NEW count \in Counts, PreimageOffset = done
    PROVE  /\ Transferred(Preimage[k], count, addr + done) \in 1..(Len(Preimage[k]) - done)
           /\ Transferred(Preimage[k], count, addr + done) \in 1..Room(addr + done)
           /\ addr \in Nat /\ Len(Preimage[k]) \in Nat /\ MemBytes \in Nat
           /\ addr + Len(Preimage[k]) <= MemBytes
  <1> DEFINE len == Len(Preimage[k])
             a   == addr + done
             n   == Transferred(Preimage[k], count, a)
  <1>1. len \in Nat /\ addr \in Nat /\ count \in Nat \ {0} /\ LeafBytes \in Nat \ {0}
        /\ addr + len <= MemBytes /\ MemBytes \in Nat
    BY PreimageAssumption
  <1>2. n = Least({count, Room(a), LeafBytes, len - done})
    BY DEF Transferred
  <1> HIDE DEF n, len
  <1>3. done \in Nat /\ done < len /\ a \in Nat
    BY <1>1 DEF len
  <1> HIDE DEF a
  <1>4. Room(a) \in 1..LeafBytes
    BY <1>3, RoomForOne
  <1>5. count \in Int /\ Room(a) \in Int /\ LeafBytes \in Int /\ len - done \in Int
    BY <1>1, <1>3, <1>4
  <1>6. n \in {count, Room(a), LeafBytes, len - done} /\ n <= len - done /\ n <= Room(a)
    BY <1>2, <1>5, LeastOfFour
  <1>7. n \in 1..(len - done) /\ n \in 1..Room(a)
    BY <1>1, <1>3, <1>4, <1>6
  <1> QED BY <1>1, <1>7 DEF n, len, a

\* A piece of the value.
LEMMA ReadValueKeeps ==
    ASSUME TransferInv, NEW count \in Counts, ReadValue(count)
    PROVE  TransferInv'
  <1> DEFINE k    == guest.key
             v    == Preimage[k]
             done == guest.done
             addr == guest.addr + done
             n    == Transferred(v, count, addr)
  <1>1. guest.phase = "read" /\ done # Len(v) /\ readPreimageValue(addr, count)
    BY DEF ReadValue, AtEnd
  <1>2. /\ k \in Keys /\ guest.addr \in BufAddrs /\ done \in 0..Len(v)
        /\ PreimageKey = k /\ PreimageOffset = done
        /\ \A i \in 1..done : mem[guest.addr + i - 1] = v[i]
    BY <1>1 DEF TransferInv, Reading, DeliveredInOrder
  <1>3. /\ n \in 1..(Len(v) - done) /\ n \in 1..Room(addr)
        /\ guest.addr \in Nat /\ Len(v) \in Nat /\ MemBytes \in Nat
        /\ guest.addr + Len(v) <= MemBytes
    BY <1>1, <1>2, TransferredPart
  <1>4. ~OutOfBounds(v)
    BY <1>1, <1>2, <1>3 DEF OutOfBounds
  <1>5. /\ lastPreimageKey' = k /\ lastPreimage' = v /\ PreimageKey' = k
        /\ PreimageOffset' = PreimageOffset + n
        /\ mem' = Stored(v, n, addr)
        /\ guest' = [guest EXCEPT !.done = @ + n]
        /\ witness' = [key |-> k, value |-> v, offset |-> PreimageOffset]
        /\ asked' = [key |-> k, offset |-> PreimageOffset]
    BY <1>1, <1>4, ReadStep
  <1>6. /\ DOMAIN guest' = DOMAIN guest /\ guest'.phase = "read" /\ guest'.key = k
        /\ guest'.addr = guest.addr /\ guest'.done = done + n
    BY <1>1, <1>5 DEF TransferInv
  <1>7. mem' = [i \in DOMAIN mem |->
                  IF i \in addr..(addr + n - 1) THEN v[done + i - addr + 1] ELSE mem[i]]
    <2>1. /\ addr \in Nat /\ DOMAIN mem \subseteq Int /\ PreimageOffset \in Nat
          /\ PreimageOffset + n <= Len(v)
      <3> HIDE DEF n, done
      <3>1. done \in Nat /\ PreimageOffset = done /\ addr \in Nat /\ done + n <= Len(v)
        BY <1>2, <1>3
      <3>2. DOMAIN mem \subseteq Int
        BY <1>3 DEF TransferInv
      <3> QED BY <3>1, <3>2
    <2>2. Stored(v, n, addr)
            = [i \in DOMAIN mem |->
                 IF i \in addr..(addr + n - 1) THEN v[PreimageOffset + i - addr + 1] ELSE mem[i]]
      <3> HIDE DEF v, addr, n
      <3> QED BY <1>3, <2>1, StoredBytes
    <2> QED BY <1>2, <1>5, <2>2
  <1> HIDE DEF n, done
  <1>8. done + n \in 0..Len(v)
    BY <1>2, <1>3
  <1>9. ASSUME NEW i \in 1..(done + n) PROVE mem'[guest.addr + i - 1] = v[i]
    <2> DEFINE j == guest.addr + i - 1
    <2>1. j \in DOMAIN mem /\ done \in Nat /\ n \in Nat
      BY <1>2, <1>3, <1>8 DEF TransferInv
    <2>2. CASE i <= done
      <3>1. j \notin addr..(addr + n - 1) /\ i \in 1..done
        BY <1>3, <2>1, <2>2
      <3>2. mem'[j] = mem[j]
        BY <1>7, <2>1, <3>1
      <3> QED BY <1>2, <3>1, <3>2
    <2>3. CASE i > done
      <3>1. j \in addr..(addr + n - 1) /\ done + j - addr + 1 = i
        BY <1>3, <2>1, <2>3
      <3> HIDE DEF j, addr
      <3>2. mem'[j] = v[done + j - addr + 1]
        BY <1>7, <2>1, <3>1
      <3> QED BY <3>1, <3>2 DEF j
    <2> QED BY <2>1, <2>2, <2>3
  <1>10. (Writing /\ Reading /\ DeliveredInOrder)'
    BY <1>2, <1>5, <1>6, <1>8, <1>9 DEF Writing, Reading, DeliveredInOrder
  <1>11. Kept'
    BY <1>2, <1>5 DEF Kept
  <1>12. Noted'
    <2>1. done \in 0..(Len(v) - 1)
      BY <1>2, <1>3
    <2> QED BY <1>2, <1>5, <2>1 DEF Noted
  <1>13. IsKey(PreimageKey') /\ DOMAIN mem' = DOMAIN mem
    BY <1>2, <1>5, <1>7 DEF TransferInv
  <1> QED BY <1>6, <1>10, <1>11, <1>12, <1>13 DEF TransferInv

\* A read at the end of the value panics.
LEMMA ReadOnKeeps ==
    ASSUME TransferInv, NEW count \in Counts, ReadOn(count)
    PROVE  TransferInv'
  <1> DEFINE v == Preimage[guest.key]
  <1>1. guest.phase = "read" /\ guest.done = Len(v) /\ readPreimageValue(guest.addr, count)
    BY DEF ReadOn, AtEnd
  <1>2. guest.key \in Keys /\ PreimageOffset = Len(v)
    BY <1>1 DEF TransferInv, Reading, DeliveredInOrder
  <1>3. Len(v) \in Nat
    BY <1>2, PreimageAssumption
  <1>4. OutOfBounds(v)
    BY <1>2, <1>3 DEF OutOfBounds
  <1> QED BY <1>1, <1>4, ReadStep, PanicKeeps

\* The steps of the program that transfer nothing.
LEMMA ProgramKeeps ==
    ASSUME TransferInv, Finish \/ \E addr \in BufAddrs : StartReading(addr)
    PROVE  TransferInv'
  <1>1. CASE Finish
    <2>1. /\ guest' = [phase |-> "idle", key |-> Nil, addr |-> 0, done |-> 0] /\ asked' = NoPart
          /\ UNCHANGED <<mem, PreimageKey, PreimageOffset, lastPreimage, lastPreimageKey>>
      BY <1>1 DEF Finish, NoRead, Idle
    <2>2. (Writing /\ Reading /\ DeliveredInOrder)'
      BY <2>1 DEF Writing, Reading, DeliveredInOrder
    <2>3. (Kept /\ Noted)'
      BY <2>1 DEF TransferInv, Kept, Noted
    <2> QED BY <2>1, <2>2, <2>3 DEF TransferInv
  <1>2. ASSUME NEW addr \in BufAddrs, StartReading(addr) PROVE TransferInv'
    <2>1. /\ guest.phase = "write" /\ guest.done = LeafBytes /\ asked' = NoPart
          /\ guest' = [guest EXCEPT !.phase = "read", !.addr = addr, !.done = 0]
          /\ UNCHANGED <<mem, PreimageKey, PreimageOffset, lastPreimage, lastPreimageKey>>
      BY <1>2 DEF StartReading, NoRead
    <2>2. /\ DOMAIN guest' = DOMAIN guest /\ guest'.phase = "read" /\ guest'.key = guest.key
          /\ guest'.addr = addr /\ guest'.done = 0
      BY <2>1 DEF TransferInv
    <2>3. /\ guest.key \in Keys /\ PreimageOffset = 0
          /\ \A i \in 1..LeafBytes : PreimageKey[LeafBytes - LeafBytes + i] = guest.key[i]
      BY <2>1, PreimageAssumption DEF TransferInv, Writing
    <2>4. PreimageKey = guest.key
      <3>1. guest.key = [i \in 1..LeafBytes |-> guest.key[i]]
        BY <2>3, PreimageAssumption
      <3>2. \A i \in 1..LeafBytes : PreimageKey[i] = guest.key[i]
        BY <2>3, PreimageAssumption
      <3> QED BY <3>1, <3>2 DEF TransferInv, IsKey, HasLength
    <2>5. Len(Preimage[guest.key]) \in Nat
      BY <2>3, PreimageAssumption
    <2>6. (Writing /\ Reading /\ DeliveredInOrder)'
      BY <2>1, <2>2, <2>3, <2>4, <2>5 DEF Writing, Reading, DeliveredInOrder
    <2>7. (Kept /\ Noted)'
      BY <2>1 DEF TransferInv, Kept, Noted
    <2> QED BY <2>1, <2>2, <2>6, <2>7 DEF TransferInv
  <1> QED BY <1>1, <1>2

\* Every step keeps the invariant.
LEMMA TransferInvariance == PreimageSpec => []TransferInv
  <1>1. PreimageInit => TransferInv
    <2> SUFFICES ASSUME PreimageInit PROVE TransferInv
      OBVIOUS
    <2>1. IsKey(PreimageKey) /\ DOMAIN mem = 0..(MemBytes - 1)
      BY DEF PreimageInit, IsKey, HasLength
    <2>2. guest.phase = "idle" /\ DOMAIN guest = {"phase", "key", "addr", "done"}
      BY DEF PreimageInit, Idle
    <2> QED BY <2>1, <2>2
            DEF PreimageInit, TransferInv, Writing, Reading, Kept, Noted, DeliveredInOrder
  <1>2. TransferInv /\ [PreimageNext]_preimageVars => TransferInv'
    <2> SUFFICES ASSUME TransferInv, [PreimageNext]_preimageVars PROVE TransferInv'
      OBVIOUS
    <2>1. CASE UNCHANGED preimageVars
      BY <2>1 DEF preimageVars, TransferInv, Writing, Reading, Kept, Noted, DeliveredInOrder
    <2>2. CASE PreimageNext
      BY <2>2, RequestKeeps, WriteKeyKeeps, ReadValueKeeps, ReadOnKeeps, ProgramKeeps
         DEF PreimageNext, Transfer
    <2> QED BY <2>1, <2>2
  <1> QED BY <1>1, <1>2, PTL DEF PreimageSpec

\* A value arrives complete and in order, for the key that was asked for.
THEOREM AlwaysDelivered == PreimageSpec => []DeliveredInOrder
  <1>1. TransferInv => DeliveredInOrder
    BY DEF TransferInv
  <1> QED BY <1>1, TransferInvariance, PTL

\* A read changes no byte outside the buffer: the bytes of the leaf around what is
\* read keep their values.
THEOREM BufferOnly == PreimageSpec => OnlyBufferWritten
  <1> DEFINE A == guest.phase = "read" /\ guest'.phase = "read" =>
                    \A i \in DOMAIN mem :
                       mem'[i] # mem[i] =>
                          i \in guest.addr..(guest.addr + Len(Preimage[guest.key]) - 1)
  <1>1. TransferInv /\ [PreimageNext]_preimageVars => [A]_preimageVars
    <2> SUFFICES ASSUME TransferInv, PreimageNext, guest.phase = "read", guest'.phase = "read"
                 PROVE  A
      OBVIOUS
    <2> DEFINE v == Preimage[guest.key]
    <2>1. CASE \E k \in Keys, addr \in KeyAddrs : Request(k, addr)
      BY <2>1 DEF Request
    <2>2. CASE Finish \/ \E addr \in BufAddrs : StartReading(addr)
      BY <2>2 DEF Finish, StartReading
    <2>3. ASSUME NEW count \in Counts, WriteKey(count) PROVE A
      BY <2>3 DEF WriteKey
    <2>4. ASSUME NEW count \in Counts, ReadOn(count) PROVE A
      <3>1. guest.done = Len(v) /\ readPreimageValue(guest.addr, count)
        BY <2>4 DEF ReadOn, AtEnd
      <3>2. guest.key \in Keys /\ PreimageOffset = Len(v) /\ Len(v) \in Nat
        BY <3>1, PreimageAssumption DEF TransferInv, Reading, DeliveredInOrder
      <3>3. mem' = mem
        BY <3>1, <3>2, ReadStep DEF OutOfBounds
      <3> QED BY <3>3
    <2>5. ASSUME NEW count \in Counts, ReadValue(count) PROVE A
      <3> DEFINE done == guest.done
                 addr == guest.addr + done
                 n    == Transferred(v, count, addr)
      <3>1. done # Len(v) /\ readPreimageValue(addr, count)
        BY <2>5 DEF ReadValue, AtEnd
      <3>2. /\ guest.key \in Keys /\ guest.addr \in BufAddrs /\ done \in 0..Len(v)
            /\ PreimageOffset = done
        BY DEF TransferInv, Reading, DeliveredInOrder
      <3>3. /\ n \in 1..(Len(v) - done) /\ n \in 1..Room(addr)
            /\ guest.addr \in Nat /\ Len(v) \in Nat /\ MemBytes \in Nat
        BY <3>1, <3>2, TransferredPart
      <3>4. mem' = mem \/ mem' = Stored(v, n, addr)
        BY <3>1, ReadStep
      <3> HIDE DEF n, v, done
      <3>7. /\ addr \in Nat /\ DOMAIN mem \subseteq Int /\ PreimageOffset \in Nat
            /\ PreimageOffset + n <= Len(v)
        <4>1. done \in Nat /\ PreimageOffset = done /\ addr \in Nat /\ done + n <= Len(v)
          BY <3>2, <3>3
        <4>2. DOMAIN mem \subseteq Int
          BY <3>3 DEF TransferInv
        <4> QED BY <4>1, <4>2
      <3>8. Stored(v, n, addr)
              = [i \in DOMAIN mem |->
                   IF i \in addr..(addr + n - 1) THEN v[PreimageOffset + i - addr + 1] ELSE mem[i]]
        <4> HIDE DEF addr
        <4> QED BY <3>3, <3>7, StoredBytes
      <3>5. ASSUME NEW i \in DOMAIN mem, mem'[i] # mem[i] PROVE i \in addr..(addr + n - 1)
        BY <3>4, <3>5, <3>8
      <3>6. addr..(addr + n - 1) \subseteq guest.addr..(guest.addr + Len(v) - 1)
        BY <3>2, <3>3
      <3> QED BY <3>5, <3>6 DEF v
    <2> QED BY <2>1, <2>2, <2>3, <2>4, <2>5 DEF PreimageNext, Transfer
  <1> QED BY <1>1, TransferInvariance, PTL DEF PreimageSpec, OnlyBufferWritten

\* The program asks only for pre-images of the two types that can be put on chain:
\* EncodePreimageOracleInput has an error for any other.
Encodable == \A k \in Keys : k[1] \in {LocalKeyType, Keccak256KeyType}

\* What the contract makes of the data is the value of the program, length and all.
LEMMA ValueRestored ==
    ASSUME NEW v \in Seq(Byte), v # << >>, Head(v) = Len(Tail(v))
    PROVE  <<Len(Tail(v))>> \o Tail(v) = v
  OBVIOUS

\* The witness of a read serves the slow VM: the contract holds the part it asks for.
THEOREM WitnessAlwaysServes ==
    ASSUME Encodable
    PROVE  PreimageSpec => []WitnessServesSlow
  <1>1. TransferInv => WitnessServesSlow
    <2> SUFFICES ASSUME TransferInv, asked # NoPart
                 PROVE  LET input == EncodePreimageOracleInput(witness)
                        IN  /\ input # NoInput
                            /\ Loaded(input) = [key    |-> ChainKey(asked.key),
                                                offset |-> asked.offset,
                                                part   |-> PartAt(lastPreimage, asked.offset)]
      BY DEF WitnessServesSlow
    <2> DEFINE k     == asked.key
               v     == Preimage[k]
               input == EncodePreimageOracleInput(witness)
    <2>1. /\ k \in Keys /\ asked.offset \in 0..(Len(v) - 1) /\ lastPreimage = v
          /\ witness.key = k /\ witness.value = v /\ witness.offset = asked.offset
      BY DEF TransferInv, Noted
    <2>2. /\ v \in Seq(Byte) /\ v # << >>
          /\ k[1] = LocalKeyType => Len(Tail(v)) <= LeafBytes
          /\ <<Len(Tail(v))>> \o Tail(v) = v
      <3>1. v \in Seq(Byte) /\ Head(v) = Len(Tail(v))
        BY <2>1, PreimageAssumption
      <3>2. v # << >>
        BY <2>1, <3>1
      <3> HIDE DEF v
      <3>3. <<Len(Tail(v))>> \o Tail(v) = v
        BY <3>1, <3>2, ValueRestored
      <3> QED BY <2>1, <3>1, <3>2, <3>3, PreimageAssumption DEF v
    <2> HIDE DEF v
    <2>3. CASE k[1] = LocalKeyType
      <3>1. input = [call |-> "loadLocalData", ident |-> Tail(k), data |-> Tail(v),
                     offset |-> asked.offset]
        BY <2>1, <2>2, <2>3 DEF EncodePreimageOracleInput
      <3> HIDE DEF input
      <3>2. /\ input # NoInput /\ input.call = "loadLocalData" /\ input.ident = Tail(k)
            /\ input.data = Tail(v) /\ input.offset = asked.offset
        BY <3>1 DEF NoInput
      <3> QED BY <2>1, <2>2, <2>3, <3>2 DEF Loaded, ChainKey, input
    <2>4. CASE k[1] # LocalKeyType
      <3>1. k[1] = Keccak256KeyType /\ LocalKeyType # Keccak256KeyType
        BY <2>1, <2>4 DEF Encodable, LocalKeyType, Keccak256KeyType
      <3>2. input = [call |-> "loadKeccak256PreimagePart", data |-> Tail(v),
                     offset |-> asked.offset]
        BY <2>1, <2>4, <3>1 DEF EncodePreimageOracleInput
      <3> HIDE DEF input
      <3>3. /\ input # NoInput /\ input.call = "loadKeccak256PreimagePart"
            /\ input.data = Tail(v) /\ input.offset = asked.offset
        BY <3>2 DEF NoInput
      <3>4. KeccakKey(Tail(v)) = [local |-> FALSE, id |-> Tail(k)]
        <4> DEFINE keys == {j \in Keys : j[1] = Keccak256KeyType
                                         /\ Tail(Preimage[j]) = Tail(v)}
        <4>1. keys = {k}
          BY <2>1, <3>1, PreimageAssumption DEF v
        <4>2. KeccakKey(Tail(v)) =
                 [local |-> FALSE, id |-> IF keys = {} THEN Nil ELSE Tail(CHOOSE j \in keys : TRUE)]
          BY DEF KeccakKey
        <4> HIDE DEF keys
        <4> QED BY <4>1, <4>2
      <3> QED BY <2>1, <2>2, <2>4, <3>3, <3>4 DEF Loaded, ChainKey, input
    <2> QED BY <2>3, <2>4
  <1> QED BY <1>1, TransferInvariance, PTL

=============================================================================
