------------------------ MODULE StateLockstepProofs ------------------------
(***************************************************************************)
(* Theorems about StateLockstep: the three forms of the VM state agree     *)
(* after any assignments, of any values.                                   *)
(*                                                                         *)
(* WitnessByte says which byte of which field is at each of the 362 places *)
(* of the encoded state.  A byte array mirrors a state if it has these     *)
(* bytes.  The encoder's output mirrors its state (WitnessLayout), a       *)
(* setter of either slow VM turns an array that mirrors a state into one   *)
(* that mirrors the state with that field assigned (Sets..., then one      *)
(* lemma per action), and a getter of an array that mirrors a state        *)
(* returns its field (Getters).                                            *)
(***************************************************************************)
EXTENDS StateLockstep, SequenceTheorems, TLAPS

\* A sequence of n items, of whatever kinds.
SeqOf(s, n) == Len(s) = n /\ \E S : s \in Seq(S)

\* C has the m items of A, and then the items of B.
Joins(C, A, m, B, n) == \A i \in 1 .. n : C[i] = IF i <= m THEN A[i] ELSE B[i - m]

\* A sequence that is behind another one.
LEMMA Joined ==
    ASSUME NEW A, NEW B, NEW m \in Nat, NEW k \in Nat, NEW n \in Nat,
           SeqOf(A, m), SeqOf(B, k), n = m + k
    PROVE  SeqOf(A \o B, n) /\ Joins(A \o B, A, m, B, n)
  <1>1. PICK S : A \in Seq(S)
    BY DEF SeqOf
  <1>2. PICK T : B \in Seq(T)
    BY DEF SeqOf
  <1> DEFINE W == S \cup T
  <1>3. A \in Seq(W) /\ B \in Seq(W)
    BY <1>1, <1>2
  <1>4. Len(A) = m /\ Len(B) = k
    BY DEF SeqOf
  <1> HIDE DEF W
  <1>5. A \o B \in Seq(W) /\ Len(A \o B) = n
    BY <1>3, <1>4
  <1>6. \A i \in 1 .. n : (A \o B)[i] = IF i <= m THEN A[i] ELSE B[i - m]
    BY <1>3, <1>4
  <1> QED BY <1>5, <1>6 DEF Joins, SeqOf

\* A function on 1 .. n is a sequence.
LEMMA FunSeq ==
    ASSUME NEW s, NEW n \in Nat, DOMAIN s = 1 .. n, s = [i \in 1 .. n |-> s[i]]
    PROVE  SeqOf(s, n)
  <1> DEFINE S == {s[i] : i \in 1 .. n}
  <1>1. s \in Seq(S) /\ Len(s) = n
    OBVIOUS
  <1> QED BY <1>1 DEF SeqOf

\* What BigEndian returns.
LEMMA BigEndianSeq ==
    ASSUME NEW n \in Nat, NEW v
    PROVE  /\ SeqOf(BigEndian(n, v), n)
           /\ \A i \in 1 .. n : BigEndian(n, v)[i] = v[n - i]
  <1> DEFINE b == BigEndian(n, v)
  <1>1. DOMAIN b = 1 .. n /\ b = [i \in 1 .. n |-> b[i]] /\ \A i \in 1 .. n : b[i] = v[n - i]
    BY DEF BigEndian
  <1> HIDE DEF b
  <1>2. SeqOf(b, n)
    BY <1>1, FunSeq
  <1> QED BY <1>1, <1>2 DEF b

\* What EncodeRegisters returns.
LEMMA RegistersSeq ==
    ASSUME NEW r
    PROVE  /\ SeqOf(EncodeRegisters(r), 256)
           /\ \A i \in 1 .. 256 : EncodeRegisters(r)[i] = r[(i - 1) \div 8][7 - ((i - 1) % 8)]
  <1> DEFINE b == EncodeRegisters(r)
             n == 256
  <1>1. /\ DOMAIN b = 1 .. n /\ b = [i \in 1 .. n |-> b[i]]
        /\ \A i \in 1 .. n : b[i] = r[(i - 1) \div 8][7 - ((i - 1) % 8)]
    BY DEF EncodeRegisters
  <1>2. n \in Nat
    OBVIOUS
  <1> HIDE DEF b, n
  <1>3. SeqOf(b, n)
    BY <1>1, <1>2, FunSeq
  <1> QED BY <1>1, <1>3 DEF b, n

\* The byte of the witness at each offset, as the layout has it.
WitnessByte(s, i) ==
    IF i < 32 THEN s.memRoot[31 - i]
    ELSE IF i < 64 THEN s.preimageKey[63 - i]
    ELSE IF i < 72 THEN s.preimageOffset[71 - i]
    ELSE IF i < 80 THEN s.pc[79 - i]
    ELSE IF i = 80 THEN s.exitCode
    ELSE IF i = 81 THEN Bool(s.exited)
    ELSE IF i < 90 THEN s.step[89 - i]
    ELSE IF i < 98 THEN s.heap[97 - i]
    ELSE IF i < 106 THEN s.loadReservation[105 - i]
    ELSE s.registers[(i - 106) \div 8][7 - ((i - 106) % 8)]

\* What EncodeFields returns.
LEMMA FieldsLayout ==
    ASSUME NEW s
    PROVE  /\ SeqOf(EncodeFields(s), 330)
           /\ \A at \in 1 .. 330 : EncodeFields(s)[at] = WitnessByte(s, at + 31)
  <1> DEFINE key == BigEndian(32, s.preimageKey)
             off == BigEndian(8, s.preimageOffset)
             pc == BigEndian(8, s.pc)
             exit == <<s.exitCode, Bool(s.exited)>>
             step == BigEndian(8, s.step)
             heap == BigEndian(8, s.heap)
             res == BigEndian(8, s.loadReservation)
             regs == EncodeRegisters(s.registers)
             s2 == key \o off
             s3 == s2 \o pc
             s4 == s3 \o exit
             s5 == s4 \o step
             s6 == s5 \o heap
             s7 == s6 \o res
             s8 == s7 \o regs
  <1>0. SeqOf(exit, 2) /\ exit[1] = s.exitCode /\ exit[2] = Bool(s.exited)
    <2>1. exit \in Seq({s.exitCode, Bool(s.exited)}) /\ Len(exit) = 2
      OBVIOUS
    <2> QED BY <2>1 DEF SeqOf
  <1>1. SeqOf(key, 32) /\ SeqOf(off, 8) /\ SeqOf(pc, 8)
    BY BigEndianSeq
  <1>2. SeqOf(step, 8) /\ SeqOf(heap, 8) /\ SeqOf(res, 8) /\ SeqOf(regs, 256)
    BY BigEndianSeq, RegistersSeq
  <1>3. /\ \A i \in 1 .. 32 : key[i] = s.preimageKey[32 - i]
        /\ \A i \in 1 .. 8 : off[i] = s.preimageOffset[8 - i]
        /\ \A i \in 1 .. 8 : pc[i] = s.pc[8 - i]
    BY BigEndianSeq
  <1>4. /\ \A i \in 1 .. 8 : step[i] = s.step[8 - i]
        /\ \A i \in 1 .. 8 : heap[i] = s.heap[8 - i]
        /\ \A i \in 1 .. 8 : res[i] = s.loadReservation[8 - i]
        /\ \A i \in 1 .. 256 : regs[i] = s.registers[(i - 1) \div 8][7 - ((i - 1) % 8)]
    BY BigEndianSeq, RegistersSeq, ZenonT(60)
  <1>5. EncodeFields(s) = s8
    BY DEF EncodeFields
  <1> HIDE DEF key, off, pc, exit, step, heap, res, regs
  <1>6. SeqOf(s2, 40) /\ Joins(s2, key, 32, off, 40)
    BY <1>1, <1>1, Joined DEF s2
  <1> HIDE DEF s2
  <1>7. SeqOf(s3, 48) /\ Joins(s3, s2, 40, pc, 48)
    BY <1>1, <1>6, Joined DEF s3
  <1> HIDE DEF s3
  <1>8. SeqOf(s4, 50) /\ Joins(s4, s3, 48, exit, 50)
    BY <1>0, <1>7, Joined DEF s4
  <1> HIDE DEF s4
  <1>9. SeqOf(s5, 58) /\ Joins(s5, s4, 50, step, 58)
    BY <1>2, <1>8, Joined DEF s5
  <1> HIDE DEF s5
  <1>10. SeqOf(s6, 66) /\ Joins(s6, s5, 58, heap, 66)
    BY <1>2, <1>9, Joined DEF s6
  <1> HIDE DEF s6
  <1>11. SeqOf(s7, 74) /\ Joins(s7, s6, 66, res, 74)
    BY <1>2, <1>10, Joined DEF s7
  <1> HIDE DEF s7
  <1>12. SeqOf(s8, 330) /\ Joins(s8, s7, 74, regs, 330)
    BY <1>2, <1>11, Joined DEF s8
  <1> HIDE DEF s8
  <1>13. ASSUME NEW at \in 1 .. 330 PROVE s8[at] = WitnessByte(s, at + 31)
    <2>1. CASE at \in 1 .. 32
      <3>1. s8[at] = key[at - 0]
        BY <2>1, <1>12, <1>11, <1>10, <1>9, <1>8, <1>7, <1>6 DEF Joins
      <3>2. key[at - 0] = s.preimageKey[32 - at]
        BY <2>1, <1>3
      <3>3. WitnessByte(s, at + 31) = s.preimageKey[32 - at]
        BY <2>1 DEF WitnessByte
      <3> QED BY <3>1, <3>2, <3>3
    <2>2. CASE at \in 33 .. 40
      <3>1. s8[at] = off[at - 32]
        BY <2>2, <1>12, <1>11, <1>10, <1>9, <1>8, <1>7, <1>6 DEF Joins
      <3>2. off[at - 32] = s.preimageOffset[40 - at]
        BY <2>2, <1>3
      <3>3. WitnessByte(s, at + 31) = s.preimageOffset[40 - at]
        BY <2>2 DEF WitnessByte
      <3> QED BY <3>1, <3>2, <3>3
    <2>3. CASE at \in 41 .. 48
      <3>1. s8[at] = pc[at - 40]
        BY <2>3, <1>12, <1>11, <1>10, <1>9, <1>8, <1>7 DEF Joins
      <3>2. pc[at - 40] = s.pc[48 - at]
        BY <2>3, <1>3
      <3>3. WitnessByte(s, at + 31) = s.pc[48 - at]
        BY <2>3 DEF WitnessByte
      <3> QED BY <3>1, <3>2, <3>3
    <2>4. CASE at \in 49 .. 50
      <3>1. s8[at] = exit[at - 48]
        BY <2>4, <1>12, <1>11, <1>10, <1>9, <1>8 DEF Joins
      <3>2. exit[at - 48] = IF at = 49 THEN s.exitCode ELSE Bool(s.exited)
        BY <2>4, <1>0
      <3>3. WitnessByte(s, at + 31) = IF at = 49 THEN s.exitCode ELSE Bool(s.exited)
        BY <2>4 DEF WitnessByte
      <3> QED BY <3>1, <3>2, <3>3
    <2>5. CASE at \in 51 .. 58
      <3>1. s8[at] = step[at - 50]
        BY <2>5, <1>12, <1>11, <1>10, <1>9 DEF Joins
      <3>2. step[at - 50] = s.step[58 - at]
        BY <2>5, <1>4
      <3>3. WitnessByte(s, at + 31) = s.step[58 - at]
        BY <2>5 DEF WitnessByte
      <3> QED BY <3>1, <3>2, <3>3
    <2>6. CASE at \in 59 .. 66
      <3>1. s8[at] = heap[at - 58]
        BY <2>6, <1>12, <1>11, <1>10 DEF Joins
      <3>2. heap[at - 58] = s.heap[66 - at]
        BY <2>6, <1>4
      <3>3. WitnessByte(s, at + 31) = s.heap[66 - at]
        BY <2>6 DEF WitnessByte
      <3> QED BY <3>1, <3>2, <3>3
    <2>7. CASE at \in 67 .. 74
      <3>1. s8[at] = res[at - 66]
        BY <2>7, <1>12, <1>11 DEF Joins
      <3>2. res[at - 66] = s.loadReservation[74 - at]
        BY <2>7, <1>4
      <3>3. WitnessByte(s, at + 31) = s.loadReservation[74 - at]
        BY <2>7 DEF WitnessByte
      <3> QED BY <3>1, <3>2, <3>3
    <2>8. CASE at \in 75 .. 330
      <3>1. s8[at] = regs[at - 74]
        BY <2>8, <1>12 DEF Joins
      <3> DEFINE k == at - 74
      <3>2. k \in 1 .. 256 /\ at + 31 >= 106 /\ at + 31 - 106 = k - 1
        BY <2>8
      <3>3. WitnessByte(s, at + 31) = s.registers[(k - 1) \div 8][7 - ((k - 1) % 8)]
        BY <3>2 DEF WitnessByte
      <3> HIDE DEF k
      <3>4. regs[k] = s.registers[(k - 1) \div 8][7 - ((k - 1) % 8)]
        BY <3>2, <1>4
      <3> QED BY <3>1, <3>3, <3>4 DEF k
    <2> QED BY <2>1, <2>2, <2>3, <2>4, <2>5, <2>6, <2>7, <2>8
  <1> QED BY <1>5, <1>12, <1>13

\* What EncodeWitness returns.
LEMMA WitnessLayout ==
    ASSUME NEW s
    PROVE  /\ SeqOf(EncodeWitness(s), 362)
           /\ Len(EncodeWitness(s)) = 362
           /\ \A i \in 0 .. 361 : EncodeWitness(s)[i + 1] = WitnessByte(s, i)
  <1> DEFINE root == BigEndian(32, s.memRoot)
             rest == EncodeFields(s)
             w == root \o rest
  <1>1. SeqOf(root, 32) /\ \A i \in 1 .. 32 : root[i] = s.memRoot[32 - i]
    BY BigEndianSeq
  <1>2. SeqOf(rest, 330) /\ \A at \in 1 .. 330 : rest[at] = WitnessByte(s, at + 31)
    BY FieldsLayout
  <1>3. EncodeWitness(s) = w
    BY DEF EncodeWitness
  <1> HIDE DEF root, rest
  <1>4. SeqOf(w, 362) /\ Joins(w, root, 32, rest, 362)
    BY <1>1, <1>2, Joined
  <1>5. Len(w) = 362
    BY <1>4 DEF SeqOf
  <1> HIDE DEF w
  <1>6. ASSUME NEW i \in 0 .. 361 PROVE w[i + 1] = WitnessByte(s, i)
    <2>1. CASE i < 32
      <3>1. w[i + 1] = root[i + 1]
        BY <2>1, <1>4 DEF Joins
      <3> QED BY <2>1, <3>1, <1>1 DEF WitnessByte
    <2>2. CASE i >= 32
      <3> DEFINE at == i + 1 - 32
      <3>1. at \in 1 .. 330 /\ at + 31 = i
        BY <2>2
      <3>2. w[i + 1] = rest[at]
        BY <2>2, <1>4 DEF Joins
      <3> HIDE DEF at
      <3> QED BY <3>1, <3>2, <1>2
    <2> QED BY <2>1, <2>2
  <1> QED BY <1>3, <1>4, <1>5, <1>6

-----------------------------------------------------------------------------
(* Setters.                                                                *)

\* The state of the slow VM, and the memory on chain.
DataBytes == [0 .. 361 -> Byte]
MemBytes == [0 .. 461 -> Byte]

\* f is g but for the len bytes from off on, which are v in big-endian order.
Patched(f, g, off, len, v, last) ==
    \A i \in 0 .. last :
        f[i] = IF i \in off .. off + len - 1 THEN v[off + len - 1 - i] ELSE g[i]

\* writeState of the slow VM.
LEMMA SlowWrite ==
    ASSUME NEW d \in DataBytes, NEW off \in Nat, NEW len \in 1 .. 32, off + len <= 362,
           NEW v \in [0 .. len - 1 -> Byte],
           NEW e, e = Slow!writeState(d, off, len, BigEndian(len, v))
    PROVE  e \in DataBytes /\ Patched(e, d, off, len, v, 361)
  <1> DEFINE b == BigEndian(len, v)
  <1>1. \A i \in 1 .. len : b[i] = v[len - i]
    <2>1. len \in Nat
      OBVIOUS
    <2>2. b = [i \in 1 .. len |-> v[len - i]]
      BY DEF BigEndian
    <2> HIDE DEF b
    <2> QED BY ONLY <2>1, <2>2
  <1> HIDE DEF b
  <1>2. /\ e = [k \in 0 .. 361 |->
                 IF k \in off .. off + len - 1 THEN b[k - off + 1] ELSE d[k]]
    BY DEF Slow!writeState, DataBytes, b
  <1>3. ASSUME NEW k \in 0 .. 361
        PROVE  /\ e[k] = IF k \in off .. off + len - 1 THEN v[off + len - 1 - k] ELSE d[k]
               /\ e[k] \in Byte
    <2>1. CASE k \in off .. off + len - 1
      <3> DEFINE j == k - off + 1
      <3>1. j \in 1 .. len /\ len - j = off + len - 1 - k /\ len - j \in 0 .. len - 1
        BY <2>1
      <3>2. e[k] = b[j]
        BY <1>2, <2>1, ZenonT(60)
      <3> HIDE DEF j
      <3>3. e[k] = v[len - j] /\ v[len - j] \in Byte
        BY <1>1, <3>1, <3>2
      <3> QED BY <2>1, <3>1, <3>3
    <2>2. CASE k \notin off .. off + len - 1
      BY <1>2, <2>2, ZenonT(60) DEF DataBytes
    <2> QED BY <2>1, <2>2
  <1>4. e \in DataBytes
    <2>1. e = [k \in 0 .. 361 |-> e[k]]
      BY <1>2
    <2> QED BY <2>1, <1>3, ZenonT(60) DEF DataBytes
  <1> QED BY <1>3, <1>4 DEF Patched

\* mstore: the 32 bytes of a word.
LEMMA ChainStore ==
    ASSUME NEW m \in MemBytes, NEW off \in Nat, off + 31 <= 461, NEW w \in U256,
           NEW e, e = Chain!mstore(m, off, w)
    PROVE  e \in MemBytes /\ Patched(e, m, off, 32, w, 461)
  <1>1. e = [i \in 0 .. 461 |-> IF i \in off .. off + 31 THEN w[31 - (i - off)] ELSE m[i]]
    BY DEF Chain!mstore, MemBytes
  <1>2. ASSUME NEW k \in 0 .. 461
        PROVE  /\ k \in off .. off + 32 - 1 => e[k] = w[off + 32 - 1 - k]
               /\ k \notin off .. off + 32 - 1 => e[k] = m[k]
               /\ e[k] \in Byte
    <2>1. CASE k \in off .. off + 31
      <3> DEFINE j == 31 - (k - off)
      <3>1. j = off + 32 - 1 - k /\ j \in 0 .. 31 /\ k \in off .. off + 32 - 1
        BY <2>1
      <3>2. e[k] = w[j]
        BY <1>1, <2>1, ZenonT(60)
      <3> HIDE DEF j
      <3>3. w[j] \in Byte
        BY <3>1 DEF U256
      <3> QED BY <3>1, <3>2, <3>3
    <2>2. CASE k \notin off .. off + 31
      <3>1. e[k] = m[k] /\ m[k] \in Byte
        BY <1>1, <2>2, ZenonT(60) DEF MemBytes
      <3> QED BY <2>2, <3>1
    <2> QED BY <2>1, <2>2
  <1>3. e \in MemBytes
    BY <1>1, <1>2, ZenonT(40) DEF MemBytes
  <1> QED BY <1>2, <1>3 DEF Patched

\* writeState of the on-chain VM: the rest of the word is merged back.
LEMMA ChainWrite ==
    ASSUME NEW m \in MemBytes, NEW off \in Nat, NEW len \in 1 .. 32, off + len <= 362,
           NEW w \in U256,
           NEW e, e = Chain!writeState(m, off, len, w)
    PROVE  e \in MemBytes /\ Patched(e, m, off, len, w, 461)
  <1> DEFINE prev == Chain!mload(m, off)
             aligned == Chain!shlBytes(32 - len, w)
             merged == [k \in 0 .. 31 |->
                          (IF k \in 32 - len .. 31 THEN 0 ELSE prev[k]) + aligned[k]]
  <1>1. ASSUME NEW k \in 0 .. 31 PROVE prev[k] = m[off + 31 - k] /\ prev[k] \in Byte
    <2>1. off + 31 - k \in 0 .. 461
      OBVIOUS
    <2>2. prev[k] = m[off + 31 - k]
      BY DEF Chain!mload
    <2> QED BY <2>1, <2>2 DEF MemBytes
  <1>2. \A k \in 0 .. 31 : aligned[k] = IF k >= 32 - len THEN w[k - (32 - len)] ELSE 0
    BY DEF Chain!shlBytes
  <1>3. e = Chain!mstore(m, off, merged)
    BY DEF Chain!writeState
  <1>4. ASSUME NEW k \in 0 .. 31
        PROVE  /\ merged[k] = IF k >= 32 - len THEN w[k - (32 - len)] ELSE m[off + 31 - k]
               /\ merged[k] \in Byte
    <2>1. merged[k] = (IF k \in 32 - len .. 31 THEN 0 ELSE prev[k]) + aligned[k]
      OBVIOUS
    <2> HIDE DEF prev, aligned, merged
    <2>2. CASE k >= 32 - len
      <3>1. w[k - (32 - len)] \in Byte
        BY <2>2 DEF U256
      <3>2. merged[k] = 0 + w[k - (32 - len)]
        BY <2>1, <2>2, <1>2
      <3>3. merged[k] = w[k - (32 - len)]
        BY <3>1, <3>2 DEF Byte
      <3> QED BY <2>2, <3>1, <3>3
    <2>3. CASE k < 32 - len
      <3>1. merged[k] = prev[k] + 0
        BY <2>1, <2>3, <1>2
      <3>2. prev[k] = m[off + 31 - k] /\ prev[k] \in Byte
        BY <1>1
      <3>3. merged[k] = prev[k]
        BY <3>1, <3>2 DEF Byte
      <3>4. ~(k >= 32 - len)
        BY <2>3
      <3> QED BY <3>2, <3>3, <3>4
    <2> QED BY <2>2, <2>3
  <1>5. merged \in U256
    BY <1>4 DEF U256
  <1> HIDE DEF merged
  <1>6. e \in MemBytes /\ Patched(e, m, off, 32, merged, 461)
    BY <1>3, <1>5, ChainStore
  <1>7. ASSUME NEW i \in 0 .. 461
        PROVE  e[i] = IF i \in off .. off + len - 1 THEN w[off + len - 1 - i] ELSE m[i]
    <2>1. CASE i \in off .. off + 31
      <3> DEFINE k == off + 32 - 1 - i
      <3>1. /\ k \in 0 .. 31 /\ off + 31 - k = i /\ k - (32 - len) = off + len - 1 - i
            /\ k >= 32 - len <=> i \in off .. off + len - 1
        BY <2>1
      <3>2. e[i] = merged[k]
        <4>1. i \in off .. off + 32 - 1
          BY <2>1
        <4> QED BY <1>6, <4>1 DEF Patched
      <3> HIDE DEF k
      <3>3. merged[k] = IF k >= 32 - len THEN w[k - (32 - len)] ELSE m[off + 31 - k]
        BY <1>4, <3>1
      <3> QED BY <3>1, <3>2, <3>3
    <2>2. CASE i \notin off .. off + 31
      <3>1. i \notin off .. off + 32 - 1 /\ i \notin off .. off + len - 1
        BY <2>2
      <3> QED BY <1>6, <3>1 DEF Patched
    <2> QED BY <2>1, <2>2
  <1> QED BY <1>6, <1>7 DEF Patched

-----------------------------------------------------------------------------
(* The fields of the fast VM in the witness.                               *)

\* VMState: the types of the fields that the witness has.
VMState(s) ==
    /\ s = [memRoot |-> s.memRoot, preimageKey |-> s.preimageKey,
            preimageOffset |-> s.preimageOffset, pc |-> s.pc, exitCode |-> s.exitCode,
            exited |-> s.exited, step |-> s.step, heap |-> s.heap,
            loadReservation |-> s.loadReservation, registers |-> s.registers,
            lastHint |-> s.lastHint, witness |-> s.witness, stateHash |-> s.stateHash]
    /\ s.memRoot \in U256 /\ s.preimageKey \in U256 /\ s.preimageOffset \in U64
    /\ s.pc \in U64 /\ s.exitCode \in Byte /\ s.exited \in BOOLEAN /\ s.step \in U64
    /\ s.heap \in U64 /\ s.loadReservation \in U64 /\ s.registers \in [0 .. 31 -> U64]

\* d holds the witness of s, and whatever is behind it.
Mirrors(d, s) == \A i \in 0 .. 361 : d[i] = WitnessByte(s, i)

\* The witness of t is that of s, but for a field.
FieldSet(t, s, off, len, v) ==
    \A i \in 0 .. 361 :
        WitnessByte(t, i) =
            IF i \in off .. off + len - 1 THEN v[off + len - 1 - i] ELSE WitnessByte(s, i)

\* What holds up to the end of memory holds up to the end of the state.
LEMMA PatchedState ==
    ASSUME NEW f, NEW g, NEW off \in Nat, NEW len \in Nat, NEW v,
           Patched(f, g, off, len, v, 461)
    PROVE  Patched(f, g, off, len, v, 361)
  <1>1. ASSUME NEW i \in 0 .. 361
        PROVE  f[i] = IF i \in off .. off + len - 1 THEN v[off + len - 1 - i] ELSE g[i]
    <2>1. i \in 0 .. 461
      OBVIOUS
    <2> QED BY <2>1 DEF Patched
  <1> QED BY <1>1 DEF Patched

\* The low bytes of a word are those of v.
Agrees(w, v, len) == \A k \in 0 .. len - 1 : w[k] = v[k]

\* Both set the same field.
LEMMA MirrorsStep ==
    ASSUME NEW s, NEW t, NEW d, NEW e, NEW off \in Nat, NEW len \in Nat, NEW v, NEW w,
           Mirrors(d, s), Patched(e, d, off, len, w, 361), FieldSet(t, s, off, len, v),
           Agrees(w, v, len)
    PROVE  Mirrors(e, t)
  <1>1. ASSUME NEW i \in 0 .. 361 PROVE e[i] = WitnessByte(t, i)
    <2>1. CASE i \in off .. off + len - 1
      <3> DEFINE k == off + len - 1 - i
      <3>1. k \in 0 .. len - 1
        BY <2>1
      <3>2. e[i] = w[k] /\ WitnessByte(t, i) = v[k]
        BY <2>1 DEF Patched, FieldSet
      <3> HIDE DEF k
      <3> QED BY <3>1, <3>2 DEF Agrees
    <2>2. CASE i \notin off .. off + len - 1
      BY <2>2 DEF Patched, FieldSet, Mirrors
    <2> QED BY <2>1, <2>2
  <1> QED BY <1>1 DEF Mirrors

\* The fields that the witness has.
WitnessFields ==
    {"memRoot", "preimageKey", "preimageOffset", "pc", "exitCode", "exited", "step",
     "heap", "loadReservation", "registers"}

\* t has the fields of s, but for one.
Differs(t, s, name) == \A f \in WitnessFields \ {name} : t[f] = s[f]

\* What differs in one field differs in the bytes of this field: one lemma per field.
LEMMA SetsMemRoot ==
    ASSUME NEW s, NEW t, Differs(t, s, "memRoot")
    PROVE  FieldSet(t, s, 0, 32, t.memRoot)
  BY DEF Differs, WitnessFields, FieldSet, WitnessByte

\* The same for the key of a pre-image.
LEMMA SetsPreimageKey ==
    ASSUME NEW s, NEW t, Differs(t, s, "preimageKey")
    PROVE  FieldSet(t, s, 32, 32, t.preimageKey)
  BY DEF Differs, WitnessFields, FieldSet, WitnessByte

\* The same for the offset in a pre-image.
LEMMA SetsPreimageOffset ==
    ASSUME NEW s, NEW t, Differs(t, s, "preimageOffset")
    PROVE  FieldSet(t, s, 64, 8, t.preimageOffset)
  BY DEF Differs, WitnessFields, FieldSet, WitnessByte

\* The same for the program counter.
LEMMA SetsPC ==
    ASSUME NEW s, NEW t, Differs(t, s, "pc")
    PROVE  FieldSet(t, s, 72, 8, t.pc)
  BY DEF Differs, WitnessFields, FieldSet, WitnessByte

\* The same for the step counter.
LEMMA SetsStep ==
    ASSUME NEW s, NEW t, Differs(t, s, "step")
    PROVE  FieldSet(t, s, 82, 8, t.step)
  BY DEF Differs, WitnessFields, FieldSet, WitnessByte

\* The same for the heap.
LEMMA SetsHeap ==
    ASSUME NEW s, NEW t, Differs(t, s, "heap")
    PROVE  FieldSet(t, s, 90, 8, t.heap)
  BY DEF Differs, WitnessFields, FieldSet, WitnessByte

\* The same for the reservation.
LEMMA SetsLoadReservation ==
    ASSUME NEW s, NEW t, Differs(t, s, "loadReservation")
    PROVE  FieldSet(t, s, 98, 8, t.loadReservation)
  BY DEF Differs, WitnessFields, FieldSet, WitnessByte

\* The same for the exit code.
LEMMA SetsExitCode ==
    ASSUME NEW s, NEW t, Differs(t, s, "exitCode")
    PROVE  FieldSet(t, s, 80, 1, Chain!ByteWord(t.exitCode))
  BY DEF Differs, WitnessFields, FieldSet, WitnessByte, Chain!ByteWord

\* The same for the exit flag.
LEMMA SetsExited ==
    ASSUME NEW s, NEW t, Differs(t, s, "exited"), t.exited = TRUE
    PROVE  FieldSet(t, s, 81, 1, Chain!ByteWord(1))
  BY DEF Differs, WitnessFields, FieldSet, WitnessByte, Chain!ByteWord, Bool

\* The same for one of the registers.
LEMMA SetsRegister ==
    ASSUME NEW s, NEW t, NEW reg \in 0 .. 31, NEW v, Differs(t, s, "registers"),
           \A r \in 0 .. 31 : t.registers[r] = IF r = reg THEN v ELSE s.registers[r]
    PROVE  FieldSet(t, s, 106 + reg * 8, 8, v)
  <1>1. ASSUME NEW i \in 0 .. 105
        PROVE  /\ WitnessByte(t, i) = WitnessByte(s, i)
               /\ i \notin 106 + reg * 8 .. 106 + reg * 8 + 8 - 1
    BY DEF Differs, WitnessFields, WitnessByte
  <1>2. ASSUME NEW i \in 106 .. 361
        PROVE  WitnessByte(t, i) = IF i \in 106 + reg * 8 .. 106 + reg * 8 + 8 - 1
                                   THEN v[106 + reg * 8 + 8 - 1 - i] ELSE WitnessByte(s, i)
    <2> DEFINE r == (i - 106) \div 8
               b == 7 - ((i - 106) % 8)
    <2>1. r \in 0 .. 31 /\ i = 106 + 8 * r + 7 - b /\ b \in 0 .. 7
      OBVIOUS
    <2>2. WitnessByte(t, i) = t.registers[r][b] /\ WitnessByte(s, i) = s.registers[r][b]
      BY DEF WitnessByte
    <2> HIDE DEF r, b
    <2>3. CASE r = reg
      <3>1. i \in 106 + reg * 8 .. 106 + reg * 8 + 8 - 1 /\ b = 106 + reg * 8 + 8 - 1 - i
        BY <2>1, <2>3
      <3> QED BY <2>1, <2>2, <2>3, <3>1
    <2>4. CASE r # reg
      <3>1. i \notin 106 + reg * 8 .. 106 + reg * 8 + 8 - 1
        BY <2>1, <2>4
      <3> QED BY <2>1, <2>2, <2>4, <3>1, SMTT(20)
    <2> QED BY <2>3, <2>4
  <1> QED BY <1>1, <1>2, SMTT(20) DEF FieldSet

-----------------------------------------------------------------------------
(* The calldata.                                                           *)

\* The sums of sizes in the slow VM are the literals of the on-chain VM.
LEMMA SlowOffsets ==
    /\ Slow!stateOffsetMemRoot = 0 /\ Slow!stateOffsetPreimageKey = 32
    /\ Slow!stateOffsetPreimageOffset = 64 /\ Slow!stateOffsetPC = 72
    /\ Slow!stateOffsetExitCode = 80 /\ Slow!stateOffsetExited = 81
    /\ Slow!stateOffsetStep = 82 /\ Slow!stateOffsetHeap = 90
    /\ Slow!stateOffsetLoadReservation = 98 /\ Slow!stateOffsetRegisters = 106
    /\ Slow!stateSize = 362 /\ Slow!paddedStateSize = 384
    /\ Slow!stateContentOffset = 132 /\ Slow!proofContentOffset = 548
  BY DEF Slow!FieldSize, Slow!stateOffsetMemRoot, Slow!stateOffsetPreimageKey,
         Slow!stateOffsetPreimageOffset, Slow!stateOffsetPC, Slow!stateOffsetExitCode,
         Slow!stateOffsetExited, Slow!stateOffsetStep, Slow!stateOffsetHeap,
         Slow!stateOffsetLoadReservation, Slow!stateOffsetRegisters, Slow!stateSize,
         Slow!paddedStateSize, Slow!stateContentOffset, Slow!proofContentOffset

\* The sizes of the fields.
LEMMA FieldSizes ==
    /\ Slow!FieldSize.MemRoot = 32 /\ Slow!FieldSize.PreimageKey = 32
    /\ Slow!FieldSize.PreimageOffset = 8 /\ Slow!FieldSize.PC = 8
    /\ Slow!FieldSize.ExitCode = 1 /\ Slow!FieldSize.Exited = 1
    /\ Slow!FieldSize.Step = 8 /\ Slow!FieldSize.Heap = 8
    /\ Slow!FieldSize.LoadReservation = 8
    /\ Chain!FieldSize.MemRoot = 32 /\ Chain!FieldSize.PreimageKey = 32
    /\ Chain!FieldSize.PreimageOffset = 8 /\ Chain!FieldSize.PC = 8
    /\ Chain!FieldSize.ExitCode = 1 /\ Chain!FieldSize.Exited = 1
    /\ Chain!FieldSize.Step = 8 /\ Chain!FieldSize.Heap = 8
    /\ Chain!FieldSize.LoadReservation = 8
  BY DEF Slow!FieldSize, Chain!FieldSize

\* The encodings are the same in all modules.
LEMMA SameOrder ==
    ASSUME NEW n, NEW v
    PROVE  Slow!BigEndian(n, v) = BigEndian(n, v) /\ Slow!FromBigEndian(n, v) = FromBigEndian(n, v)
  BY DEF Slow!BigEndian, BigEndian, Slow!FromBigEndian, FromBigEndian

\* What a word of the calldata stands for.
InputLayout(in, sw, count) ==
    /\ in[1] = 96 /\ in[2] = 512 /\ in[4] = 362 /\ in[17] = count * 1920
    /\ \A j \in 5 .. 16 : in[j] = StateWords(sw)[j - 4]
    /\ \A j \in 18 .. 17 + 60 * count : in[j] = Node((j - 18) \div 60, (j - 18) % 60)

\* What EncodeStepInput returns.
LEMMA InputWords ==
    ASSUME NEW sw, Len(sw) = 362, NEW count \in Nat,
           NEW in, in = EncodeStepInput(sw, count)
    PROVE  InputLayout(in, sw, count)
  <1> DEFINE head == <<96, 512, "localContext">>
             size == <<362>>
             words == StateWords(sw)
             psize == <<count * 1920>>
             nodes == MemProofWords(count)
             n == 60 * count
             s1 == head \o size
             s2 == s1 \o words
             s3 == s2 \o psize
  <1>1. Words(362) = 12
    BY DEF Words
  <1>2. in = s3 \o nodes
    BY <1>1, SMTT(20) DEF EncodeStepInput, memProofSize
  <1>3. SeqOf(head, 3) /\ head[1] = 96 /\ head[2] = 512
    <2>1. head \in Seq({96, 512, "localContext"}) /\ Len(head) = 3
      OBVIOUS
    <2> QED BY <2>1 DEF SeqOf
  <1>4. SeqOf(size, 1) /\ size[1] = 362
    <2>1. size \in Seq({362}) /\ Len(size) = 1
      OBVIOUS
    <2> QED BY <2>1 DEF SeqOf
  <1>5. SeqOf(psize, 1) /\ psize[1] = count * 1920
    <2> DEFINE c == count * 1920
    <2> HIDE DEF c
    <2>1. <<c>> \in Seq({c}) /\ Len(<<c>>) = 1 /\ <<c>>[1] = c
      OBVIOUS
    <2>2. SeqOf(<<c>>, 1) /\ <<c>>[1] = c
      BY <2>1 DEF SeqOf
    <2> QED BY <2>2 DEF c
  <1>6. SeqOf(words, 12)
    <2> DEFINE k == 12
    <2>1. DOMAIN words = 1 .. k /\ words = [i \in 1 .. k |-> words[i]]
      BY <1>1 DEF StateWords
    <2>2. k \in Nat
      OBVIOUS
    <2> HIDE DEF k, words
    <2>3. SeqOf(words, k)
      BY <2>1, <2>2, FunSeq
    <2> QED BY <2>3 DEF k
  <1>7. n \in Nat
    OBVIOUS
  <1>8. SeqOf(nodes, n) /\ \A w \in 1 .. n : nodes[w] = Node((w - 1) \div 60, (w - 1) % 60)
    <2>1. /\ DOMAIN nodes = 1 .. n /\ nodes = [i \in 1 .. n |-> nodes[i]]
          /\ \A w \in 1 .. n : nodes[w] = Node((w - 1) \div 60, (w - 1) % 60)
      BY DEF MemProofWords
    <2> HIDE DEF n, nodes
    <2>2. SeqOf(nodes, n)
      BY <1>7, <2>1, FunSeq
    <2> QED BY <2>1, <2>2
  <1> HIDE DEF head, size, words, psize, nodes, n
  <1>9. SeqOf(s1, 4) /\ Joins(s1, head, 3, size, 4)
    BY <1>3, <1>4, Joined DEF s1
  <1> HIDE DEF s1
  <1>10. SeqOf(s2, 16) /\ Joins(s2, s1, 4, words, 16)
    BY <1>6, <1>9, Joined DEF s2
  <1> HIDE DEF s2
  <1>11. SeqOf(s3, 17) /\ Joins(s3, s2, 16, psize, 17)
    BY <1>5, <1>10, Joined DEF s3
  <1> HIDE DEF s3
  <1>12. Joins(in, s3, 17, nodes, 17 + n)
    <2>1. 17 \in Nat /\ 17 + n \in Nat
      BY <1>7
    <2> QED BY <1>2, <1>7, <1>8, <1>11, <2>1, Joined
  <1>13. ASSUME NEW j \in 1 .. 4 PROVE in[j] = s1[j]
    BY <1>7, <1>10, <1>11, <1>12 DEF Joins
  <1>14. in[1] = 96 /\ in[2] = 512 /\ in[4] = 362
    <2>1. in[1] = s1[1] /\ in[2] = s1[2] /\ in[4] = s1[4]
      BY <1>13
    <2>2. s1[1] = head[1] /\ s1[2] = head[2] /\ s1[4] = size[1]
      BY <1>9 DEF Joins
    <2> QED BY <2>1, <2>2, <1>3, <1>4
  <1>15. in[17] = count * 1920
    <2>1. in[17] = s3[17]
      BY <1>7, <1>12 DEF Joins
    <2>2. s3[17] = psize[1]
      BY <1>11 DEF Joins
    <2> QED BY <2>1, <2>2, <1>5
  <1>16. ASSUME NEW j \in 5 .. 16 PROVE in[j] = words[j - 4]
    BY <1>7, <1>10, <1>11, <1>12 DEF Joins
  <1>17. ASSUME NEW j \in 18 .. 17 + n PROVE in[j] = Node((j - 18) \div 60, (j - 18) % 60)
    <2> DEFINE w == j - 17
    <2>1. w \in 1 .. n /\ w - 1 = j - 18
      BY <1>7
    <2>2. in[j] = nodes[w]
      BY <1>7, <1>12 DEF Joins
    <2> HIDE DEF w
    <2> QED BY <2>1, <2>2, <1>8
  <1> QED BY <1>14, <1>15, <1>16, <1>17 DEF InputLayout, words, n

\* The words of the state hold its bytes.
LEMMA StateWordBytes ==
    ASSUME NEW sw, SeqOf(sw, 362), NEW w \in 1 .. 12, NEW i \in 1 .. 32,
           32 * (w - 1) + i <= 362
    PROVE  StateWords(sw)[w][i] = sw[32 * (w - 1) + i]
  <1>1. Words(362) = 12
    BY DEF Words
  <1>2. Len(sw) = 362
    BY DEF SeqOf
  <1> QED BY <1>1, <1>2 DEF StateWords

\* sw is the witness of s.
IsWitness(sw, s) ==
    /\ SeqOf(sw, 362)
    /\ \A i \in 0 .. 361 : sw[i + 1] = WitnessByte(s, i) /\ WitnessByte(s, i) \in Byte

\* The slow VM copies the state from the calldata.
LEMMA SlowLoads ==
    ASSUME NEW s, NEW sw, NEW count, NEW in, NEW d,
           IsWitness(sw, s), InputLayout(in, sw, count), d = Slow!LoadState(in)
    PROVE  d \in DataBytes /\ Mirrors(d, s)
  <1>1. d = [k \in 0 .. 361 |-> d[k]]
    BY SlowOffsets DEF Slow!LoadState
  <1>2. ASSUME NEW k \in 0 .. 361 PROVE d[k] = WitnessByte(s, k)
    <2> DEFINE j == (132 + 32 * (k \div 32) - 4) \div 32 + 1
    <2>1. j \in 5 .. 16 /\ j - 4 = k \div 32 + 1
      OBVIOUS
    <2>2. d[k] = in[j][(k % 32) + 1]
      BY SlowOffsets DEF Slow!LoadState, Slow!calldataload
    <2> HIDE DEF j
    <2>3. in[j] = StateWords(sw)[j - 4]
      BY <2>1 DEF InputLayout
    <2> DEFINE w == j - 4
               b == (k % 32) + 1
               at == k + 1
    <2>4. w \in 1 .. 12 /\ b \in 1 .. 32 /\ at = 32 * (w - 1) + b /\ at <= 362
      BY <2>1
    <2>5. d[k] = StateWords(sw)[w][b]
      BY <2>2, <2>3
    <2> HIDE DEF w, b, at
    <2>6. StateWords(sw)[w][b] = sw[32 * (w - 1) + b]
      <3>1. SeqOf(sw, 362)
        BY DEF IsWitness
      <3> QED BY <2>4, <3>1, StateWordBytes
    <2>7. sw[at] = WitnessByte(s, k)
      BY DEF IsWitness, at
    <2> QED BY <2>4, <2>5, <2>6, <2>7
  <1>3. d \in DataBytes
    <2>1. ASSUME NEW k \in 0 .. 361 PROVE d[k] \in Byte
      BY <1>2 DEF IsWitness
    <2> QED BY <1>1, <2>1 DEF DataBytes
  <1> QED BY <1>2, <1>3 DEF Mirrors

\* The on-chain VM copies it too, in front of fresh memory.
LEMMA ChainLoads ==
    ASSUME NEW s, NEW sw, NEW count, NEW in, NEW d,
           IsWitness(sw, s), InputLayout(in, sw, count), d = Chain!LoadState(in)
    PROVE  d \in MemBytes /\ Mirrors(d, s)
  <1>0. Chain!stateDataOffset(in) = 132
    BY DEF Chain!stateDataOffset, Chain!calldataload, InputLayout
  <1>1. /\ Chain!StateBytes = 0 .. 361 /\ Chain!FreeBytes = 362 .. 461
        /\ Chain!StateBytes \cup Chain!FreeBytes = 0 .. 461
    BY DEF Chain!StateBytes, Chain!FreeBytes, Chain!stateSize, Chain!FreeSize
  <1>2. d = [k \in 0 .. 461 |-> d[k]]
    BY <1>1 DEF Chain!LoadState
  <1>3. ASSUME NEW k \in 0 .. 361 PROVE d[k] = WitnessByte(s, k)
    <2> DEFINE j == (132 + 32 * (k \div 32) - 4) \div 32 + 1
    <2>1. j \in 5 .. 16 /\ j - 4 = k \div 32 + 1
      OBVIOUS
    <2>a. k \in 0 .. 461 /\ k \notin Chain!FreeBytes /\ k \in Chain!StateBytes \cup Chain!FreeBytes
      BY <1>1, SMTT(40)
    <2>2. d[k] = in[j][(k % 32) + 1]
      BY <1>0, <2>a DEF Chain!LoadState, Chain!calldataload
    <2> HIDE DEF j
    <2>3. in[j] = StateWords(sw)[j - 4]
      BY <2>1 DEF InputLayout
    <2> DEFINE w == j - 4
               b == (k % 32) + 1
               at == k + 1
    <2>4. w \in 1 .. 12 /\ b \in 1 .. 32 /\ at = 32 * (w - 1) + b /\ at <= 362
      BY <2>1
    <2>5. d[k] = StateWords(sw)[w][b]
      BY <2>2, <2>3
    <2> HIDE DEF w, b, at
    <2>6. StateWords(sw)[w][b] = sw[32 * (w - 1) + b]
      <3>1. SeqOf(sw, 362)
        BY DEF IsWitness
      <3> QED BY <2>4, <3>1, StateWordBytes
    <2>7. sw[at] = WitnessByte(s, k)
      BY DEF IsWitness, at
    <2> QED BY <2>4, <2>5, <2>6, <2>7
  <1>4. ASSUME NEW k \in 362 .. 461 PROVE d[k] = 0
    BY <1>1 DEF Chain!LoadState
  <1>5. d \in MemBytes
    <2>1. ASSUME NEW k \in 0 .. 461 PROVE d[k] \in Byte
      <3>1. CASE k \in 0 .. 361
        <4>1. d[k] = WitnessByte(s, k)
          BY <1>3, <3>1
        <4> QED BY <3>1, <4>1 DEF IsWitness
      <3>2. CASE k \in 362 .. 461
        <4>1. d[k] = 0
          BY <1>4, <3>2
        <4> QED BY <4>1 DEF Byte
      <3> QED BY <3>1, <3>2
    <2> QED BY <1>2, <2>1 DEF MemBytes
  <1> QED BY <1>3, <1>5 DEF Mirrors

\* Both find their way in the calldata.
LEMMA InputAccepted ==
    ASSUME NEW sw, NEW count \in Nat, NEW in, InputLayout(in, sw, count)
    PROVE  /\ Slow!AcceptsInput(in)
           /\ Chain!AcceptsInput(in)
           /\ \A p \in 0 .. count - 1, n \in 0 .. 59 :
                 /\ Slow!ProofNode(in, p, n) = Node(p, n)
                 /\ Chain!ProofNode(in, p, n) = Node(p, n)
  <1>0. (count * 1920) % (60 * 32) = 0
    OBVIOUS
  <1>1. Slow!AcceptsInput(in)
    BY <1>0, SlowOffsets DEF Slow!AcceptsInput, Slow!calldataload, InputLayout
  <1>2. Chain!stateDataOffset(in) = 132 /\ Chain!proofDataOffset(in) = 548
    BY DEF Chain!stateDataOffset, Chain!proofDataOffset, Chain!calldataload, InputLayout
  <1>3. Chain!AcceptsInput(in)
    BY <1>0, <1>2 DEF Chain!AcceptsInput, Chain!calldataload, Chain!stateSize,
                      Chain!paddedLen, Chain!proofContentOffset, InputLayout
  <1>4. ASSUME NEW p \in 0 .. count - 1, NEW n \in 0 .. 59
        PROVE  /\ Slow!ProofNode(in, p, n) = Node(p, n)
               /\ Chain!ProofNode(in, p, n) = Node(p, n)
    <2> DEFINE j == (p * 60 * 32 + 548 + 32 * n - 4) \div 32 + 1
    <2>1. /\ j \in 18 .. 17 + 60 * count
          /\ (j - 18) \div 60 = p /\ (j - 18) % 60 = n
      OBVIOUS
    <2>2. Slow!ProofNode(in, p, n) = in[j] /\ Chain!ProofNode(in, p, n) = in[j]
      BY SlowOffsets DEF Slow!ProofNode, Slow!calldataload, Slow!proofOffset,
           Chain!ProofNode, Chain!calldataload, Chain!proofOffset, Chain!proofContentOffset
    <2> HIDE DEF j
    <2>3. in[j] = Node((j - 18) \div 60, (j - 18) % 60)
      BY <2>1 DEF InputLayout
    <2> QED BY <2>1, <2>2, <2>3
  <1> QED BY <1>1, <1>3, <1>4

-----------------------------------------------------------------------------
(* Getters.                                                                *)

\* d has v, in big-endian order, in the len bytes from off on.
Holds(d, off, len, v) == \A k \in 0 .. len - 1 : d[off + len - 1 - k] = v[k]

\* Where the fields are.
LEMMA FieldsHeld ==
    ASSUME NEW d, NEW s, Mirrors(d, s)
    PROVE  /\ Holds(d, 0, 32, s.memRoot) /\ Holds(d, 32, 32, s.preimageKey)
           /\ Holds(d, 64, 8, s.preimageOffset) /\ Holds(d, 72, 8, s.pc)
           /\ d[80] = s.exitCode /\ d[81] = Bool(s.exited)
           /\ Holds(d, 82, 8, s.step) /\ Holds(d, 90, 8, s.heap)
           /\ Holds(d, 98, 8, s.loadReservation)
           /\ \A reg \in 0 .. 31 : Holds(d, 106 + reg * 8, 8, s.registers[reg])
  <1>1. Holds(d, 0, 32, s.memRoot) /\ Holds(d, 32, 32, s.preimageKey)
    <2>1. ASSUME NEW k \in 0 .. 31
          PROVE  d[31 - k] = s.memRoot[k] /\ d[63 - k] = s.preimageKey[k]
      <3>1. /\ 31 - k \in 0 .. 361 /\ 31 - k < 32 /\ 31 - (31 - k) = k
            /\ 63 - k \in 0 .. 361 /\ ~(63 - k < 32) /\ 63 - k < 64 /\ 63 - (63 - k) = k
        OBVIOUS
      <3>2. d[31 - k] = WitnessByte(s, 31 - k) /\ d[63 - k] = WitnessByte(s, 63 - k)
        BY <3>1 DEF Mirrors
      <3> QED BY <3>1, <3>2 DEF WitnessByte
    <2> QED BY <2>1 DEF Holds
  <1>2. Holds(d, 64, 8, s.preimageOffset) /\ Holds(d, 72, 8, s.pc)
    <2>1. Holds(d, 64, 8, s.preimageOffset)
      BY DEF Mirrors, Holds, WitnessByte
    <2>2. Holds(d, 72, 8, s.pc)
      BY DEF Mirrors, Holds, WitnessByte
    <2> QED BY <2>1, <2>2
  <1>3. d[80] = s.exitCode /\ d[81] = Bool(s.exited)
    BY DEF Mirrors, WitnessByte
  <1>4. /\ Holds(d, 82, 8, s.step) /\ Holds(d, 90, 8, s.heap)
        /\ Holds(d, 98, 8, s.loadReservation)
    BY DEF Mirrors, Holds, WitnessByte
  <1>5. ASSUME NEW reg \in 0 .. 31, NEW k \in 0 .. 7
        PROVE  d[106 + reg * 8 + 8 - 1 - k] = s.registers[reg][k]
    <2> DEFINE i == 106 + reg * 8 + 8 - 1 - k
    <2>1. /\ i \in 106 .. 361
          /\ (i - 106) \div 8 = reg /\ 7 - ((i - 106) % 8) = k
      OBVIOUS
    <2> HIDE DEF i
    <2>2. d[i] = s.registers[(i - 106) \div 8][7 - ((i - 106) % 8)]
      <3>1. d[i] = WitnessByte(s, i)
        BY <2>1 DEF Mirrors
      <3>2. i \in Nat /\ i >= 106
        BY <2>1
      <3>3. WitnessByte(s, i) = s.registers[(i - 106) \div 8][7 - ((i - 106) % 8)]
        BY <3>2 DEF WitnessByte
      <3> QED BY <3>1, <3>3
    <2>3. d[i] = s.registers[reg][k]
      BY <2>1, <2>2
    <2> QED BY <2>3 DEF i
  <1>6. \A reg \in 0 .. 31 : Holds(d, 106 + reg * 8, 8, s.registers[reg])
    BY <1>5 DEF Holds
  <1> QED BY <1>1, <1>2, <1>3, <1>4, <1>6

\* readState of the slow VM and the decoding behind it.
LEMMA SlowReads ==
    ASSUME NEW d, NEW off \in Nat, NEW len \in Nat, NEW v \in [0 .. len - 1 -> Byte],
           Holds(d, off, len, v)
    PROVE  FromBigEndian(len, Slow!readState(d, off, len)) = v
  <1> DEFINE b == Slow!readState(d, off, len)
             r == FromBigEndian(len, b)
  <1>1. \A i \in 1 .. len : b[i] = d[off + i - 1]
    BY DEF Slow!readState
  <1>2. r = [k \in 0 .. len - 1 |-> b[len - k]]
    BY DEF FromBigEndian
  <1> HIDE DEF b, r
  <1>3. ASSUME NEW k \in 0 .. len - 1 PROVE r[k] = v[k]
    <2>1. r[k] = b[len - k] /\ len - k \in 1 .. len
      BY <1>2
    <2>2. b[len - k] = d[off + (len - k) - 1]
      BY <1>1, <2>1
    <2>3. off + (len - k) - 1 = off + len - 1 - k
      OBVIOUS
    <2> QED BY <2>1, <2>2, <2>3 DEF Holds
  <1>4. r = v
    <2>1. r = [k \in 0 .. len - 1 |-> r[k]]
      BY <1>2
    <2> QED BY <1>3, <2>1
  <1> QED BY <1>4 DEF r, b

\* readState of the on-chain VM: what is behind the field is shifted out.
LEMMA ChainReads ==
    ASSUME NEW m, NEW off \in Nat, NEW len \in 1 .. 32, NEW w \in U256,
           Holds(m, off, len, w), \A k \in len .. 31 : w[k] = 0
    PROVE  Chain!readState(m, off, len) = w
  <1> DEFINE b == Chain!mload(m, off)
             r == Chain!readState(m, off, len)
  <1>1. \A k \in 0 .. 31 : b[k] = m[off + 31 - k]
    BY DEF Chain!mload
  <1>2. r = [k \in 0 .. 31 |-> IF k + (32 - len) <= 31 THEN b[k + (32 - len)] ELSE 0]
    BY DEF Chain!readState, Chain!shrBytes
  <1> HIDE DEF b, r
  <1>3. ASSUME NEW k \in 0 .. 31 PROVE r[k] = w[k]
    <2>1. CASE k < len
      <3> DEFINE j == k + (32 - len)
      <3>1. j \in 0 .. 31 /\ j <= 31 /\ off + 31 - j = off + len - 1 - k
        BY <2>1
      <3>2. r[k] = b[j]
        BY <1>2, <3>1
      <3> HIDE DEF j
      <3>3. r[k] = m[off + len - 1 - k]
        BY <1>1, <3>1, <3>2
      <3> QED BY <2>1, <3>3 DEF Holds
    <2>2. CASE k >= len
      <3>1. ~(k + (32 - len) <= 31) /\ k \in len .. 31
        BY <2>2
      <3> QED BY <1>2, <3>1
    <2> QED BY <2>1, <2>2
  <1>4. r = w
    <2>1. r = [k \in 0 .. 31 |-> r[k]]
      BY <1>2
    <2> QED BY <1>3, <2>1 DEF U256
  <1> QED BY <1>4 DEF r

\* It returns a word.
LEMMA ChainReadType ==
    ASSUME NEW m \in MemBytes, NEW off \in 0 .. 361, NEW len \in 1 .. 32
    PROVE  Chain!readState(m, off, len) \in U256
  <1> DEFINE b == Chain!mload(m, off)
             r == Chain!readState(m, off, len)
  <1>1. ASSUME NEW k \in 0 .. 31 PROVE b[k] \in Byte
    <2>1. off + 31 - k \in 0 .. 461
      OBVIOUS
    <2>2. b[k] = m[off + 31 - k]
      BY DEF Chain!mload
    <2> QED BY <2>1, <2>2 DEF MemBytes
  <1>2. r = [k \in 0 .. 31 |-> IF k + (32 - len) <= 31 THEN b[k + (32 - len)] ELSE 0]
    BY DEF Chain!readState, Chain!shrBytes
  <1> HIDE DEF b, r
  <1>3. ASSUME NEW k \in 0 .. 31 PROVE r[k] \in Byte
    <2>1. CASE k + (32 - len) <= 31
      <3>1. r[k] = b[k + (32 - len)] /\ k + (32 - len) \in 0 .. 31
        BY <1>2, <2>1
      <3> QED BY <1>1, <3>1
    <2>2. CASE ~(k + (32 - len) <= 31)
      <3>1. r[k] = 0
        BY <1>2, <2>2
      <3> QED BY <3>1 DEF Byte
    <2> QED BY <2>1, <2>2
  <1>4. r = [k \in 0 .. 31 |-> r[k]]
    BY <1>2
  <1>5. r \in U256
    BY <1>3, <1>4 DEF U256
  <1> QED BY <1>5 DEF r

\* A 64-bit value as a word.
LEMMA WordOf ==
    ASSUME NEW v \in U64
    PROVE  /\ Chain!Word(v) \in U256
           /\ \A k \in 0 .. 7 : Chain!Word(v)[k] = v[k]
           /\ \A k \in 8 .. 31 : Chain!Word(v)[k] = 0
  BY DEF Chain!Word, U64, U256, Byte

\* A byte as a word.
LEMMA ByteWordOf ==
    ASSUME NEW b \in Byte
    PROVE  /\ Chain!ByteWord(b) \in U256
           /\ Chain!ByteWord(b)[0] = b
           /\ \A k \in 1 .. 31 : Chain!ByteWord(b)[k] = 0
  BY DEF Chain!ByteWord, U256, Byte

-----------------------------------------------------------------------------
(* The inductive invariant.                                                *)

\* In a step both slow VMs hold the witness of the fast VM's state.
StateInv ==
    /\ VMState(fast)
    /\ stepping \in BOOLEAN
    /\ stepping => /\ data \in DataBytes /\ Mirrors(data, fast)
                   /\ mem \in MemBytes /\ Mirrors(mem, fast)

\* The bytes of a state are bytes.
LEMMA WitnessBytes ==
    ASSUME NEW s, VMState(s), NEW i \in 0 .. 361
    PROVE  WitnessByte(s, i) \in Byte
  <1>t. /\ s.memRoot \in [0 .. 31 -> Byte] /\ s.preimageKey \in [0 .. 31 -> Byte]
        /\ s.preimageOffset \in [0 .. 7 -> Byte] /\ s.pc \in [0 .. 7 -> Byte]
        /\ s.exitCode \in Byte /\ s.exited \in BOOLEAN /\ s.step \in [0 .. 7 -> Byte]
        /\ s.heap \in [0 .. 7 -> Byte] /\ s.loadReservation \in [0 .. 7 -> Byte]
        /\ s.registers \in [0 .. 31 -> [0 .. 7 -> Byte]]
    BY DEF VMState, U64, U256
  <1>b. Bool(s.exited) \in Byte
    BY DEF Bool, Byte
  <1>1. CASE i < 106
    BY <1>1, <1>t, <1>b, SMTT(40) DEF WitnessByte
  <1>2. CASE i >= 106
    <2> DEFINE r == (i - 106) \div 8
               b == 7 - ((i - 106) % 8)
    <2>1. r \in 0 .. 31 /\ b \in 0 .. 7
      BY <1>2
    <2>2. WitnessByte(s, i) = s.registers[r][b]
      BY <1>2 DEF WitnessByte
    <2> HIDE DEF r, b
    <2> QED BY <2>1, <2>2, <1>t
  <1> QED BY <1>1, <1>2

\* What the encoder returns is the witness of its state.
LEMMA EncodeIsWitness ==
    ASSUME NEW s, VMState(s)
    PROVE  IsWitness(EncodeWitness(s), s)
  BY WitnessLayout, WitnessBytes DEF IsWitness

\* A step begins with the witness.
LEMMA Loads ==
    ASSUME NEW s, VMState(s), NEW count \in Nat, NEW in, NEW d, NEW m,
           in = EncodeStepInput(EncodeWitness(s), count),
           d = Slow!LoadState(in), m = Chain!LoadState(in)
    PROVE  d \in DataBytes /\ Mirrors(d, s) /\ m \in MemBytes /\ Mirrors(m, s)
  <1> DEFINE sw == EncodeWitness(s)
  <1>1. IsWitness(sw, s) /\ Len(sw) = 362
    BY EncodeIsWitness, WitnessLayout
  <1>2. in = EncodeStepInput(sw, count)
    OBVIOUS
  <1> HIDE DEF sw
  <1>3. InputLayout(in, sw, count)
    BY <1>1, <1>2, InputWords
  <1> QED BY <1>1, <1>3, SlowLoads, ChainLoads

\* A new state has the types of the fields.
LEMMA NewVMStateType == VMState(NewVMState)
  <1>1. Zero64 \in U64 /\ Zero256 \in U256
    BY DEF Zero64, FromInt, U64, Zero256, U256, Byte
  <1>2. [Zero64 EXCEPT ![3] = 16] \in U64
    BY <1>1 DEF U64, Byte
  <1>3. [r \in 0 .. 31 |-> Zero64] \in [0 .. 31 -> U64]
    BY <1>1
  <1>4. NoHash \in [first : 0 .. 3, of : Seq(Byte)]
    BY DEF NoHash
  <1> QED BY <1>1, <1>2, <1>3, <1>4 DEF NewVMState, VMState, Byte

\* StateInv holds before the first step.
LEMMA InitState == Init => StateInv
  <1> SUFFICES ASSUME Init PROVE StateInv
    OBVIOUS
  <1>1. VMState(fast)
    BY NewVMStateType DEF Init
  <1>2. /\ input = EncodeStepInput(EncodeWitness(fast), 1)
        /\ data = Slow!LoadState(input) /\ mem = Chain!LoadState(input) /\ stepping = TRUE
    BY DEF Init
  <1>3. data \in DataBytes /\ Mirrors(data, fast) /\ mem \in MemBytes /\ Mirrors(mem, fast)
    BY <1>1, <1>2, Loads
  <1> QED BY <1>1, <1>2, <1>3 DEF StateInv

-----------------------------------------------------------------------------
(* Each assignment.                                                        *)

\* Both slow VMs hold the witness of t, and free memory is as in m.
Hold(e, n, t, m) ==
    /\ e \in DataBytes /\ Mirrors(e, t)
    /\ n \in MemBytes /\ Mirrors(n, t)
    /\ \A i \in 362 .. 461 : n[i] = m[i]

\* An assignment of a field, in the three VMs.
LEMMA Assigns ==
    ASSUME NEW s, NEW t, NEW d, NEW m, NEW f, NEW off \in Nat, NEW len \in 1 .. 32,
           off + len <= 362, NEW v \in [0 .. len - 1 -> Byte],
           NEW w \in U256, Agrees(w, v, len),
           Hold(d, m, s, f), FieldSet(t, s, off, len, v),
           NEW e, NEW n,
           e = Slow!writeState(d, off, len, BigEndian(len, v)),
           n = Chain!writeState(m, off, len, w)
    PROVE  Hold(e, n, t, f)
  <1>0. /\ d \in DataBytes /\ Mirrors(d, s) /\ m \in MemBytes /\ Mirrors(m, s)
        /\ \A i \in 362 .. 461 : m[i] = f[i]
    BY DEF Hold
  <1>1. len \in Nat
    OBVIOUS
  <1>4. e \in DataBytes /\ Patched(e, d, off, len, v, 361)
    BY <1>0, SlowWrite, ZenonT(60)
  <1>5. n \in MemBytes /\ Patched(n, m, off, len, w, 461)
    BY <1>0, ChainWrite, ZenonT(60)
  <1>6. Mirrors(e, t)
    <2>1. Agrees(v, v, len)
      BY DEF Agrees
    <2> QED BY <1>0, <1>1, <1>4, <2>1, MirrorsStep
  <1>7. Mirrors(n, t)
    <2>1. Patched(n, m, off, len, w, 361)
      BY <1>1, <1>5, PatchedState
    <2> QED BY <1>0, <1>1, <2>1, MirrorsStep
  <1>8. ASSUME NEW i \in 362 .. 461 PROVE n[i] = f[i]
    <2>1. i \in 0 .. 461 /\ i \notin off .. off + len - 1
      BY off \in Nat, len \in 1 .. 32, off + len <= 362
    <2>2. n[i] = m[i]
      BY <1>5, <2>1 DEF Patched
    <2> QED BY <1>0, <2>2
  <1> QED BY <1>4, <1>5, <1>6, <1>7, <1>8 DEF Hold

\* A field of eight bytes: on chain its value is a word.
LEMMA Assigns64 ==
    ASSUME NEW s, NEW t, NEW d, NEW m, NEW f, NEW off \in Nat, off + 8 <= 362,
           NEW v \in U64, Hold(d, m, s, f), FieldSet(t, s, off, 8, v),
           NEW e, NEW n,
           e = Slow!writeState(d, off, 8, BigEndian(8, v)),
           n = Chain!writeState(m, off, 8, Chain!Word(v))
    PROVE  Hold(e, n, t, f)
  <1> DEFINE w == Chain!Word(v)
             len == 8
  <1>0. len \in 1 .. 32 /\ off + len <= 362
    OBVIOUS
  <1>1. w \in U256 /\ Agrees(w, v, len)
    BY WordOf DEF Agrees
  <1>2. v \in [0 .. len - 1 -> Byte]
    BY DEF U64
  <1>3. /\ e = Slow!writeState(d, off, len, BigEndian(len, v))
        /\ n = Chain!writeState(m, off, len, w)
        /\ FieldSet(t, s, off, len, v)
    OBVIOUS
  <1> HIDE DEF w, len
  <1> QED BY <1>0, <1>1, <1>2, <1>3, Assigns

\* A field of 32 bytes.
LEMMA Assigns256 ==
    ASSUME NEW s, NEW t, NEW d, NEW m, NEW f, NEW off \in Nat, off + 32 <= 362,
           NEW v \in U256, Hold(d, m, s, f), FieldSet(t, s, off, 32, v),
           NEW e, NEW n,
           e = Slow!writeState(d, off, 32, BigEndian(32, v)),
           n = Chain!writeState(m, off, 32, v)
    PROVE  Hold(e, n, t, f)
  <1> DEFINE len == 32
  <1>0. len \in 1 .. 32 /\ off + len <= 362
    OBVIOUS
  <1>1. Agrees(v, v, len)
    BY DEF Agrees
  <1>2. v \in [0 .. len - 1 -> Byte]
    BY DEF U256
  <1>3. /\ e = Slow!writeState(d, off, len, BigEndian(len, v))
        /\ n = Chain!writeState(m, off, len, v)
        /\ FieldSet(t, s, off, len, v)
    OBVIOUS
  <1> HIDE DEF len
  <1> QED BY <1>0, <1>1, <1>2, <1>3, Assigns

\* An assignment to one byte.
SetByte(d, off, b) == [d EXCEPT ![off] = b]

\* A field of one byte, which the slow VM assigns as such.
LEMMA AssignsByte ==
    ASSUME NEW s, NEW t, NEW d, NEW m, NEW f, NEW off \in Nat, off <= 361,
           NEW b, NEW w \in U256, w[0] = b, Hold(d, m, s, f), FieldSet(t, s, off, 1, w),
           NEW e, NEW n, e = SetByte(d, off, b), n = Chain!writeState(m, off, 1, w)
    PROVE  Hold(e, n, t, f)
  <1> DEFINE len == 1
  <1>0. len \in 1 .. 32 /\ off + len <= 362 /\ len = 1 /\ len \in Nat
    OBVIOUS
  <1>1. b \in Byte
    BY DEF U256
  <1>2. Agrees(w, w, len)
    BY DEF Agrees
  <1>3. n = Chain!writeState(m, off, len, w) /\ FieldSet(t, s, off, len, w)
    OBVIOUS
  <1> HIDE DEF len
  <1>4. /\ d \in DataBytes /\ Mirrors(d, s) /\ m \in MemBytes /\ Mirrors(m, s)
        /\ \A i \in 362 .. 461 : m[i] = f[i]
    BY DEF Hold
  <1>5. e \in DataBytes /\ \A i \in 0 .. 361 : e[i] = IF i = off THEN b ELSE d[i]
    BY <1>1, <1>4 DEF DataBytes, SetByte
  <1>6. Patched(e, d, off, len, w, 361)
    <2>1. ASSUME NEW i \in 0 .. 361
          PROVE  e[i] = IF i \in off .. off + len - 1 THEN w[off + len - 1 - i] ELSE d[i]
      <3>1. CASE i = off
        <4>1. i \in off .. off + len - 1 /\ off + len - 1 - i = 0
          BY <1>0, <3>1
        <4> QED BY <1>5, <3>1, <4>1
      <3>2. CASE i # off
        <4>1. i \notin off .. off + len - 1
          BY <1>0, <3>2
        <4> QED BY <1>5, <3>2, <4>1
      <3> QED BY <3>1, <3>2
    <2> QED BY <2>1 DEF Patched
  <1>7. n \in MemBytes /\ Patched(n, m, off, len, w, 461)
    BY <1>0, <1>1, <1>3, <1>4, ChainWrite
  <1>8. Mirrors(e, t) /\ Mirrors(n, t)
    <2>1. Patched(n, m, off, len, w, 361)
      BY <1>0, <1>7, PatchedState
    <2> QED BY <1>0, <1>2, <1>3, <1>4, <1>6, <2>1, MirrorsStep
  <1>9. ASSUME NEW i \in 362 .. 461 PROVE n[i] = f[i]
    <2>1. i \in 0 .. 461 /\ i \notin off .. off + len - 1
      BY <1>0
    <2>2. n[i] = m[i]
      BY <1>7, <2>1 DEF Patched
    <2> QED BY <1>4, <2>2
  <1> QED BY <1>5, <1>7, <1>8, <1>9 DEF Hold

\* What a step starts from.
LEMMA Holding ==
    ASSUME StateInv, stepping
    PROVE  VMState(fast) /\ Hold(data, mem, fast, mem)
  BY DEF StateInv, Hold

\* Each assignment keeps what the two slow VMs hold: first the program counter.
LEMMA SetPCStep ==
    ASSUME StateInv, NEW v \in Values, SetPC(v)
    PROVE  VMState(fast') /\ Hold(data', mem', fast', mem)
  <1>1. VMState(fast) /\ Hold(data, mem, fast, mem) /\ v \in U64
    BY Holding, ValuesAssumption DEF SetPC, Write
  <1>2. fast' = [fast EXCEPT !.pc = v]
    BY DEF SetPC
  <1>3. VMState(fast') /\ fast'.pc = v /\ Differs(fast', fast, "pc")
    BY <1>1, <1>2 DEF VMState, Differs, WitnessFields
  <1>4. FieldSet(fast', fast, 72, 8, v)
    BY <1>3, SetsPC
  <1>5. /\ data' = Slow!writeState(data, 72, 8, BigEndian(8, v))
        /\ mem' = Chain!writeState(mem, 72, 8, Chain!Word(v))
    BY SlowOffsets, FieldSizes, SameOrder DEF SetPC, Slow!setPC, Chain!setPC, Chain!stateOffsetPC
  <1> DEFINE off == 72
  <1>6. off \in Nat /\ off + 8 <= 362
    OBVIOUS
  <1>7. /\ FieldSet(fast', fast, off, 8, v)
        /\ data' = Slow!writeState(data, off, 8, BigEndian(8, v))
        /\ mem' = Chain!writeState(mem, off, 8, Chain!Word(v))
    BY <1>4, <1>5
  <1> HIDE DEF off
  <1> QED BY <1>1, <1>3, <1>6, <1>7, Assigns64

\* The step counter.
LEMMA SetStepStep ==
    ASSUME StateInv, NEW v \in Values, SetStep(v)
    PROVE  VMState(fast') /\ Hold(data', mem', fast', mem)
  <1>1. VMState(fast) /\ Hold(data, mem, fast, mem) /\ v \in U64
    BY Holding, ValuesAssumption DEF SetStep, Write
  <1>2. fast' = [fast EXCEPT !.step = v]
    BY DEF SetStep
  <1>3. VMState(fast') /\ fast'.step = v /\ Differs(fast', fast, "step")
    BY <1>1, <1>2 DEF VMState, Differs, WitnessFields
  <1>4. FieldSet(fast', fast, 82, 8, v)
    BY <1>3, SetsStep
  <1>5. /\ data' = Slow!writeState(data, 82, 8, BigEndian(8, v))
        /\ mem' = Chain!writeState(mem, 82, 8, Chain!Word(v))
    BY SlowOffsets, FieldSizes, SameOrder
    DEF SetStep, Slow!setStep, Chain!setStep, Chain!stateOffsetStep
  <1> DEFINE off == 82
  <1>6. off \in Nat /\ off + 8 <= 362
    OBVIOUS
  <1>7. /\ FieldSet(fast', fast, off, 8, v)
        /\ data' = Slow!writeState(data, off, 8, BigEndian(8, v))
        /\ mem' = Chain!writeState(mem, off, 8, Chain!Word(v))
    BY <1>4, <1>5
  <1> HIDE DEF off
  <1> QED BY <1>1, <1>3, <1>6, <1>7, Assigns64

\* The heap.
LEMMA SetHeapStep ==
    ASSUME StateInv, NEW v \in Values, SetHeap(v)
    PROVE  VMState(fast') /\ Hold(data', mem', fast', mem)
  <1>1. VMState(fast) /\ Hold(data, mem, fast, mem) /\ v \in U64
    BY Holding, ValuesAssumption DEF SetHeap, Write
  <1>2. fast' = [fast EXCEPT !.heap = v]
    BY DEF SetHeap
  <1>3. VMState(fast') /\ fast'.heap = v /\ Differs(fast', fast, "heap")
    BY <1>1, <1>2 DEF VMState, Differs, WitnessFields
  <1>4. FieldSet(fast', fast, 90, 8, v)
    BY <1>3, SetsHeap
  <1>5. /\ data' = Slow!writeState(data, 90, 8, BigEndian(8, v))
        /\ mem' = Chain!writeState(mem, 90, 8, Chain!Word(v))
    BY SlowOffsets, FieldSizes, SameOrder
    DEF SetHeap, Slow!setHeap, Chain!setHeap, Chain!stateOffsetHeap
  <1> DEFINE off == 90
  <1>6. off \in Nat /\ off + 8 <= 362
    OBVIOUS
  <1>7. /\ FieldSet(fast', fast, off, 8, v)
        /\ data' = Slow!writeState(data, off, 8, BigEndian(8, v))
        /\ mem' = Chain!writeState(mem, off, 8, Chain!Word(v))
    BY <1>4, <1>5
  <1> HIDE DEF off
  <1> QED BY <1>1, <1>3, <1>6, <1>7, Assigns64

\* The reservation.
LEMMA SetLoadReservationStep ==
    ASSUME StateInv, NEW v \in Values, SetLoadReservation(v)
    PROVE  VMState(fast') /\ Hold(data', mem', fast', mem)
  <1>1. VMState(fast) /\ Hold(data, mem, fast, mem) /\ v \in U64
    BY Holding, ValuesAssumption DEF SetLoadReservation, Write
  <1>2. fast' = [fast EXCEPT !.loadReservation = v]
    BY DEF SetLoadReservation
  <1>3. VMState(fast') /\ fast'.loadReservation = v /\ Differs(fast', fast, "loadReservation")
    BY <1>1, <1>2 DEF VMState, Differs, WitnessFields
  <1>4. FieldSet(fast', fast, 98, 8, v)
    BY <1>3, SetsLoadReservation
  <1>5. /\ data' = Slow!writeState(data, 98, 8, BigEndian(8, v))
        /\ mem' = Chain!writeState(mem, 98, 8, Chain!Word(v))
    BY SlowOffsets, FieldSizes, SameOrder
    DEF SetLoadReservation, Slow!setLoadReservation, Chain!setLoadReservation,
        Chain!stateOffsetLoadReservation
  <1> DEFINE off == 98
  <1>6. off \in Nat /\ off + 8 <= 362
    OBVIOUS
  <1>7. /\ FieldSet(fast', fast, off, 8, v)
        /\ data' = Slow!writeState(data, off, 8, BigEndian(8, v))
        /\ mem' = Chain!writeState(mem, off, 8, Chain!Word(v))
    BY <1>4, <1>5
  <1> HIDE DEF off
  <1> QED BY <1>1, <1>3, <1>6, <1>7, Assigns64

\* The root of memory.
LEMMA WriteMemoryStep ==
    ASSUME StateInv, NEW v \in Hashes, WriteMemory(v)
    PROVE  VMState(fast') /\ Hold(data', mem', fast', mem)
  <1>1. VMState(fast) /\ Hold(data, mem, fast, mem) /\ v \in U256
    BY Holding, ValuesAssumption DEF WriteMemory, Write
  <1>2. fast' = [fast EXCEPT !.memRoot = v]
    BY DEF WriteMemory
  <1>3. VMState(fast') /\ fast'.memRoot = v /\ Differs(fast', fast, "memRoot")
    BY <1>1, <1>2 DEF VMState, Differs, WitnessFields
  <1>4. FieldSet(fast', fast, 0, 32, v)
    BY <1>3, SetsMemRoot
  <1>5. /\ data' = Slow!writeState(data, 0, 32, BigEndian(32, v))
        /\ mem' = Chain!writeState(mem, 0, 32, v)
    BY SlowOffsets, FieldSizes, SameOrder
    DEF WriteMemory, Slow!setMemRoot, Chain!setMemRoot, Chain!stateOffsetMemRoot
  <1> DEFINE off == 0
  <1>6. off \in Nat /\ off + 32 <= 362
    OBVIOUS
  <1>7. /\ FieldSet(fast', fast, off, 32, v)
        /\ data' = Slow!writeState(data, off, 32, BigEndian(32, v))
        /\ mem' = Chain!writeState(mem, off, 32, v)
    BY <1>4, <1>5
  <1> HIDE DEF off
  <1> QED BY <1>1, <1>3, <1>6, <1>7, Assigns256

\* The offset of the preimage, from any memory that holds the state.
LEMMA PreimageOffsetSet ==
    ASSUME NEW s, NEW t, NEW d, NEW m, NEW f, NEW v \in U64, Hold(d, m, s, f),
           Differs(t, s, "preimageOffset"), t.preimageOffset = v, NEW e, NEW n,
           e = Slow!setPreimageOffset(d, v), n = Chain!setPreimageOffset(m, Chain!Word(v))
    PROVE  Hold(e, n, t, f)
  <1>1. FieldSet(t, s, 64, 8, v)
    BY SetsPreimageOffset
  <1>2. /\ e = Slow!writeState(d, 64, 8, BigEndian(8, v))
        /\ n = Chain!writeState(m, 64, 8, Chain!Word(v))
    BY SlowOffsets, FieldSizes, SameOrder
    DEF Slow!setPreimageOffset, Chain!setPreimageOffset, Chain!stateOffsetPreimageOffset
  <1> DEFINE off == 64
  <1>3. off \in Nat /\ off + 8 <= 362
    OBVIOUS
  <1>4. /\ FieldSet(t, s, off, 8, v)
        /\ e = Slow!writeState(d, off, 8, BigEndian(8, v))
        /\ n = Chain!writeState(m, off, 8, Chain!Word(v))
    BY <1>1, <1>2
  <1> HIDE DEF off
  <1> QED BY <1>3, <1>4, Assigns64

\* The key of a pre-image, with which the offset starts again.
LEMMA WritePreimageKeyStep ==
    ASSUME StateInv, NEW v \in Hashes, WritePreimageKey(v)
    PROVE  VMState(fast') /\ Hold(data', mem', fast', mem)
  <1> DEFINE s == [fast EXCEPT !.preimageKey = v]
             d == Slow!setPreimageKey(data, v)
             m == Chain!setPreimageKey(mem, v)
  <1>1. VMState(fast) /\ Hold(data, mem, fast, mem) /\ v \in U256
    BY Holding, ValuesAssumption DEF WritePreimageKey, Write
  <1>2. fast' = [fast EXCEPT !.preimageKey = v, !.preimageOffset = Zero64] /\ Zero64 \in U64
    BY DEF WritePreimageKey, Zero64, FromInt, U64, Byte
  <1>3. s.preimageKey = v /\ Differs(s, fast, "preimageKey")
    BY <1>1 DEF VMState, Differs, WitnessFields
  <1>4. VMState(fast') /\ fast'.preimageOffset = Zero64
    BY <1>1, <1>2 DEF VMState
  <1>5. Differs(fast', s, "preimageOffset")
    BY <1>1, <1>2 DEF VMState, Differs, WitnessFields
  <1> HIDE DEF s
  <1>6. FieldSet(s, fast, 32, 32, v)
    BY <1>3, SetsPreimageKey
  <1>7. /\ d = Slow!writeState(data, 32, 32, BigEndian(32, v))
        /\ m = Chain!writeState(mem, 32, 32, v)
    BY SlowOffsets, FieldSizes, SameOrder
    DEF Slow!setPreimageKey, Chain!setPreimageKey, Chain!stateOffsetPreimageKey
  <1>8. /\ data' = Slow!setPreimageOffset(d, Zero64)
        /\ mem' = Chain!setPreimageOffset(m, Chain!Word(Zero64))
    BY DEF WritePreimageKey
  <1> DEFINE off == 32
  <1>9. off \in Nat /\ off + 32 <= 362
    OBVIOUS
  <1>10. /\ FieldSet(s, fast, off, 32, v)
         /\ d = Slow!writeState(data, off, 32, BigEndian(32, v))
         /\ m = Chain!writeState(mem, off, 32, v)
    BY <1>6, <1>7
  <1> HIDE DEF off, d, m
  <1>11. Hold(d, m, s, mem)
    BY <1>1, <1>9, <1>10, Assigns256
  <1> QED BY <1>2, <1>4, <1>5, <1>8, <1>11, PreimageOffsetSet

\* The call of the oracle leaves the state alone.
LEMMA CallKeepsState ==
    ASSUME NEW d, NEW m, NEW s, Hold(d, m, s, m), NEW key \in U256, NEW at \in U256,
           NEW n, n = Chain!BuildOracleCall(m, key, at)
    PROVE  Hold(d, n, s, n)
  <1> DEFINE w == Chain!shlBytes(28, Chain!selector)
             m1 == Chain!mstore(m, 362, w)
             m2 == Chain!mstore(m1, 366, key)
  <1>1. w \in U256
    BY SMTT(20) DEF Chain!shlBytes, Chain!selector, Chain!Word, U256, Byte
  <1>2. n = Chain!mstore(m2, 398, at)
    BY DEF Chain!BuildOracleCall, Chain!stateSize
  <1> HIDE DEF w
  <1>3. m \in MemBytes /\ Mirrors(m, s) /\ d \in DataBytes /\ Mirrors(d, s)
    BY DEF Hold
  <1>4. m1 \in MemBytes /\ Patched(m1, m, 362, 32, w, 461)
    BY <1>1, <1>3, ChainStore
  <1> HIDE DEF m1
  <1>5. m2 \in MemBytes /\ Patched(m2, m1, 366, 32, key, 461)
    BY <1>4, ChainStore
  <1> HIDE DEF m2
  <1>6. n \in MemBytes /\ Patched(n, m2, 398, 32, at, 461)
    BY <1>2, <1>5, ChainStore
  <1>7. ASSUME NEW i \in 0 .. 361 PROVE n[i] = m[i]
    <2>1. m1[i] = m[i]
      BY <1>4 DEF Patched
    <2>2. m2[i] = m1[i]
      BY <1>5 DEF Patched
    <2>3. n[i] = m2[i]
      BY <1>6 DEF Patched
    <2> QED BY <2>1, <2>2, <2>3
  <1>8. Mirrors(n, s)
    BY <1>3, <1>7 DEF Mirrors
  <1> QED BY <1>3, <1>6, <1>8 DEF Hold

\* The offset, after the call of the oracle is built in the memory on chain.
LEMMA ReadPreimageStep ==
    ASSUME StateInv, NEW v \in Values, ReadPreimage(v)
    PROVE  VMState(fast') /\ \E f : Hold(data', mem', fast', f)
  <1> DEFINE key == Chain!getPreimageKey(mem)
             at == Chain!getPreimageOffset(mem)
             m == Chain!BuildOracleCall(mem, key, at)
  <1>1. VMState(fast) /\ Hold(data, mem, fast, mem) /\ v \in U64
    BY Holding, ValuesAssumption DEF ReadPreimage, Write
  <1>2. fast' = [fast EXCEPT !.preimageOffset = v]
    BY DEF ReadPreimage
  <1>3. VMState(fast') /\ fast'.preimageOffset = v /\ Differs(fast', fast, "preimageOffset")
    BY <1>1, <1>2 DEF VMState, Differs, WitnessFields
  <1>4. mem \in MemBytes
    BY <1>1 DEF Hold
  <1>5. key \in U256
    <2> DEFINE off == 32
               len == 32
    <2>1. off \in 0 .. 361 /\ len \in 1 .. 32
      OBVIOUS
    <2>2. key = Chain!readState(mem, off, len)
      BY FieldSizes DEF Chain!getPreimageKey, Chain!stateOffsetPreimageKey
    <2> HIDE DEF off, len
    <2> QED BY <1>4, <2>1, <2>2, ChainReadType
  <1>6. at \in U256
    <2> DEFINE off == 64
               len == 8
    <2>1. off \in 0 .. 361 /\ len \in 1 .. 32
      OBVIOUS
    <2>2. at = Chain!readState(mem, off, len)
      BY FieldSizes DEF Chain!getPreimageOffset, Chain!stateOffsetPreimageOffset
    <2> HIDE DEF off, len
    <2> QED BY <1>4, <2>1, <2>2, ChainReadType
  <1> HIDE DEF key, at
  <1>7. Hold(data, m, fast, m)
    BY <1>1, <1>5, <1>6, CallKeepsState
  <1>8. /\ data' = Slow!setPreimageOffset(data, v)
        /\ mem' = Chain!setPreimageOffset(m, Chain!Word(v))
    BY DEF ReadPreimage, key, at
  <1> HIDE DEF m
  <1>9. Hold(data', mem', fast', m)
    BY <1>1, <1>3, <1>7, <1>8, PreimageOffsetSet
  <1> QED BY <1>3, <1>9

\* The exit code and the flag.
LEMMA ExitStep ==
    ASSUME StateInv, NEW a0 \in Values, Exit(a0)
    PROVE  VMState(fast') /\ Hold(data', mem', fast', mem)
  <1> DEFINE b == a0[0]
             one == 1
             s == [fast EXCEPT !.exitCode = b]
             d == Slow!setExitCode(data, b)
             m == Chain!setExitCode(mem, Chain!ByteWord(b))
             code == 80
             flag == 81
             w == Chain!ByteWord(b)
             x == Chain!ByteWord(one)
  <1>1. VMState(fast) /\ Hold(data, mem, fast, mem) /\ b \in Byte
    BY Holding, ValuesAssumption DEF Exit, Write, U64
  <1>2. fast' = [fast EXCEPT !.exitCode = b, !.exited = TRUE]
    BY DEF Exit
  <1>3. s.exitCode = b /\ Differs(s, fast, "exitCode")
    BY <1>1 DEF VMState, Differs, WitnessFields
  <1>4. VMState(fast') /\ fast'.exited = TRUE
    BY <1>1, <1>2 DEF VMState
  <1>5. Differs(fast', s, "exited")
    BY <1>1, <1>2 DEF VMState, Differs, WitnessFields
  <1>6. /\ data' = Slow!setExited(d)
        /\ mem' = Chain!setExited(m)
    BY DEF Exit
  <1>7. /\ code \in Nat /\ code <= 361 /\ flag \in Nat /\ flag <= 361
        /\ w \in U256 /\ w[0] = b /\ x \in U256 /\ x[0] = one
    <2>1. one \in Byte
      BY DEF Byte
    <2>2. code \in Nat /\ code <= 361 /\ flag \in Nat /\ flag <= 361
      OBVIOUS
    <2> HIDE DEF one, b, code, flag
    <2> QED BY <1>1, <2>1, <2>2, ByteWordOf
  <1> HIDE DEF b, s
  <1>8. FieldSet(s, fast, code, 1, w) /\ FieldSet(fast', s, flag, 1, x)
    BY <1>3, <1>4, <1>5, SetsExitCode, SetsExited
  <1>9. /\ d = SetByte(data, code, b)
        /\ m = Chain!writeState(mem, code, 1, w)
    BY SlowOffsets, FieldSizes
    DEF Slow!setExitCode, Chain!setExitCode, Chain!stateOffsetExitCode, SetByte
  <1>10. /\ data' = SetByte(d, flag, one)
         /\ mem' = Chain!writeState(m, flag, 1, x)
    BY <1>6, SlowOffsets, FieldSizes
    DEF Slow!setExited, Chain!setExited, Chain!stateOffsetExited, SetByte
  <1> HIDE DEF d, m, one, code, flag, w, x
  <1>11. Hold(d, m, s, mem)
    BY <1>1, <1>7, <1>8, <1>9, AssignsByte
  <1>12. Hold(data', mem', fast', mem)
    BY <1>7, <1>8, <1>10, <1>11, AssignsByte
  <1> QED BY <1>4, <1>12

\* A register, and register zero, which stays.
LEMMA WriteRegisterStep ==
    ASSUME StateInv, NEW v \in Values, NEW reg \in Registers, WriteRegister(reg, v)
    PROVE  VMState(fast') /\ Hold(data', mem', fast', mem)
  <1>1. VMState(fast) /\ Hold(data, mem, fast, mem) /\ v \in U64 /\ reg \in 0 .. 31
    BY Holding, ValuesAssumption, RegistersAssumption DEF WriteRegister, Write
  <1>2. CASE reg = 0
    <2>1. fast' = fast /\ data' = data /\ mem' = mem
      BY <1>2 DEF WriteRegister, SetRegister, Slow!setRegister, Chain!setRegister
    <2> QED BY <1>1, <2>1
  <1>3. CASE reg # 0
    <2> DEFINE off == 106 + reg * 8
    <2>1. fast' = [fast EXCEPT !.registers[reg] = v]
      BY <1>3 DEF WriteRegister, SetRegister
    <2>2. VMState(fast') /\ Differs(fast', fast, "registers")
      BY <1>1, <2>1 DEF VMState, Differs, WitnessFields
    <2>3. \A r \in 0 .. 31 : fast'.registers[r] = IF r = reg THEN v ELSE fast.registers[r]
      BY <1>1, <2>1 DEF VMState
    <2>4. FieldSet(fast', fast, off, 8, v)
      BY <1>1, <2>2, <2>3, SetsRegister
    <2>5. data' = Slow!writeState(data, off, 8, BigEndian(8, v))
      BY <1>3, SlowOffsets, SameOrder DEF WriteRegister, Slow!setRegister, Slow!registerOffset
    <2>6. mem' = Chain!writeState(mem, off, 8, Chain!Word(v))
      BY <1>3 DEF WriteRegister, Chain!setRegister, Chain!registerOffset,
                  Chain!stateOffsetRegisters
    <2>7. off \in Nat /\ off + 8 <= 362
      BY <1>1
    <2> HIDE DEF off
    <2> QED BY <1>1, <2>2, <2>4, <2>5, <2>6, <2>7, Assigns64
  <1> QED BY <1>2, <1>3

\* A hint is in no witness.
LEMMA WriteHintStep ==
    ASSUME StateInv, WriteHint
    PROVE  VMState(fast') /\ Hold(data', mem', fast', mem)
  <1>1. VMState(fast) /\ Hold(data, mem, fast, mem)
    BY Holding DEF WriteHint, Write
  <1>2. /\ fast' = [fast EXCEPT !.lastHint = fast.lastHint \o <<0, 255>>]
        /\ data' = data /\ mem' = mem
    BY DEF WriteHint
  <1>3. VMState(fast') /\ \A f \in WitnessFields : fast'[f] = fast[f]
    BY <1>1, <1>2, ZenonT(60) DEF VMState, WitnessFields
  <1>4. \A i \in 0 .. 361 : WitnessByte(fast', i) = WitnessByte(fast, i)
    BY <1>3 DEF WitnessFields, WitnessByte
  <1> QED BY <1>1, <1>2, <1>3, <1>4, ZenonT(60) DEF Hold, Mirrors

-----------------------------------------------------------------------------
(* The snapshot.                                                           *)

\* A length, written and read.
LEMMA LengthRead ==
    ASSUME NEW n \in Nat, n < 256 * 256 * 256
    PROVE  FromInt(n) \in U64 /\ ToInt(FromInt(n)) = n
  <1> DEFINE v == FromInt(n)
  <1>1. 256 ^ 0 = 1 /\ 256 ^ 1 = 256 /\ 256 ^ 2 = 256 * 256
    BY SMT
  <1>2. /\ v[0] = (n \div 256 ^ 0) % 256 /\ v[1] = (n \div 256 ^ 1) % 256
        /\ v[2] = (n \div 256 ^ 2) % 256
    BY SMT DEF FromInt
  <1>3. /\ v[0] = n % 256 /\ v[1] = (n \div 256) % 256
        /\ v[2] = (n \div (256 * 256)) % 256
    BY <1>1, <1>2, SMT
  <1>4. v \in U64
    <2>1. v = [k \in 0 .. 7 |-> v[k]]
      BY SMT DEF FromInt
    <2>2. ASSUME NEW k \in 0 .. 7 PROVE v[k] \in Byte
      <3>1. k \in {0, 1, 2} => v[k] \in Byte
        BY <1>3, SMT DEF Byte
      <3>2. k > 2 => v[k] = 0
        BY SMT DEF FromInt
      <3> QED BY <3>1, <3>2, SMT DEF Byte
    <2> QED BY <2>1, <2>2 DEF U64
  <1>5. ToInt(v) = v[0] + 256 * v[1] + 256 * 256 * v[2]
    BY SMT DEF ToInt
  <1> HIDE DEF v
  <1>6. ToInt(v) = n
    BY <1>3, <1>5, SMT
  <1> QED BY <1>4, <1>6 DEF v

\* A part of a sequence.
LEMMA Sliced ==
    ASSUME NEW in, NEW len \in Nat, NEW from \in Nat, NEW n \in Nat, SeqOf(in, len),
           from + n <= len
    PROVE  /\ SeqOf(Slice(in, from, n), n)
           /\ \A i \in 1 .. n : Slice(in, from, n)[i] = in[from + i]
  <1>1. PICK S : in \in Seq(S)
    BY DEF SeqOf
  <1>2. Len(in) = len
    BY DEF SeqOf
  <1> DEFINE a == from + 1
             b == from + n
             r == SubSeq(in, a, b)
  <1>3. /\ a \in Int /\ b \in Int /\ b - a + 1 = n
        /\ \A i \in a .. b : in[i] \in S
        /\ \A i \in 1 .. n : a + i - 1 = from + i
    BY <1>1, <1>2
  <1>4. (IF a <= b THEN b - a + 1 ELSE 0) = n
    OBVIOUS
  <1> HIDE DEF a, b
  <1>5. /\ r \in Seq(S)
        /\ Len(r) = IF a <= b THEN b - a + 1 ELSE 0
        /\ \A i \in 1 .. b - a + 1 : r[i] = in[a + i - 1]
    BY <1>3, SubSeqProperties
  <1> HIDE DEF r
  <1>6. r \in Seq(S) /\ Len(r) = n /\ \A i \in 1 .. n : r[i] = in[from + i]
    BY <1>3, <1>4, <1>5
  <1>7. Slice(in, from, n) = r
    BY DEF Slice, r, a, b
  <1> QED BY <1>6, <1>7 DEF SeqOf

\* A number of the snapshot.
LEMMA NumberRead ==
    ASSUME NEW in, NEW len \in Nat, NEW at \in Nat, SeqOf(in, len), at + 8 <= len,
           NEW v \in U64, Holds(in, at + 1, 8, v)
    PROVE  ReadUInt(in, at) = v
  <1> DEFINE b == Slice(in, at, 8)
             r == ReadUInt(in, at)
  <1>1. \A i \in 1 .. 8 : b[i] = in[at + i]
    <2> DEFINE n == 8
    <2>1. n \in Nat /\ at + n <= len
      OBVIOUS
    <2> HIDE DEF n
    <2>2. \A i \in 1 .. n : Slice(in, at, n)[i] = in[at + i]
      BY <2>1, Sliced
    <2> QED BY <2>2 DEF n
  <1>2. r = [k \in 0 .. 7 |-> b[8 - k]]
    BY DEF ReadUInt, FromBigEndian
  <1> HIDE DEF b, r
  <1>3. ASSUME NEW k \in 0 .. 7 PROVE r[k] = v[k]
    <2>1. r[k] = b[8 - k] /\ 8 - k \in 1 .. 8 /\ at + (8 - k) = at + 1 + 8 - 1 - k
      BY <1>2
    <2>2. in[at + 1 + 8 - 1 - k] = v[k]
      BY DEF Holds
    <2> QED BY <1>1, <2>1, <2>2
  <1>4. r = v
    <2>1. r = [k \in 0 .. 7 |-> r[k]]
      BY <1>2
    <2> QED BY <1>3, <2>1 DEF U64
  <1> QED BY <1>4 DEF r

\* What WriteBytes returns.
LEMMA BytesWritten ==
    ASSUME NEW bytes, NEW n \in Nat, SeqOf(bytes, n)
    PROVE  /\ SeqOf(WriteBytes(bytes), 8 + n)
           /\ Joins(WriteBytes(bytes), BigEndian(8, FromInt(n)), 8, bytes, 8 + n)
  <1> DEFINE b == BigEndian(8, FromInt(n))
             k == 8
             m == 8 + n
  <1>1. Len(bytes) = n
    BY DEF SeqOf
  <1>2. WriteBytes(bytes) = b \o bytes
    BY <1>1 DEF WriteBytes
  <1>3. SeqOf(b, k) /\ k \in Nat /\ m \in Nat /\ m = k + n
    BY BigEndianSeq
  <1> HIDE DEF b, k, m
  <1>4. SeqOf(b \o bytes, m) /\ Joins(b \o bytes, b, k, bytes, m)
    BY <1>3, Joined
  <1> QED BY <1>2, <1>4 DEF b, k, m

\* The items of a snapshot, with a hint of h bytes and a witness of w bytes.
SnapshotLayout(in, s, h, w) ==
    /\ SeqOf(in, 348 + h + w)
    /\ in[1] = s.memRoot
    /\ \A k \in 2 .. 331 : in[k] = WitnessByte(s, k + 30)
    /\ \A k \in 332 .. 339 : in[k] = FromInt(h)[339 - k]
    /\ \A k \in 340 .. 339 + h : in[k] = s.lastHint[k - 339]
    /\ \A k \in 340 + h .. 347 + h : in[k] = FromInt(w)[347 + h - k]
    /\ \A k \in 348 + h .. 347 + h + w : in[k] = s.witness[k - (347 + h)]
    /\ in[348 + h + w] = s.stateHash

\* What Serialize returns.
LEMMA SnapshotItems ==
    ASSUME NEW s, NEW h \in Nat, NEW w \in Nat, SeqOf(s.lastHint, h), SeqOf(s.witness, w)
    PROVE  SnapshotLayout(Serialize(s), s, h, w)
  <1> DEFINE root == <<s.memRoot>>
             rest == EncodeFields(s)
             hint == WriteBytes(s.lastHint)
             wit == WriteBytes(s.witness)
             hash == <<s.stateHash>>
             one == 1
             n == 330
             n1 == 331
             nh == 8 + h
             n2 == 339 + h
             nw == 8 + w
             n3 == 347 + h + w
             n4 == 348 + h + w
             bh == BigEndian(8, FromInt(h))
             bw == BigEndian(8, FromInt(w))
             s1 == root \o rest
             s2 == s1 \o hint
             s3 == s2 \o wit
             s4 == s3 \o hash
  <1>1. SeqOf(root, one) /\ root[1] = s.memRoot
    <2>1. root \in Seq({s.memRoot}) /\ Len(root) = 1 /\ root[1] = s.memRoot
      OBVIOUS
    <2> QED BY <2>1 DEF SeqOf
  <1>2. SeqOf(hash, one) /\ hash[1] = s.stateHash
    <2>1. hash \in Seq({s.stateHash}) /\ Len(hash) = 1 /\ hash[1] = s.stateHash
      OBVIOUS
    <2> QED BY <2>1 DEF SeqOf
  <1>3. SeqOf(rest, n) /\ \A at \in 1 .. n : rest[at] = WitnessByte(s, at + 31)
    BY FieldsLayout
  <1>4. SeqOf(hint, nh) /\ Joins(hint, bh, 8, s.lastHint, nh)
    BY BytesWritten
  <1>5. SeqOf(wit, nw) /\ Joins(wit, bw, 8, s.witness, nw)
    BY BytesWritten
  <1>6. \A i \in 1 .. 8 : bh[i] = FromInt(h)[8 - i] /\ bw[i] = FromInt(w)[8 - i]
    BY BigEndianSeq
  <1>7. /\ one = 1 /\ n = 330 /\ n1 = 331 /\ nh = 8 + h /\ n2 = 339 + h /\ nw = 8 + w
        /\ n3 = 347 + h + w /\ n4 = 348 + h + w
        /\ one \in Nat /\ n \in Nat /\ n1 \in Nat /\ nh \in Nat /\ n2 \in Nat /\ nw \in Nat
        /\ n3 \in Nat /\ n4 \in Nat
        /\ n1 = one + n /\ n2 = n1 + nh /\ n3 = n2 + nw /\ n4 = n3 + one
    OBVIOUS
  <1>8. Serialize(s) = s4
    BY DEF Serialize
  <1> HIDE DEF root, rest, hint, wit, hash, one, n, n1, nh, n2, nw, n3, n4, bh, bw
  <1>9. SeqOf(s1, n1) /\ Joins(s1, root, one, rest, n1)
    BY <1>1, <1>3, <1>7, Joined
  <1> HIDE DEF s1
  <1>10. SeqOf(s2, n2) /\ Joins(s2, s1, n1, hint, n2)
    BY <1>4, <1>7, <1>9, Joined
  <1> HIDE DEF s2
  <1>11. SeqOf(s3, n3) /\ Joins(s3, s2, n2, wit, n3)
    BY <1>5, <1>7, <1>10, Joined
  <1> HIDE DEF s3
  <1>12. SeqOf(s4, n4) /\ Joins(s4, s3, n3, hash, n4)
    BY <1>2, <1>7, <1>11, Joined
  <1> HIDE DEF s4
  <1>13. s4[1] = s.memRoot
    BY <1>1, <1>7, <1>9, <1>10, <1>11, <1>12 DEF Joins
  <1>14. ASSUME NEW k \in 2 .. 331 PROVE s4[k] = WitnessByte(s, k + 30)
    <2>1. s4[k] = s1[k]
      BY <1>7, <1>10, <1>11, <1>12 DEF Joins
    <2> DEFINE at == k - 1
    <2>2. at \in 1 .. n /\ at + 31 = k + 30 /\ s1[k] = rest[at]
      BY <1>7, <1>9 DEF Joins
    <2> HIDE DEF at
    <2> QED BY <1>3, <2>1, <2>2
  <1>15. ASSUME NEW j \in 1 .. nh PROVE s4[331 + j] = hint[j]
    <2> DEFINE k == 331 + j
    <2>1. k \in Nat /\ k > n1 /\ k <= n2 /\ k - n1 = j
      BY <1>7
    <2> HIDE DEF k
    <2>2. s4[k] = s2[k]
      BY <1>7, <2>1, <1>11, <1>12 DEF Joins
    <2>3. s2[k] = hint[j]
      BY <1>7, <2>1, <1>10 DEF Joins
    <2> QED BY <2>2, <2>3 DEF k
  <1>16. ASSUME NEW j \in 1 .. nw PROVE s4[339 + h + j] = wit[j]
    <2> DEFINE k == 339 + h + j
    <2>1. k \in Nat /\ k > n2 /\ k <= n3 /\ k - n2 = j
      BY <1>7
    <2> HIDE DEF k
    <2>2. s4[k] = s3[k]
      BY <1>7, <2>1, <1>12 DEF Joins
    <2>3. s3[k] = wit[j]
      BY <1>7, <2>1, <1>11 DEF Joins
    <2> QED BY <2>2, <2>3 DEF k
  <1>17. ASSUME NEW k \in 332 .. 339 PROVE s4[k] = FromInt(h)[339 - k]
    <2> DEFINE j == k - 331
    <2>1. j \in 1 .. 8 /\ j \in 1 .. nh /\ 331 + j = k /\ 8 - j = 339 - k
      BY <1>7
    <2> HIDE DEF j
    <2>2. s4[k] = hint[j]
      BY <1>15, <2>1
    <2>3. hint[j] = bh[j]
      BY <1>4, <1>7, <2>1 DEF Joins
    <2> QED BY <1>6, <2>1, <2>2, <2>3
  <1>18. ASSUME NEW k \in 340 .. 339 + h PROVE s4[k] = s.lastHint[k - 339]
    <2> DEFINE j == k - 331
    <2>1. j \in 9 .. 8 + h /\ j \in 1 .. nh /\ 331 + j = k /\ j - 8 = k - 339
      BY <1>7
    <2> HIDE DEF j
    <2>2. s4[k] = hint[j]
      BY <1>15, <2>1
    <2>3. hint[j] = s.lastHint[j - 8]
      BY <1>4, <1>7, <2>1 DEF Joins
    <2> QED BY <2>1, <2>2, <2>3
  <1>19. ASSUME NEW k \in 340 + h .. 347 + h PROVE s4[k] = FromInt(w)[347 + h - k]
    <2> DEFINE j == k - (339 + h)
    <2>1. j \in 1 .. 8 /\ j \in 1 .. nw /\ 339 + h + j = k /\ 8 - j = 347 + h - k
      BY <1>7
    <2> HIDE DEF j
    <2>2. s4[k] = wit[j]
      BY <1>16, <2>1
    <2>3. wit[j] = bw[j]
      BY <1>5, <1>7, <2>1 DEF Joins
    <2> QED BY <1>6, <2>1, <2>2, <2>3
  <1>20. ASSUME NEW k \in 348 + h .. 347 + h + w PROVE s4[k] = s.witness[k - (347 + h)]
    <2> DEFINE j == k - (339 + h)
    <2>1. j \in 9 .. 8 + w /\ j \in 1 .. nw /\ 339 + h + j = k /\ j - 8 = k - (347 + h)
      BY <1>7
    <2> HIDE DEF j
    <2>2. s4[k] = wit[j]
      BY <1>16, <2>1
    <2>3. wit[j] = s.witness[j - 8]
      BY <1>5, <1>7, <2>1 DEF Joins
    <2> QED BY <2>1, <2>2, <2>3
  <1>21. s4[348 + h + w] = s.stateHash
    <2>1. n4 \in 1 .. n4 /\ ~(n4 <= n3) /\ n4 - n3 = 1
      BY <1>7
    <2>2. s4[n4] = hash[1]
      BY <2>1, <1>12 DEF Joins
    <2> QED BY <2>2, <1>2, <1>7
  <1>22. SnapshotLayout(s4, s, h, w)
    BY <1>7, <1>12, <1>13, <1>14, <1>17, <1>18, <1>19, <1>20, <1>21 DEF SnapshotLayout
  <1> QED BY <1>8, <1>22

\* The first items are the bytes of the witness.
LEMMA SnapshotFields ==
    ASSUME NEW s, VMState(s), NEW h \in Nat, NEW w \in Nat, NEW in,
           SnapshotLayout(in, s, h, w)
    PROVE  /\ FromBigEndian(32, Slice(in, 1, 32)) = s.preimageKey
           /\ ReadUInt(in, 33) = s.preimageOffset /\ ReadUInt(in, 41) = s.pc
           /\ in[50] = s.exitCode /\ (in[51] # 0) = s.exited
           /\ ReadUInt(in, 51) = s.step /\ ReadUInt(in, 59) = s.heap
           /\ ReadUInt(in, 67) = s.loadReservation
           /\ \A r \in 0 .. 31 : ReadUInt(in, 75 + 8 * r) = s.registers[r]
  <1> DEFINE len == 348 + h + w
  <1>1. SeqOf(in, len) /\ len \in Nat /\ len >= 348
    BY DEF SnapshotLayout
  <1>2. ASSUME NEW k \in 2 .. 331 PROVE in[k] = WitnessByte(s, k + 30)
    BY DEF SnapshotLayout
  <1> HIDE DEF len
  <1>3. Holds(in, 34, 8, s.preimageOffset) /\ Holds(in, 42, 8, s.pc)
    <2>1. Holds(in, 34, 8, s.preimageOffset)
      BY <1>2 DEF Holds, WitnessByte
    <2>2. Holds(in, 42, 8, s.pc)
      BY <1>2 DEF Holds, WitnessByte
    <2> QED BY <2>1, <2>2
  <1>4. /\ Holds(in, 52, 8, s.step) /\ Holds(in, 60, 8, s.heap)
        /\ Holds(in, 68, 8, s.loadReservation)
    <2>1. Holds(in, 52, 8, s.step)
      BY <1>2 DEF Holds, WitnessByte
    <2>2. Holds(in, 60, 8, s.heap)
      BY <1>2 DEF Holds, WitnessByte
    <2>3. Holds(in, 68, 8, s.loadReservation)
      BY <1>2 DEF Holds, WitnessByte
    <2> QED BY <2>1, <2>2, <2>3
  <1>5. in[50] = s.exitCode /\ in[51] = Bool(s.exited)
    BY <1>2 DEF WitnessByte
  <1>6. (in[51] # 0) = s.exited
    BY <1>5 DEF Bool, VMState
  <1>7. /\ s.preimageOffset \in U64 /\ s.pc \in U64 /\ s.step \in U64 /\ s.heap \in U64
        /\ s.loadReservation \in U64 /\ s.registers \in [0 .. 31 -> U64]
        /\ s.preimageKey \in U256
    BY DEF VMState
  <1>8. ASSUME NEW at \in 0 .. 331, NEW v \in U64, Holds(in, at + 1, 8, v)
        PROVE  ReadUInt(in, at) = v
    <2>1. at \in Nat /\ at + 8 <= len
      BY <1>1
    <2> QED BY <1>1, <1>8, <2>1, NumberRead
  <1>9. ReadUInt(in, 33) = s.preimageOffset /\ ReadUInt(in, 41) = s.pc
    BY <1>3, <1>7, <1>8
  <1>10. /\ ReadUInt(in, 51) = s.step /\ ReadUInt(in, 59) = s.heap
         /\ ReadUInt(in, 67) = s.loadReservation
    BY <1>4, <1>7, <1>8
  <1>11. ASSUME NEW r \in 0 .. 31 PROVE ReadUInt(in, 75 + 8 * r) = s.registers[r]
    <2> DEFINE at == 75 + 8 * r
    <2>1. at \in 0 .. 331
      OBVIOUS
    <2>2. ASSUME NEW k \in 0 .. 7 PROVE in[at + 1 + 8 - 1 - k] = s.registers[r][k]
      <3> DEFINE i == at + 8 - k
                 j == i + 30
      <3>1. /\ i \in 2 .. 331 /\ j \in Nat /\ j >= 106 /\ i = at + 1 + 8 - 1 - k
            /\ (j - 106) \div 8 = r /\ 7 - ((j - 106) % 8) = k
        OBVIOUS
      <3>2. in[i] = WitnessByte(s, j)
        BY <1>2, <3>1
      <3> HIDE DEF i, j
      <3>3. WitnessByte(s, j) = s.registers[(j - 106) \div 8][7 - ((j - 106) % 8)]
        BY <3>1 DEF WitnessByte
      <3> QED BY <3>1, <3>2, <3>3
    <2>3. Holds(in, at + 1, 8, s.registers[r])
      BY <2>2 DEF Holds
    <2>4. s.registers[r] \in U64
      BY <1>7
    <2> HIDE DEF at
    <2>5. ReadUInt(in, at) = s.registers[r]
      BY <2>1, <2>3, <2>4, <1>8
    <2> QED BY <2>5 DEF at
  <1>12. FromBigEndian(32, Slice(in, 1, 32)) = s.preimageKey
    <2> DEFINE b == Slice(in, 1, 32)
               r == FromBigEndian(32, b)
               n == 32
               one == 1
    <2>1. n \in Nat /\ one \in Nat /\ one + n <= len
      BY <1>1
    <2> HIDE DEF n, one
    <2>2. \A i \in 1 .. n : Slice(in, one, n)[i] = in[one + i]
      BY <1>1, <2>1, Sliced
    <2>3. \A i \in 1 .. 32 : b[i] = in[1 + i]
      BY <2>2 DEF n, one
    <2>4. r = [k \in 0 .. 31 |-> b[32 - k]]
      BY DEF FromBigEndian
    <2> HIDE DEF b, r
    <2>5. ASSUME NEW k \in 0 .. 31 PROVE r[k] = s.preimageKey[k]
      <3> DEFINE i == 33 - k
      <3>1. i \in 2 .. 331 /\ i + 30 = 63 - k /\ i = 1 + (32 - k)
        OBVIOUS
      <3>2. r[k] = in[i]
        BY <2>3, <2>4
      <3>3. in[i] = WitnessByte(s, i + 30)
        BY <1>2, <3>1
      <3> HIDE DEF i
      <3>4. in[i] = WitnessByte(s, 63 - k)
        BY <3>1, <3>3
      <3>5. WitnessByte(s, 63 - k) = s.preimageKey[k]
        BY DEF WitnessByte
      <3> QED BY <3>2, <3>4, <3>5
    <2>6. r = [k \in 0 .. 31 |-> r[k]]
      BY <2>4
    <2>7. r = s.preimageKey
      BY <1>7, <2>5, <2>6 DEF U256
    <2> QED BY <2>7 DEF r, b
  <1> QED BY <1>5, <1>6, <1>9, <1>10, <1>11, <1>12

\* Two sequences with the same items.
LEMMA SameItems ==
    ASSUME NEW a, NEW b, NEW n \in Nat, SeqOf(a, n), SeqOf(b, n),
           \A i \in 1 .. n : a[i] = b[i]
    PROVE  a = b
  <1>1. PICK S : a \in Seq(S)
    BY DEF SeqOf
  <1>2. PICK T : b \in Seq(T)
    BY DEF SeqOf
  <1>3. Len(a) = n /\ Len(b) = n
    BY DEF SeqOf
  <1> QED BY <1>1, <1>2, <1>3, SeqEqual

\* The items of bytes are the n items of in after the first `from`.
Follows(in, from, bytes, n) == \A i \in 1 .. n : in[from + i] = bytes[i]

\* A length that the snapshot holds.
Fits(n) == n < 256 * 256 * 256

\* A sequence of bytes behind its length, as it is read.
LEMMA BytesRead ==
    ASSUME NEW in, NEW len \in Nat, NEW at \in Nat, NEW n \in Nat, NEW bytes,
           SeqOf(in, len), SeqOf(bytes, n), at + 8 + n <= len, Fits(n),
           Holds(in, at + 1, 8, FromInt(n)), Follows(in, at + 8, bytes, n)
    PROVE  ReadBytes(in, at) = bytes /\ SkipBytes(in, at) = at + 8 + n
  <1>1. FromInt(n) \in U64 /\ ToInt(FromInt(n)) = n
    BY LengthRead DEF Fits
  <1>2. ReadUInt(in, at) = FromInt(n)
    <2>1. at + 8 <= len
      OBVIOUS
    <2> QED BY <1>1, <2>1, NumberRead
  <1>3. ToInt(ReadUInt(in, at)) = n
    BY <1>1, <1>2
  <1> DEFINE from == at + 8
             r == Slice(in, from, n)
  <1>4. from \in Nat /\ from + n <= len /\ \A i \in 1 .. n : in[from + i] = bytes[i]
    BY DEF Follows
  <1>5. ReadBytes(in, at) = r /\ SkipBytes(in, at) = at + 8 + n
    BY <1>3 DEF ReadBytes, SkipBytes
  <1> HIDE DEF from
  <1>6. SeqOf(r, n) /\ \A i \in 1 .. n : r[i] = in[from + i]
    BY <1>4, Sliced
  <1> HIDE DEF r
  <1>7. r = bytes
    <2>1. \A i \in 1 .. n : r[i] = bytes[i]
      BY <1>4, <1>6
    <2> QED BY <1>6, <2>1, SameItems
  <1> QED BY <1>5, <1>7

\* A state read from its snapshot is that state.
LEMMA SnapshotKept ==
    ASSUME NEW s, VMState(s), NEW h \in Nat, NEW w \in Nat,
           SeqOf(s.lastHint, h), SeqOf(s.witness, w),
           Fits(h), Fits(w)
    PROVE  Deserialize(Serialize(s)) = s
  <1> DEFINE in == Serialize(s)
             len == 348 + h + w
             hint == 331
             wit == 339 + h
             last == 347 + h + w
  <1>1. SnapshotLayout(in, s, h, w)
    BY SnapshotItems
  <1> HIDE DEF in
  <1>2. /\ SeqOf(in, len)
        /\ len \in Nat /\ hint \in Nat /\ wit \in Nat /\ last \in Nat
        /\ hint + 8 + h <= len /\ wit + 8 + w <= len
        /\ wit = hint + 8 + h /\ last = wit + 8 + w /\ last + 1 = 348 + h + w
    BY <1>1 DEF SnapshotLayout
  <1>3. Holds(in, hint + 1, 8, FromInt(h))
    <2>1. ASSUME NEW k \in 0 .. 7 PROVE in[hint + 1 + 8 - 1 - k] = FromInt(h)[k]
      <3> DEFINE j == 339 - k
      <3>1. j \in 332 .. 339 /\ 339 - j = k /\ j = hint + 1 + 8 - 1 - k
        OBVIOUS
      <3> HIDE DEF j
      <3>2. in[j] = FromInt(h)[339 - j]
        BY <1>1, <3>1 DEF SnapshotLayout
      <3> QED BY <3>1, <3>2
    <2> QED BY <2>1 DEF Holds
  <1>4. Holds(in, wit + 1, 8, FromInt(w))
    <2>1. ASSUME NEW k \in 0 .. 7 PROVE in[wit + 1 + 8 - 1 - k] = FromInt(w)[k]
      <3> DEFINE j == 347 + h - k
      <3>1. j \in 340 + h .. 347 + h /\ 347 + h - j = k /\ j = wit + 1 + 8 - 1 - k
        OBVIOUS
      <3> HIDE DEF j
      <3>2. in[j] = FromInt(w)[347 + h - j]
        BY <1>1, <3>1 DEF SnapshotLayout
      <3> QED BY <3>1, <3>2
    <2> QED BY <2>1 DEF Holds
  <1>5. Follows(in, hint + 8, s.lastHint, h)
    <2>1. ASSUME NEW i \in 1 .. h PROVE in[hint + 8 + i] = s.lastHint[i]
      <3> DEFINE j == 339 + i
      <3>1. j \in 340 .. 339 + h /\ j - 339 = i /\ j = hint + 8 + i
        OBVIOUS
      <3> HIDE DEF j
      <3>2. in[j] = s.lastHint[j - 339]
        BY <1>1, <3>1 DEF SnapshotLayout
      <3> QED BY <3>1, <3>2
    <2> QED BY <2>1 DEF Follows
  <1>6. Follows(in, wit + 8, s.witness, w)
    <2>1. ASSUME NEW i \in 1 .. w PROVE in[wit + 8 + i] = s.witness[i]
      <3> DEFINE j == 347 + h + i
      <3>1. j \in 348 + h .. 347 + h + w /\ j - (347 + h) = i /\ j = wit + 8 + i
        OBVIOUS
      <3> HIDE DEF j
      <3>2. in[j] = s.witness[j - (347 + h)]
        BY <1>1, <3>1 DEF SnapshotLayout
      <3> QED BY <3>1, <3>2
    <2> QED BY <2>1 DEF Follows
  <1>7. /\ in[1] = s.memRoot
        /\ in[last + 1] = s.stateHash
    BY <1>1, <1>2 DEF SnapshotLayout
  <1>8. hint = 1 + 32 + 8 + 8 + 1 + 1 + 8 + 8 + 8 + 8 * 32
    OBVIOUS
  <1> HIDE DEF len, hint, wit, last
  <1>9. ReadBytes(in, hint) = s.lastHint /\ SkipBytes(in, hint) = wit
    BY <1>2, <1>3, <1>5, BytesRead
  <1>10. ReadBytes(in, wit) = s.witness /\ SkipBytes(in, wit) = last
    BY <1>2, <1>4, <1>6, BytesRead
  <1>11. /\ FromBigEndian(32, Slice(in, 1, 32)) = s.preimageKey
         /\ ReadUInt(in, 33) = s.preimageOffset /\ ReadUInt(in, 41) = s.pc
         /\ in[50] = s.exitCode /\ (in[51] # 0) = s.exited
         /\ ReadUInt(in, 51) = s.step /\ ReadUInt(in, 59) = s.heap
         /\ ReadUInt(in, 67) = s.loadReservation
         /\ \A r \in 0 .. 31 : ReadUInt(in, 75 + 8 * r) = s.registers[r]
    BY <1>1, SnapshotFields
  <1> DEFINE regs == [r \in 0 .. 31 |-> ReadUInt(in, 75 + 8 * r)]
  <1>12. regs = s.registers
    BY <1>11 DEF VMState
  <1>13. Deserialize(in) =
           [memRoot |-> in[1],
            preimageKey |-> FromBigEndian(32, Slice(in, 1, 32)),
            preimageOffset |-> ReadUInt(in, 33), pc |-> ReadUInt(in, 41),
            exitCode |-> in[50], exited |-> in[51] # 0,
            step |-> ReadUInt(in, 51), heap |-> ReadUInt(in, 59),
            loadReservation |-> ReadUInt(in, 67), registers |-> regs,
            lastHint |-> ReadBytes(in, hint),
            witness |-> ReadBytes(in, SkipBytes(in, hint)),
            stateHash |-> in[SkipBytes(in, SkipBytes(in, hint)) + 1]]
    BY <1>8 DEF Deserialize
  <1> HIDE DEF regs
  <1>14. Deserialize(in) =
           [memRoot |-> s.memRoot, preimageKey |-> s.preimageKey,
            preimageOffset |-> s.preimageOffset, pc |-> s.pc, exitCode |-> s.exitCode,
            exited |-> s.exited, step |-> s.step, heap |-> s.heap,
            loadReservation |-> s.loadReservation, registers |-> s.registers,
            lastHint |-> s.lastHint, witness |-> s.witness, stateHash |-> s.stateHash]
    BY <1>7, <1>9, <1>10, <1>11, <1>12, <1>13
  <1> QED BY <1>14 DEF VMState, in

-----------------------------------------------------------------------------
(* The buffers of the fast VM, and the snapshot.                           *)

\* The hint has at most the bytes of the writes so far, and the witness is
\* the empty one or one of a state: the snapshot holds the lengths of both.
BufferInv ==
    /\ writes \in 0 .. MaxWrites
    /\ \E h \in Nat : SeqOf(fast.lastHint, h) /\ h <= 2 * writes
    /\ \E w \in {0, 362} : SeqOf(fast.witness, w)

\* BufferInv holds before the first step.
LEMMA InitBuffers == Init => BufferInv
  <1> SUFFICES ASSUME Init PROVE BufferInv
    OBVIOUS
  <1> DEFINE none == <<>>
             z == 0
  <1>1. fast.lastHint = none /\ fast.witness = none /\ writes = z
    BY DEF Init, NewVMState
  <1>2. none \in Seq({0}) /\ Len(none) = z
    OBVIOUS
  <1>3. writes \in 0 .. MaxWrites /\ z <= 2 * writes /\ z \in Nat /\ z \in {0, 362}
    BY <1>1, BoundsAssumption
  <1> HIDE DEF none, z
  <1>4. SeqOf(none, z)
    BY <1>2 DEF SeqOf
  <1> QED BY <1>1, <1>3, <1>4 DEF BufferInv

\* The state between two runs loses nothing.
LEMMA BuffersSnapshot ==
    ASSUME VMState(fast), BufferInv
    PROVE  Deserialize(Serialize(fast)) = fast
  <1>1. PICK h \in Nat : SeqOf(fast.lastHint, h) /\ h <= 2 * writes
    BY DEF BufferInv
  <1>2. PICK w \in {0, 362} : SeqOf(fast.witness, w)
    BY DEF BufferInv
  <1>3. 256 ^ 3 = 256 * 256 * 256
    BY SMT
  <1>4. writes \in 0 .. MaxWrites /\ MaxWrites \in Nat /\ 2 * MaxWrites < 256 ^ 3
    BY BoundsAssumption, SMT DEF BufferInv
  <1>5. Fits(h)
    BY <1>1, <1>3, <1>4, SMT DEF Fits
  <1>6. Fits(w) /\ w \in Nat
    BY <1>2, SMT DEF Fits
  <1> QED BY <1>1, <1>2, <1>5, <1>6, SnapshotKept

\* t has the buffers of s.
SameBuffers(t, s) == t.lastHint = s.lastHint /\ t.witness = s.witness

\* Only a hint, an output and a reload change them.
LEMMA WriteKeepsBuffers ==
    ASSUME VMState(fast), NEW v \in Hashes, WriteMemory(v) \/ WritePreimageKey(v)
    PROVE  SameBuffers(fast', fast)
  BY DEF VMState, WriteMemory, WritePreimageKey, SameBuffers

\* No assignment of a field changes the hint or the witness kept in the state.
LEMMA AssignKeepsBuffers ==
    ASSUME VMState(fast), NEW v \in Values,
           ReadPreimage(v) \/ SetPC(v) \/ Exit(v) \/ SetStep(v) \/ SetHeap(v)
             \/ SetLoadReservation(v)
    PROVE  SameBuffers(fast', fast)
  BY DEF VMState, ReadPreimage, SetPC, Exit, SetStep, SetHeap, SetLoadReservation, SameBuffers

\* Nor does one of a register.
LEMMA RegisterKeepsBuffers ==
    ASSUME VMState(fast), NEW v \in Values, NEW reg \in Registers, WriteRegister(reg, v)
    PROVE  SameBuffers(fast', fast)
  BY DEF VMState, WriteRegister, SetRegister, SameBuffers

\* A write that keeps the buffers keeps their bounds.
LEMMA BuffersKept ==
    ASSUME BufferInv, Write, SameBuffers(fast', fast)
    PROVE  BufferInv'
  <1>1. writes' = writes + 1 /\ writes < MaxWrites /\ writes \in 0 .. MaxWrites
        /\ MaxWrites \in Nat
    BY BoundsAssumption DEF Write, BufferInv
  <1>2. PICK h \in Nat : SeqOf(fast.lastHint, h) /\ h <= 2 * writes
    BY DEF BufferInv
  <1>3. writes' \in 0 .. MaxWrites /\ h <= 2 * writes'
    BY <1>1, <1>2
  <1> QED BY <1>2, <1>3 DEF BufferInv, SameBuffers

\* A hint adds two bytes.
LEMMA HintBuffers ==
    ASSUME VMState(fast), BufferInv, WriteHint
    PROVE  BufferInv'
  <1>1. writes' = writes + 1 /\ writes < MaxWrites /\ writes \in 0 .. MaxWrites
        /\ MaxWrites \in Nat
    BY BoundsAssumption DEF WriteHint, Write, BufferInv
  <1>2. PICK h \in Nat : SeqOf(fast.lastHint, h) /\ h <= 2 * writes
    BY DEF BufferInv
  <1> DEFINE two == <<0, 255>>
             k == 2
             n == h + 2
  <1>3. fast'.lastHint = fast.lastHint \o two /\ fast'.witness = fast.witness
    BY DEF WriteHint, VMState
  <1>4. SeqOf(two, k)
    <2>1. two \in Seq({0, 255}) /\ Len(two) = 2
      OBVIOUS
    <2> QED BY <2>1 DEF SeqOf
  <1>5. k \in Nat /\ n \in Nat /\ n = h + k /\ n <= 2 * writes' /\ writes' \in 0 .. MaxWrites
    BY <1>1, <1>2
  <1> HIDE DEF two, k, n
  <1>6. SeqOf(fast.lastHint \o two, n)
    BY <1>2, <1>4, <1>5, Joined
  <1> QED BY <1>3, <1>5, <1>6 DEF BufferInv

-----------------------------------------------------------------------------
(* The invariant is inductive.                                             *)

\* The fields of s are those of t, whatever the buffers.
LEMMA OutputKeeps ==
    ASSUME VMState(fast), Output
    PROVE  VMState(fast') /\ fast'.lastHint = fast.lastHint /\ SeqOf(fast'.witness, 362)
  <1> DEFINE sw == EncodeWitness(fast)
             hash == StateHash(sw)
  <1>1. SeqOf(sw, 362)
    BY EncodeIsWitness DEF IsWitness
  <1>2. fast' = [fast EXCEPT !.witness = sw, !.stateHash = hash]
    BY DEF Output, SetWitnessAndStateHash
  <1> HIDE DEF sw, hash
  <1>3. VMState(fast') /\ fast'.lastHint = fast.lastHint /\ fast'.witness = sw
    BY <1>2 DEF VMState
  <1> QED BY <1>1, <1>3

\* What a write leads to.
LEMMA WriteStep ==
    ASSUME StateInv, BufferInv, Write, VMState(fast'), NEW f, Hold(data', mem', fast', f),
           SameBuffers(fast', fast)
    PROVE  StateInv' /\ BufferInv'
  <1>1. BufferInv'
    BY BuffersKept
  <1>2. stepping' = stepping /\ stepping
    BY DEF Write
  <1> QED BY <1>1, <1>2 DEF StateInv, Hold

\* Every step keeps the inductive invariant.
LEMMA StateStep == StateInv /\ BufferInv /\ [Next]_vars => StateInv' /\ BufferInv'
  <1> SUFFICES ASSUME StateInv, BufferInv, [Next]_vars PROVE StateInv' /\ BufferInv'
    OBVIOUS
  <1>0. VMState(fast)
    BY DEF StateInv
  <1>1. ASSUME NEW count \in Proofs, BeginStep(count) PROVE StateInv' /\ BufferInv'
    <2>1. /\ fast' = fast /\ writes' = writes /\ stepping' = TRUE
          /\ input' = EncodeStepInput(EncodeWitness(fast), count)
          /\ data' = Slow!LoadState(input') /\ mem' = Chain!LoadState(input')
      BY <1>1 DEF BeginStep, Load
    <2>2. count \in Nat
      BY BoundsAssumption
    <2>3. data' \in DataBytes /\ Mirrors(data', fast) /\ mem' \in MemBytes /\ Mirrors(mem', fast)
      BY <1>0, <2>1, <2>2, Loads
    <2> QED BY <1>0, <2>1, <2>3 DEF StateInv, BufferInv
  <1>2. CASE EndStep
    BY <1>2 DEF EndStep, StateInv, BufferInv
  <1>3. ASSUME NEW v \in Hashes, WriteMemory(v) PROVE StateInv' /\ BufferInv'
    <2>1. Write
      BY <1>3 DEF WriteMemory
    <2>2. SameBuffers(fast', fast)
      BY <1>0, <1>3, WriteKeepsBuffers
    <2>3. VMState(fast') /\ Hold(data', mem', fast', mem)
      BY <1>3, WriteMemoryStep
    <2> QED BY <2>1, <2>2, <2>3, WriteStep
  <1>4. ASSUME NEW v \in Hashes, WritePreimageKey(v) PROVE StateInv' /\ BufferInv'
    <2>1. Write
      BY <1>4 DEF WritePreimageKey
    <2>2. SameBuffers(fast', fast)
      BY <1>0, <1>4, WriteKeepsBuffers
    <2>3. VMState(fast') /\ Hold(data', mem', fast', mem)
      BY <1>4, WritePreimageKeyStep
    <2> QED BY <2>1, <2>2, <2>3, WriteStep
  <1>5. ASSUME NEW v \in Values, ReadPreimage(v) PROVE StateInv' /\ BufferInv'
    <2>1. Write
      BY <1>5 DEF ReadPreimage
    <2>2. SameBuffers(fast', fast)
      BY <1>0, <1>5, AssignKeepsBuffers
    <2>3. VMState(fast')
      BY <1>5, ReadPreimageStep
    <2>4. PICK f : Hold(data', mem', fast', f)
      BY <1>5, ReadPreimageStep
    <2> QED BY <2>1, <2>2, <2>3, <2>4, WriteStep
  <1>6. ASSUME NEW v \in Values, SetPC(v) PROVE StateInv' /\ BufferInv'
    <2>1. Write
      BY <1>6 DEF SetPC
    <2>2. SameBuffers(fast', fast)
      BY <1>0, <1>6, AssignKeepsBuffers
    <2>3. VMState(fast') /\ Hold(data', mem', fast', mem)
      BY <1>6, SetPCStep
    <2> QED BY <2>1, <2>2, <2>3, WriteStep
  <1>7. ASSUME NEW v \in Values, Exit(v) PROVE StateInv' /\ BufferInv'
    <2>1. Write
      BY <1>7 DEF Exit
    <2>2. SameBuffers(fast', fast)
      BY <1>0, <1>7, AssignKeepsBuffers
    <2>3. VMState(fast') /\ Hold(data', mem', fast', mem)
      BY <1>7, ExitStep
    <2> QED BY <2>1, <2>2, <2>3, WriteStep
  <1>8. ASSUME NEW v \in Values, SetStep(v) PROVE StateInv' /\ BufferInv'
    <2>1. Write
      BY <1>8 DEF SetStep
    <2>2. SameBuffers(fast', fast)
      BY <1>0, <1>8, AssignKeepsBuffers
    <2>3. VMState(fast') /\ Hold(data', mem', fast', mem)
      BY <1>8, SetStepStep
    <2> QED BY <2>1, <2>2, <2>3, WriteStep
  <1>9. ASSUME NEW v \in Values, SetHeap(v) PROVE StateInv' /\ BufferInv'
    <2>1. Write
      BY <1>9 DEF SetHeap
    <2>2. SameBuffers(fast', fast)
      BY <1>0, <1>9, AssignKeepsBuffers
    <2>3. VMState(fast') /\ Hold(data', mem', fast', mem)
      BY <1>9, SetHeapStep
    <2> QED BY <2>1, <2>2, <2>3, WriteStep
  <1>10. ASSUME NEW v \in Values, SetLoadReservation(v) PROVE StateInv' /\ BufferInv'
    <2>1. Write
      BY <1>10 DEF SetLoadReservation
    <2>2. SameBuffers(fast', fast)
      BY <1>0, <1>10, AssignKeepsBuffers
    <2>3. VMState(fast') /\ Hold(data', mem', fast', mem)
      BY <1>10, SetLoadReservationStep
    <2> QED BY <2>1, <2>2, <2>3, WriteStep
  <1>11. ASSUME NEW v \in Values, NEW reg \in Registers, WriteRegister(reg, v)
         PROVE  StateInv' /\ BufferInv'
    <2>1. Write
      BY <1>11 DEF WriteRegister
    <2>2. SameBuffers(fast', fast)
      BY <1>0, <1>11, RegisterKeepsBuffers
    <2>3. VMState(fast') /\ Hold(data', mem', fast', mem)
      BY <1>11, WriteRegisterStep
    <2> QED BY <2>1, <2>2, <2>3, WriteStep
  <1>12. CASE WriteHint
    <2>1. VMState(fast') /\ Hold(data', mem', fast', mem)
      BY <1>12, WriteHintStep
    <2>2. stepping' = stepping /\ stepping
      BY <1>12 DEF WriteHint, Write
    <2>3. StateInv'
      BY <2>1, <2>2 DEF StateInv, Hold
    <2>4. BufferInv'
      BY <1>0, <1>12, HintBuffers
    <2> QED BY <2>3, <2>4
  <1>13. CASE Output
    <2>1. VMState(fast') /\ fast'.lastHint = fast.lastHint /\ SeqOf(fast'.witness, 362)
      BY <1>0, <1>13, OutputKeeps
    <2>2. ~stepping' /\ stepping' = stepping /\ writes' = writes
      BY <1>13 DEF Output
    <2>3. StateInv'
      BY <2>1, <2>2 DEF StateInv
    <2>4. BufferInv'
      BY <2>1, <2>2 DEF BufferInv
    <2> QED BY <2>3, <2>4
  <1>14. CASE Reload
    <2>1. fast' = fast
      BY <1>0, <1>14, BuffersSnapshot DEF Reload
    <2>2. UNCHANGED <<data, mem, input, proofs, stepping, writes>>
      BY <1>14 DEF Reload
    <2> QED BY <2>1, <2>2 DEF StateInv, BufferInv
  <1>15. CASE UNCHANGED vars
    BY <1>15 DEF vars, StateInv, BufferInv
  <1> QED BY <1>1, <1>2, <1>3, <1>4, <1>5, <1>6, <1>7, <1>8, <1>9, <1>10, <1>11, <1>12,
             <1>13, <1>14, <1>15 DEF Next

-----------------------------------------------------------------------------
(* What the invariant says of reads and hashes.                            *)

\* A 64-bit field, as both slow VMs read it.
LEMMA Reads64 ==
    ASSUME NEW d, NEW m, NEW off \in Nat, NEW v \in U64,
           Holds(d, off, 8, v), Holds(m, off, 8, v)
    PROVE  /\ Slow!FromBigEndian(8, Slow!readState(d, off, 8)) = v
           /\ Chain!readState(m, off, 8) = Chain!Word(v)
  <1> DEFINE len == 8
             w == Chain!Word(v)
  <1>1. /\ len \in Nat /\ len \in 1 .. 32 /\ v \in [0 .. len - 1 -> Byte]
        /\ Holds(d, off, len, v)
    BY DEF U64
  <1>2. w \in U256 /\ (\A k \in 0 .. 7 : w[k] = v[k]) /\ \A k \in len .. 31 : w[k] = 0
    BY WordOf
  <1> HIDE DEF w
  <1>3. Holds(m, off, len, w)
    BY <1>2 DEF Holds
  <1> HIDE DEF len
  <1>4. FromBigEndian(len, Slow!readState(d, off, len)) = v
    BY <1>1, SlowReads
  <1>5. Chain!readState(m, off, len) = w
    BY <1>1, <1>2, <1>3, ChainReads
  <1> QED BY <1>4, <1>5, SameOrder DEF len, w

\* A word of the state.
LEMMA Reads256 ==
    ASSUME NEW d, NEW m, NEW off \in Nat, NEW v \in U256,
           Holds(d, off, 32, v), Holds(m, off, 32, v)
    PROVE  /\ Slow!FromBigEndian(32, Slow!readState(d, off, 32)) = v
           /\ Chain!readState(m, off, 32) = v
  <1> DEFINE len == 32
  <1>1. /\ len \in Nat /\ len \in 1 .. 32 /\ v \in [0 .. len - 1 -> Byte]
        /\ Holds(d, off, len, v) /\ Holds(m, off, len, v)
        /\ \A k \in len .. 31 : v[k] = 0
    BY DEF U256
  <1> HIDE DEF len
  <1>2. FromBigEndian(len, Slow!readState(d, off, len)) = v
    BY <1>1, SlowReads
  <1>3. Chain!readState(m, off, len) = v
    BY <1>1, ChainReads
  <1> QED BY <1>2, <1>3, SameOrder DEF len

\* A byte, on chain.
LEMMA ReadsByte ==
    ASSUME NEW m, NEW off \in Nat, NEW b \in Byte, m[off] = b
    PROVE  Chain!readState(m, off, 1) = Chain!ByteWord(b)
  <1> DEFINE len == 1
             w == Chain!ByteWord(b)
  <1>1. w \in U256 /\ w[0] = b /\ \A k \in len .. 31 : w[k] = 0
    BY ByteWordOf
  <1> HIDE DEF w
  <1>2. Holds(m, off, len, w)
    BY <1>1 DEF Holds
  <1>3. len \in 1 .. 32
    OBVIOUS
  <1> HIDE DEF len
  <1>4. Chain!readState(m, off, len) = w
    BY <1>1, <1>2, <1>3, ChainReads
  <1> QED BY <1>4 DEF len, w

\* Every getter, of VMs that hold the witness of s.
GettersRead(d, m, s) ==
    /\ Slow!getMemRoot(d) = s.memRoot
    /\ Chain!getMemRoot(m) = s.memRoot
    /\ Slow!getPreimageKey(d) = s.preimageKey
    /\ Chain!getPreimageKey(m) = s.preimageKey
    /\ Slow!getPreimageOffset(d) = s.preimageOffset
    /\ Chain!getPreimageOffset(m) = Chain!Word(s.preimageOffset)
    /\ Slow!getPC(d) = s.pc
    /\ Chain!getPC(m) = Chain!Word(s.pc)
    /\ Slow!getExited(d) = s.exited
    /\ Chain!getExited(m) = Chain!ByteWord(Bool(s.exited))
    /\ Slow!getExitCode(d) = s.exitCode
    /\ Chain!getExitCode(m) = Chain!ByteWord(s.exitCode)
    /\ Slow!getStep(d) = s.step
    /\ Chain!getStep(m) = Chain!Word(s.step)
    /\ Slow!getHeap(d) = s.heap
    /\ Chain!getHeap(m) = Chain!Word(s.heap)
    /\ Slow!getLoadReservation(d) = s.loadReservation
    /\ Chain!getLoadReservation(m) = Chain!Word(s.loadReservation)
    /\ \A reg \in 0 .. 31 :
          /\ Slow!getRegister(d, reg) = s.registers[reg]
          /\ Chain!getRegister(m, reg) = Chain!Word(s.registers[reg])

\* The getters of both slow VMs read the fields of the state they mirror.
LEMMA Getters ==
    ASSUME NEW d, NEW m, NEW s, VMState(s), Mirrors(d, s), Mirrors(m, s)
    PROVE  GettersRead(d, m, s)
  <1>1. /\ s.memRoot \in U256 /\ s.preimageKey \in U256 /\ s.preimageOffset \in U64
        /\ s.pc \in U64 /\ s.exitCode \in Byte /\ s.exited \in BOOLEAN /\ s.step \in U64
        /\ s.heap \in U64 /\ s.loadReservation \in U64 /\ s.registers \in [0 .. 31 -> U64]
    BY DEF VMState
  <1> DEFINE a == 0
             b == 32
             c == 64
             p == 72
             x == 80
             y == 81
             t == 82
             e == 90
             l == 98
  <1>2. /\ a \in Nat /\ b \in Nat /\ c \in Nat /\ p \in Nat /\ x \in Nat /\ y \in Nat
        /\ t \in Nat /\ e \in Nat /\ l \in Nat
    OBVIOUS
  <1>3. /\ Holds(d, a, 32, s.memRoot) /\ Holds(d, b, 32, s.preimageKey)
        /\ Holds(d, c, 8, s.preimageOffset) /\ Holds(d, p, 8, s.pc)
        /\ d[x] = s.exitCode /\ d[y] = Bool(s.exited)
        /\ Holds(d, t, 8, s.step) /\ Holds(d, e, 8, s.heap)
        /\ Holds(d, l, 8, s.loadReservation)
    BY FieldsHeld
  <1>4. /\ Holds(m, a, 32, s.memRoot) /\ Holds(m, b, 32, s.preimageKey)
        /\ Holds(m, c, 8, s.preimageOffset) /\ Holds(m, p, 8, s.pc)
        /\ m[x] = s.exitCode /\ m[y] = Bool(s.exited)
        /\ Holds(m, t, 8, s.step) /\ Holds(m, e, 8, s.heap)
        /\ Holds(m, l, 8, s.loadReservation)
    BY FieldsHeld
  <1>5. Bool(s.exited) \in Byte
    BY <1>1 DEF Bool, Byte
  <1>6. /\ a = Slow!stateOffsetMemRoot /\ b = Slow!stateOffsetPreimageKey
        /\ c = Slow!stateOffsetPreimageOffset /\ p = Slow!stateOffsetPC
        /\ x = Slow!stateOffsetExitCode /\ y = Slow!stateOffsetExited
        /\ t = Slow!stateOffsetStep /\ e = Slow!stateOffsetHeap
        /\ l = Slow!stateOffsetLoadReservation
    BY SlowOffsets
  <1>7. /\ a = Chain!stateOffsetMemRoot /\ b = Chain!stateOffsetPreimageKey
        /\ c = Chain!stateOffsetPreimageOffset /\ p = Chain!stateOffsetPC
        /\ x = Chain!stateOffsetExitCode /\ y = Chain!stateOffsetExited
        /\ t = Chain!stateOffsetStep /\ e = Chain!stateOffsetHeap
        /\ l = Chain!stateOffsetLoadReservation
    BY DEF Chain!stateOffsetMemRoot, Chain!stateOffsetPreimageKey,
           Chain!stateOffsetPreimageOffset, Chain!stateOffsetPC, Chain!stateOffsetExitCode,
           Chain!stateOffsetExited, Chain!stateOffsetStep, Chain!stateOffsetHeap,
           Chain!stateOffsetLoadReservation
  <1> HIDE DEF a, b, c, p, x, y, t, e, l
  <1>8. Slow!getMemRoot(d) = s.memRoot /\ Chain!getMemRoot(m) = s.memRoot
    <2>0. /\ a \in Nat /\ s.memRoot \in U256
          /\ Holds(d, a, 32, s.memRoot) /\ Holds(m, a, 32, s.memRoot)
      BY <1>1, <1>2, <1>3, <1>4
    <2>1. /\ Slow!FromBigEndian(32, Slow!readState(d, a, 32)) = s.memRoot
          /\ Chain!readState(m, a, 32) = s.memRoot
      BY <2>0, Reads256
    <2> QED BY <2>1, <1>6, <1>7, FieldSizes DEF Slow!getMemRoot, Chain!getMemRoot
  <1>9. Slow!getPreimageKey(d) = s.preimageKey /\ Chain!getPreimageKey(m) = s.preimageKey
    <2>0. /\ b \in Nat /\ s.preimageKey \in U256
          /\ Holds(d, b, 32, s.preimageKey) /\ Holds(m, b, 32, s.preimageKey)
      BY <1>1, <1>2, <1>3, <1>4
    <2>1. /\ Slow!FromBigEndian(32, Slow!readState(d, b, 32)) = s.preimageKey
          /\ Chain!readState(m, b, 32) = s.preimageKey
      BY <2>0, Reads256
    <2> QED BY <2>1, <1>6, <1>7, FieldSizes DEF Slow!getPreimageKey, Chain!getPreimageKey
  <1>10. /\ Slow!getPreimageOffset(d) = s.preimageOffset
         /\ Chain!getPreimageOffset(m) = Chain!Word(s.preimageOffset)
    <2>0. /\ c \in Nat /\ s.preimageOffset \in U64
          /\ Holds(d, c, 8, s.preimageOffset) /\ Holds(m, c, 8, s.preimageOffset)
      BY <1>1, <1>2, <1>3, <1>4
    <2>1. /\ Slow!FromBigEndian(8, Slow!readState(d, c, 8)) = s.preimageOffset
          /\ Chain!readState(m, c, 8) = Chain!Word(s.preimageOffset)
      BY <2>0, Reads64
    <2> QED BY <2>1, <1>6, <1>7, FieldSizes DEF Slow!getPreimageOffset, Chain!getPreimageOffset
  <1>11. Slow!getPC(d) = s.pc /\ Chain!getPC(m) = Chain!Word(s.pc)
    <2>0. /\ p \in Nat /\ s.pc \in U64
          /\ Holds(d, p, 8, s.pc) /\ Holds(m, p, 8, s.pc)
      BY <1>1, <1>2, <1>3, <1>4
    <2>1. /\ Slow!FromBigEndian(8, Slow!readState(d, p, 8)) = s.pc
          /\ Chain!readState(m, p, 8) = Chain!Word(s.pc)
      BY <2>0, Reads64
    <2> QED BY <2>1, <1>6, <1>7, FieldSizes DEF Slow!getPC, Chain!getPC
  <1>12. Slow!getExited(d) = s.exited /\ Chain!getExited(m) = Chain!ByteWord(Bool(s.exited))
    <2>1. Chain!readState(m, y, 1) = Chain!ByteWord(Bool(s.exited))
      BY <1>2, <1>4, <1>5, ReadsByte
    <2>2. (Bool(s.exited) # 0) = s.exited
      BY <1>1 DEF Bool
    <2>3. Chain!getExited(m) = Chain!ByteWord(Bool(s.exited))
      BY <2>1, <1>7, FieldSizes DEF Chain!getExited
    <2>4. Slow!getExited(d) = s.exited
      BY <2>2, <1>3, <1>6 DEF Slow!getExited
    <2> QED BY <2>3, <2>4
  <1>13. Slow!getExitCode(d) = s.exitCode /\ Chain!getExitCode(m) = Chain!ByteWord(s.exitCode)
    <2>1. Chain!readState(m, x, 1) = Chain!ByteWord(s.exitCode)
      BY <1>1, <1>2, <1>4, ReadsByte
    <2> QED BY <2>1, <1>3, <1>6, <1>7, FieldSizes DEF Slow!getExitCode, Chain!getExitCode
  <1>14. Slow!getStep(d) = s.step /\ Chain!getStep(m) = Chain!Word(s.step)
    <2>0. /\ t \in Nat /\ s.step \in U64
          /\ Holds(d, t, 8, s.step) /\ Holds(m, t, 8, s.step)
      BY <1>1, <1>2, <1>3, <1>4
    <2>1. /\ Slow!FromBigEndian(8, Slow!readState(d, t, 8)) = s.step
          /\ Chain!readState(m, t, 8) = Chain!Word(s.step)
      BY <2>0, Reads64
    <2> QED BY <2>1, <1>6, <1>7, FieldSizes DEF Slow!getStep, Chain!getStep
  <1>15. Slow!getHeap(d) = s.heap /\ Chain!getHeap(m) = Chain!Word(s.heap)
    <2>0. /\ e \in Nat /\ s.heap \in U64
          /\ Holds(d, e, 8, s.heap) /\ Holds(m, e, 8, s.heap)
      BY <1>1, <1>2, <1>3, <1>4
    <2>1. /\ Slow!FromBigEndian(8, Slow!readState(d, e, 8)) = s.heap
          /\ Chain!readState(m, e, 8) = Chain!Word(s.heap)
      BY <2>0, Reads64
    <2> QED BY <2>1, <1>6, <1>7, FieldSizes DEF Slow!getHeap, Chain!getHeap
  <1>16. /\ Slow!getLoadReservation(d) = s.loadReservation
         /\ Chain!getLoadReservation(m) = Chain!Word(s.loadReservation)
    <2>0. /\ l \in Nat /\ s.loadReservation \in U64
          /\ Holds(d, l, 8, s.loadReservation) /\ Holds(m, l, 8, s.loadReservation)
      BY <1>1, <1>2, <1>3, <1>4
    <2>1. /\ Slow!FromBigEndian(8, Slow!readState(d, l, 8)) = s.loadReservation
          /\ Chain!readState(m, l, 8) = Chain!Word(s.loadReservation)
      BY <2>0, Reads64
    <2> QED BY <2>1, <1>6, <1>7, FieldSizes
        DEF Slow!getLoadReservation, Chain!getLoadReservation
  <1>17. ASSUME NEW reg \in 0 .. 31
         PROVE  /\ Slow!getRegister(d, reg) = s.registers[reg]
                /\ Chain!getRegister(m, reg) = Chain!Word(s.registers[reg])
    <2> DEFINE off == 106 + reg * 8
    <2>1. /\ Holds(d, off, 8, s.registers[reg]) /\ Holds(m, off, 8, s.registers[reg])
          /\ off \in Nat /\ s.registers[reg] \in U64
      BY <1>1, FieldsHeld
    <2>2. Slow!registerOffset(reg) = off /\ Chain!registerOffset(reg) = off
      BY SlowOffsets DEF Slow!registerOffset, Chain!registerOffset, Chain!stateOffsetRegisters
    <2> HIDE DEF off
    <2>3. /\ Slow!FromBigEndian(8, Slow!readState(d, off, 8)) = s.registers[reg]
          /\ Chain!readState(m, off, 8) = Chain!Word(s.registers[reg])
      BY <2>1, Reads64
    <2> QED BY <2>2, <2>3 DEF Slow!getRegister, Chain!getRegister
  <1> QED BY <1>8, <1>9, <1>10, <1>11, <1>12, <1>13, <1>14, <1>15, <1>16, <1>17
          DEF GettersRead

\* The bytes that the slow VMs hash are the witness.
LEMMA HashedBytes ==
    ASSUME NEW d, NEW s, VMState(s), Mirrors(d, s), NEW b,
           b = [i \in 1 .. 362 |-> d[i - 1]]
    PROVE  b = EncodeWitness(s)
  <1> DEFINE n == 362
             sw == EncodeWitness(s)
  <1>1. n \in Nat /\ DOMAIN b = 1 .. n /\ b = [i \in 1 .. n |-> b[i]]
    OBVIOUS
  <1>2. ASSUME NEW i \in 1 .. n PROVE b[i] = sw[i]
    <2> DEFINE k == i - 1
    <2>1. k \in 0 .. 361 /\ k + 1 = i /\ b[i] = d[k]
      OBVIOUS
    <2> HIDE DEF k, n, sw
    <2>2. d[k] = WitnessByte(s, k)
      BY <2>1 DEF Mirrors
    <2>3. IsWitness(sw, s)
      BY EncodeIsWitness DEF sw
    <2>4. sw[k + 1] = WitnessByte(s, k)
      BY <2>1, <2>3 DEF IsWitness
    <2> QED BY <2>1, <2>2, <2>4
  <1>3. SeqOf(sw, n)
    BY EncodeIsWitness DEF IsWitness
  <1> HIDE DEF n, sw
  <1>4. SeqOf(b, n)
    BY <1>1, FunSeq
  <1>5. b = sw
    BY <1>1, <1>2, <1>3, <1>4, SameItems
  <1> QED BY <1>5 DEF sw

\* The three hashes of a state.
LEMMA Hashed ==
    ASSUME NEW d, NEW m, NEW s, VMState(s), Mirrors(d, s), Mirrors(m, s)
    PROVE  /\ StateHash(EncodeWitness(s)) =
                [first |-> vmStatus(s.exited, s.exitCode), of |-> EncodeWitness(s)]
           /\ Slow!computeStateHash(d) = StateHash(EncodeWitness(s))
           /\ Chain!computeStateHash(m) = StateHash(EncodeWitness(s))
  <1> DEFINE sw == EncodeWitness(s)
             st == vmStatus(s.exited, s.exitCode)
  <1>1. s.exited \in BOOLEAN /\ s.exitCode \in Byte
    BY DEF VMState
  <1>2. IsWitness(sw, s)
    BY EncodeIsWitness
  <1>3. Slow!readState(d, 0, 362) = sw /\ [i \in 1 .. 362 |-> m[i - 1]] = sw
    <2> DEFINE b == Slow!readState(d, 0, 362)
               c == [i \in 1 .. 362 |-> m[i - 1]]
    <2>1. b = [i \in 1 .. 362 |-> d[i - 1]]
      BY DEF Slow!readState
    <2>2. c = [i \in 1 .. 362 |-> m[i - 1]]
      OBVIOUS
    <2> HIDE DEF b, c
    <2>3. b = sw
      BY <2>1, HashedBytes, ZenonT(60)
    <2>4. c = sw
      BY <2>2, HashedBytes, ZenonT(60)
    <2> QED BY <2>3, <2>4 DEF b, c
  <1>4. GettersRead(d, m, s)
    BY Getters
  <1> HIDE DEF sw
  <1>5. sw[81] = s.exitCode /\ sw[82] = Bool(s.exited) /\ Len(sw) = 362
    <2>1. sw[80 + 1] = WitnessByte(s, 80) /\ sw[81 + 1] = WitnessByte(s, 81)
      BY <1>2 DEF IsWitness
    <2>2. WitnessByte(s, 80) = s.exitCode /\ WitnessByte(s, 81) = Bool(s.exited)
      BY DEF WitnessByte
    <2>3. Len(sw) = 362
      BY <1>2 DEF IsWitness, SeqOf
    <2> QED BY <2>1, <2>2, <2>3
  <1>6. (Bool(s.exited) = 1) = s.exited
    BY <1>1 DEF Bool
  <1>7. StateHash(sw) = [first |-> st, of |-> sw]
    BY <1>5, <1>6 DEF StateHash, STATE_WITNESS_SIZE, EXITCODE_WITNESS_OFFSET
  <1>8. Slow!vmStatus(d) = st
    BY <1>1, <1>4 DEF GettersRead, Slow!vmStatus, vmStatus, VMStatusValid, VMStatusInvalid,
                      VMStatusPanic, VMStatusUnfinished
  <1>9. /\ (Chain!getExited(m) = Chain!ByteWord(1)) = s.exited
        /\ (Chain!getExitCode(m) = Chain!ByteWord(0)) = (s.exitCode = 0)
        /\ (Chain!getExitCode(m) = Chain!ByteWord(1)) = (s.exitCode = 1)
    <2>1. \A b, c \in Byte : Chain!ByteWord(b) = Chain!ByteWord(c) => b = c
      <3> SUFFICES ASSUME NEW b \in Byte, NEW c \in Byte, Chain!ByteWord(b) = Chain!ByteWord(c)
                   PROVE  b = c
        OBVIOUS
      <3>1. Chain!ByteWord(b)[0] = b /\ Chain!ByteWord(c)[0] = c
        BY ByteWordOf
      <3> QED BY <3>1
    <2>2. Bool(s.exited) \in Byte /\ 0 \in Byte /\ 1 \in Byte
      BY <1>1 DEF Bool, Byte
    <2> QED BY <1>1, <1>4, <1>6, <2>1, <2>2 DEF GettersRead
  <1>10. Chain!vmStatus(m) = st
    BY <1>1, <1>9 DEF Chain!vmStatus, vmStatus, VMStatusValid, VMStatusInvalid,
                      VMStatusPanic, VMStatusUnfinished
  <1>11. Slow!computeStateHash(d) = [first |-> st, of |-> sw]
    BY <1>3, <1>8, SlowOffsets DEF Slow!computeStateHash
  <1>12. Chain!computeStateHash(m) = [first |-> st, of |-> sw]
    BY <1>3, <1>10 DEF Chain!computeStateHash, Chain!stateSize
  <1> QED BY <1>7, <1>11, <1>12 DEF sw

-----------------------------------------------------------------------------
(* The properties.                                                         *)

\* The invariant holds in every state.
LEMMA Invariant == Spec => [](StateInv /\ BufferInv)
  <1>1. Init => StateInv /\ BufferInv
    BY InitState, InitBuffers
  <1>2. (StateInv /\ BufferInv) /\ [Next]_vars => (StateInv /\ BufferInv)'
    BY StateStep
  <1> QED BY <1>1, <1>2, PTL DEF Spec

\* In every reachable state of a step the fast VM's hash of its encoding is the
\* one the slow VM computes over stateData and the one the on-chain VM computes
\* over EVM memory, and its first byte is the status a dispute game decides by:
\* for every set of values, words and registers that steps assign.
THEOREM HashesAlwaysAgree == Spec => []HashesAgree
  <1>1. StateInv => HashesAgree
    <2> SUFFICES ASSUME StateInv, stepping
                 PROVE  LET hash == StateHash(EncodeWitness(fast))
                        IN  /\ Slow!computeStateHash(data) = hash
                            /\ Chain!computeStateHash(mem) = hash
                            /\ hash.first = VMStatusUnfinished <=> ~fast.exited
                            /\ hash.first = VMStatusValid <=> (fast.exited /\ fast.exitCode = 0)
                            /\ hash.first = VMStatusInvalid
                                 <=> (fast.exited /\ fast.exitCode = 1)
      BY DEF HashesAgree
    <2> DEFINE hash == StateHash(EncodeWitness(fast))
    <2>1. /\ hash = [first |-> vmStatus(fast.exited, fast.exitCode),
                     of |-> EncodeWitness(fast)]
          /\ Slow!computeStateHash(data) = hash
          /\ Chain!computeStateHash(mem) = hash
      BY Hashed DEF StateInv
    <2>2. hash.first = vmStatus(fast.exited, fast.exitCode)
      BY <2>1
    <2>3. fast.exited \in BOOLEAN /\ fast.exitCode \in Byte
      BY DEF StateInv, VMState
    <2> HIDE DEF hash
    <2>4. /\ hash.first = VMStatusUnfinished <=> ~fast.exited
          /\ hash.first = VMStatusValid <=> (fast.exited /\ fast.exitCode = 0)
          /\ hash.first = VMStatusInvalid <=> (fast.exited /\ fast.exitCode = 1)
      BY <2>2, <2>3 DEF vmStatus, VMStatusValid, VMStatusInvalid, VMStatusPanic,
                        VMStatusUnfinished
    <2> QED BY <2>1, <2>4 DEF hash
  <1> QED BY <1>1, Invariant, PTL

\* Every getter of both slow VMs returns the field of the fast VM in every
\* reachable state of a step, whatever was assigned before and in which order.
THEOREM FieldsAlwaysRead == Spec => []FieldsRead
  <1>1. StateInv => FieldsRead
    <2> SUFFICES ASSUME StateInv PROVE FieldsRead
      OBVIOUS
    <2>1. stepping => GettersRead(data, mem, fast)
      BY Getters DEF StateInv
    <2> QED BY <2>1 DEF FieldsRead, GettersRead
  <1> QED BY <1>1, Invariant, PTL

\* The calldata of any step, with the one to four proofs a step needs, is accepted by both slow
\* VMs, and both find every proof node where the encoder put it.
THEOREM InputAlwaysServes == Spec => []InputServesBoth
  <1>1. ASSUME NEW s, VMState(s), NEW count \in Nat, NEW in,
               in = EncodeStepInput(EncodeWitness(s), count)
        PROVE  /\ Slow!AcceptsInput(in)
               /\ Chain!AcceptsInput(in)
               /\ \A p \in 0 .. count - 1, n \in 0 .. 59 :
                     /\ Slow!ProofNode(in, p, n) = Node(p, n)
                     /\ Chain!ProofNode(in, p, n) = Node(p, n)
    <2> DEFINE sw == EncodeWitness(s)
    <2>1. Len(sw) = 362 /\ in = EncodeStepInput(sw, count)
      BY <1>1, WitnessLayout
    <2> HIDE DEF sw
    <2>2. InputLayout(in, sw, count)
      BY <2>1, InputWords
    <2> QED BY <2>2, InputAccepted
  <1>2. Init => InputServesBoth
    <2> SUFFICES ASSUME Init PROVE InputServesBoth
      OBVIOUS
    <2>1. VMState(fast) /\ proofs \in Nat /\ input = EncodeStepInput(EncodeWitness(fast), proofs)
      BY NewVMStateType DEF Init
    <2> QED BY <2>1, <1>1 DEF InputServesBoth
  <1>3. StateInv /\ InputServesBoth /\ [Next]_vars => InputServesBoth'
    <2> SUFFICES ASSUME StateInv, InputServesBoth, [Next]_vars PROVE InputServesBoth'
      OBVIOUS
    <2>1. ASSUME NEW count \in Proofs, BeginStep(count) PROVE InputServesBoth'
      <3>1. /\ VMState(fast) /\ count \in Nat /\ proofs' = count
            /\ input' = EncodeStepInput(EncodeWitness(fast), count)
        BY <2>1, BoundsAssumption DEF BeginStep, StateInv
      <3> QED BY <3>1, <1>1 DEF InputServesBoth
    <2>2. CASE UNCHANGED <<input, proofs>>
      BY <2>2 DEF InputServesBoth
    <2>3. (\E count \in Proofs : BeginStep(count)) \/ UNCHANGED <<input, proofs>>
      BY DEF Next, EndStep, WriteMemory, WritePreimageKey, ReadPreimage, SetPC, Exit, SetStep,
             SetHeap, SetLoadReservation, WriteRegister, WriteHint, Write, Output, Reload, vars
    <2> QED BY <2>1, <2>2, <2>3
  <1> QED BY <1>2, <1>3, Invariant, PTL DEF Spec

\* Reading a snapshot back gives the state that was written, in every reachable
\* state: with an incomplete hint of any length and with a witness or without. (The
\* lengths in the file have to fit into the bytes FromInt gives: BoundsAssumption.)
THEOREM SnapshotAlwaysLossless == Spec => []SnapshotLossless
  <1>1. StateInv /\ BufferInv => SnapshotLossless
    BY BuffersSnapshot DEF StateInv, SnapshotLossless
  <1> QED BY <1>1, Invariant, PTL

\* No assignment on chain changes the memory behind the state; only the call of
\* the pre-image oracle, which is built there, does.
THEOREM FreeMemoryAlwaysKept == Spec => FreeMemoryKept
  <1> DEFINE Kept == \A i \in Chain!FreeBytes : mem'[i] = mem[i]
             Reads == \E v \in Values : ReadPreimage(v)
  <1>1. ASSUME NEW f, Hold(data', mem', f, mem) PROVE Kept
    BY <1>1 DEF Hold, Chain!FreeBytes, Chain!stateSize, Chain!FreeSize
  <1>2. StateInv /\ [Next]_vars => ((stepping /\ stepping') => Kept \/ Reads)
    <2> SUFFICES ASSUME StateInv, [Next]_vars, stepping, stepping' PROVE Kept \/ Reads
      OBVIOUS
    <2>1. ASSUME NEW v \in Hashes, WriteMemory(v) \/ WritePreimageKey(v) PROVE Kept
      BY <1>1, <2>1, WriteMemoryStep, WritePreimageKeyStep
    <2>2. ASSUME NEW v \in Values, SetPC(v) \/ Exit(v) PROVE Kept
      BY <1>1, <2>2, SetPCStep, ExitStep
    <2>3. ASSUME NEW v \in Values, SetStep(v) \/ SetHeap(v) PROVE Kept
      BY <1>1, <2>3, SetStepStep, SetHeapStep
    <2>4. ASSUME NEW v \in Values, SetLoadReservation(v) PROVE Kept
      BY <1>1, <2>4, SetLoadReservationStep
    <2>5. ASSUME NEW v \in Values, NEW reg \in Registers, WriteRegister(reg, v) PROVE Kept
      BY <1>1, <2>5, WriteRegisterStep
    <2>6. CASE UNCHANGED mem
      BY <2>6
    <2>7. /\ WriteHint => UNCHANGED mem
          /\ UNCHANGED vars => UNCHANGED mem
          /\ ~EndStep /\ ~Output /\ ~Reload /\ \A count \in Proofs : ~BeginStep(count)
      BY DEF WriteHint, vars, EndStep, Output, Reload, BeginStep
    <2> QED BY <2>1, <2>2, <2>3, <2>4, <2>5, <2>6, <2>7 DEF Next
  <1>3. StateInv /\ [Next]_vars =>
          [(stepping /\ stepping') =>
             \/ \A i \in Chain!FreeBytes : mem'[i] = mem[i]
             \/ \E v \in Values : ReadPreimage(v)]_vars
    BY <1>2
  <1> QED BY <1>3, Invariant, PTL DEF Spec, FreeMemoryKept
=============================================================================
