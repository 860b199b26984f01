------------------------- MODULE StepWitnessProofs -------------------------
(***************************************************************************)
(* Theorems about StepWitness, for a trie of any depth, leaves of any size *)
(* and runs of any length: the proofs the fast VM makes during a step are  *)
(* the ones the slow VM needs, in the order it needs them, and both VMs    *)
(* leave the same memory.                                                  *)
(*                                                                         *)
(* A step is a sequence of primitives, different ones in each VM.  What    *)
(* each primitive does to a step that is going well (Good, OnTrack) gives  *)
(* what each load and store does, and then that the two VMs Agree on every *)
(* instruction.  The memory in between is abstracted to its contents, with *)
(* every valid hash true of them (Sound, of MemoryProofs).                 *)
(***************************************************************************)
EXTENDS StepWitness, MemoryProofs

-----------------------------------------------------------------------------
(* Sequences of primitives.                                                *)

\* A sequence, of whatever elements.
IsSeq(ops) == \E S : ops \in Seq(S)

\* What concatenation makes of two sequences.
LEMMA Concat ==
    ASSUME NEW a, IsSeq(a), NEW b, IsSeq(b)
    PROVE  /\ IsSeq(a \o b)
           /\ Len(a) \in Nat /\ Len(b) \in Nat
           /\ Len(a \o b) = Len(a) + Len(b)
           /\ \A i \in 1..Len(a) : (a \o b)[i] = a[i]
           /\ \A i \in 1..Len(b) : (a \o b)[Len(a) + i] = b[i]
  <1>1. PICK S : a \in Seq(S)
    BY DEF IsSeq
  <1>2. PICK T : b \in Seq(T)
    BY DEF IsSeq
  <1>3. a \in Seq(S \union T) /\ b \in Seq(S \union T)
    <2>1. a \in [1..Len(a) -> S] /\ Len(a) \in Nat /\ b \in [1..Len(b) -> T] /\ Len(b) \in Nat
      BY <1>1, <1>2
    <2>2. a \in [1..Len(a) -> S \union T] /\ b \in [1..Len(b) -> S \union T]
      BY <2>1
    <2> QED BY <2>1, <2>2
  <1>4. a \o b \in Seq(S \union T)
    BY <1>3
  <1> QED BY <1>3, <1>4 DEF IsSeq

\* The short sequences.
LEMMA ShortSeq ==
    ASSUME NEW p, NEW q
    PROVE  /\ IsSeq(<< >>) /\ Len(<< >>) = 0
           /\ IsSeq(<<p>>) /\ Len(<<p>>) = 1 /\ <<p>>[1] = p
           /\ <<p, q>> = <<p>> \o <<q>>
  <1>1. << >> \in Seq({p}) /\ <<p>> \in Seq({p})
    OBVIOUS
  <1>2. IsSeq(<< >>) /\ IsSeq(<<p>>)
    BY <1>1 DEF IsSeq
  <1>3. <<p, q>> = <<p>> \o <<q>>
    <2> DEFINE pq == <<p>> \o <<q>>
    <2>1. IsSeq(<<q>>)
      <3>1. <<q>> \in Seq({q})
        OBVIOUS
      <3> QED BY <3>1 DEF IsSeq
    <2>2. IsSeq(pq) /\ Len(pq) = 2 /\ pq[1] = p /\ pq[2] = q
      BY <1>2, <2>1, Concat
    <2> HIDE DEF pq
    <2>3. PICK S : pq \in Seq(S)
      BY <2>2 DEF IsSeq
    <2>4. pq = [i \in 1..2 |-> pq[i]]
      BY <2>2, <2>3
    <2>5. <<p, q>> = [i \in 1..2 |-> <<p, q>>[i]]
      OBVIOUS
    <2>6. pq = <<p, q>>
      BY <2>2, <2>4, <2>5
    <2> QED BY <2>6 DEF pq
  <1> QED BY <1>2, <1>3

\* A part of the sequence of an instruction that is there on a condition.
LEMMA WhenSeq ==
    ASSUME NEW b, NEW ops, IsSeq(ops)
    PROVE  IsSeq(When(b, ops))
  BY ShortSeq DEF When

-----------------------------------------------------------------------------
(* Runs of primitives.                                                     *)

\* One primitive of the VM of that name.
Do(vm, s, p) == IF vm = "fast" THEN fastDo(s, p) ELSE slowDo(s, p)

\* Where a sequence of primitives leads.
Run(vm, s, ops) ==
    LET run[i \in 0..Len(ops)] == IF i = 0 THEN s ELSE Do(vm, run[i - 1], ops[i])
    IN  run[Len(ops)]

\* The states on the way there.
IsRun(vm, f, s, ops) ==
    f = [i \in 0..Len(ops) |-> IF i = 0 THEN s ELSE Do(vm, f[i - 1], ops[i])]

\* There is a run of any sequence.
LEMMA RunExists ==
    ASSUME NEW vm, NEW s, NEW ops, Len(ops) \in Nat
    PROVE  \E f : IsRun(vm, f, s, ops)
  <1> DEFINE N == Len(ops)
             Upto(f, j) == \A i \in 0..j : f[i] = IF i = 0 THEN s ELSE Do(vm, f[i - 1], ops[i])
             S == {j \in 0..N : \E f : Upto(f, j)}
  <1>1. 0 \in S
    <2> DEFINE f == [i \in {0} |-> s]
    <2>1. Upto(f, 0)
      OBVIOUS
    <2> HIDE DEF f, Upto
    <2> QED BY <2>1
  <1>2. ASSUME NEW j \in 0..(N - 1), j \in S PROVE j + 1 \in S
    <2>1. PICK f : Upto(f, j)
      BY <1>2
    <2> DEFINE g == [i \in 0..(j + 1) |-> IF i = j + 1 THEN Do(vm, f[j], ops[j + 1]) ELSE f[i]]
    <2>2. ASSUME NEW i \in 0..(j + 1)
          PROVE  g[i] = IF i = 0 THEN s ELSE Do(vm, g[i - 1], ops[i])
      <3>1. CASE i = j + 1
        <4>1. g[i] = Do(vm, f[j], ops[j + 1])
          BY <3>1
        <4>2. g[i - 1] = f[j] /\ i # 0
          BY <3>1
        <4> QED BY <3>1, <4>1, <4>2
      <3>2. CASE i # j + 1
        <4>1. i \in 0..j /\ g[i] = f[i]
          BY <3>2
        <4>2. f[i] = IF i = 0 THEN s ELSE Do(vm, f[i - 1], ops[i])
          BY <2>1, <4>1
        <4>3. i # 0 => g[i - 1] = f[i - 1]
          BY <4>1
        <4> HIDE DEF g
        <4> QED BY <4>1, <4>2, <4>3
      <3> QED BY <3>1, <3>2
    <2> HIDE DEF g
    <2>3. Upto(g, j + 1)
      BY <2>2
    <2> HIDE DEF Upto
    <2> QED BY <2>3
  <1> HIDE DEF S
  <1>3. N \in S
    <2>1. 0..N \subseteq S
      BY <1>1, <1>2, NatInd
    <2> QED BY <2>1
  <1>4. PICK f : Upto(f, N)
    BY <1>3 DEF S
  <1> DEFINE g == [i \in 0..N |-> f[i]]
  <1>5. ASSUME NEW i \in 0..N PROVE g[i] = IF i = 0 THEN s ELSE Do(vm, g[i - 1], ops[i])
    <2>1. g[i] = f[i] /\ (i # 0 => g[i - 1] = f[i - 1])
      OBVIOUS
    <2>2. f[i] = IF i = 0 THEN s ELSE Do(vm, f[i - 1], ops[i])
      BY <1>4
    <2> HIDE DEF g
    <2> QED BY <2>1, <2>2
  <1>6. g = [i \in 0..N |-> g[i]]
    OBVIOUS
  <1> HIDE DEF g
  <1>7. g = [i \in 0..N |-> IF i = 0 THEN s ELSE Do(vm, g[i - 1], ops[i])]
    BY <1>5, <1>6
  <1> QED BY <1>7 DEF IsRun

\* and it decides where the sequence leads.
LEMMA RunEnds ==
    ASSUME NEW vm, NEW s, NEW ops, Len(ops) \in Nat, NEW f, IsRun(vm, f, s, ops)
    PROVE  Run(vm, s, ops) = f[Len(ops)]
  <1> DEFINE N   == Len(ops)
             run == CHOOSE g : g = [i \in 0..N |-> IF i = 0 THEN s ELSE Do(vm, g[i - 1], ops[i])]
             T   == {j \in 0..N : run[j] = f[j]}
  <1>1. run = [i \in 0..N |-> IF i = 0 THEN s ELSE Do(vm, run[i - 1], ops[i])]
    BY DEF IsRun
  <1>2. Run(vm, s, ops) = run[N]
    BY DEF Run
  <1> HIDE DEF run
  <1>3. f = [i \in 0..N |-> IF i = 0 THEN s ELSE Do(vm, f[i - 1], ops[i])]
    BY DEF IsRun
  <1>4. 0 \in T
    BY <1>1, <1>3
  <1>5. ASSUME NEW j \in 0..(N - 1), j \in T PROVE j + 1 \in T
    <2>1. j + 1 \in 0..N /\ j + 1 # 0 /\ j + 1 - 1 = j
      OBVIOUS
    <2>2. run[j + 1] = Do(vm, run[j], ops[j + 1])
      BY <1>1, <2>1
    <2>3. f[j + 1] = Do(vm, f[j], ops[j + 1])
      BY <1>3, <2>1
    <2> QED BY <1>5, <2>1, <2>2, <2>3
  <1> HIDE DEF T
  <1>6. N \in T
    <2>1. 0..N \subseteq T
      BY <1>4, <1>5, NatInd
    <2> QED BY <2>1
  <1> QED BY <1>2, <1>6 DEF T

\* Nothing to run leads nowhere,
LEMMA RunNone ==
    ASSUME NEW vm, NEW s
    PROVE  Run(vm, s, << >>) = s
  <1>1. Len(<< >>) = 0 /\ Len(<< >>) \in Nat
    BY ShortSeq
  <1>2. PICK f : IsRun(vm, f, s, << >>)
    BY <1>1, RunExists
  <1>3. f[0] = s
    BY <1>1, <1>2 DEF IsRun
  <1> QED BY <1>1, <1>2, <1>3, RunEnds

\* one primitive is run as it is,
LEMMA RunOne ==
    ASSUME NEW vm, NEW s, NEW p
    PROVE  Run(vm, s, <<p>>) = Do(vm, s, p)
  <1> DEFINE ops == <<p>>
  <1>1. Len(ops) = 1 /\ Len(ops) \in Nat /\ ops[1] = p
    BY ShortSeq
  <1> HIDE DEF ops
  <1>2. PICK f : IsRun(vm, f, s, ops)
    BY <1>1, RunExists
  <1>3. f[0] = s /\ f[1] = Do(vm, f[0], ops[1])
    BY <1>1, <1>2 DEF IsRun
  <1>4. Run(vm, s, ops) = f[1]
    BY <1>1, <1>2, RunEnds
  <1> QED BY <1>1, <1>3, <1>4 DEF ops

\* and a longer sequence part by part.
LEMMA RunTwo ==
    ASSUME NEW vm, NEW s, NEW a, NEW b, IsSeq(a), IsSeq(b)
    PROVE  Run(vm, s, a \o b) = Run(vm, Run(vm, s, a), b)
  <1> DEFINE ab == a \o b
             N  == Len(a)
             M  == Len(b)
  <1>1. /\ N \in Nat /\ M \in Nat /\ Len(ab) = N + M /\ Len(ab) \in Nat
        /\ \A i \in 1..N : ab[i] = a[i]
        /\ \A i \in 1..M : ab[N + i] = b[i]
    BY Concat
  <1> HIDE DEF ab
  <1>2. PICK f : IsRun(vm, f, s, a)
    BY <1>1, RunExists
  <1>3. Run(vm, s, a) = f[N]
    BY <1>1, <1>2, RunEnds
  <1>4. PICK g : IsRun(vm, g, f[N], b)
    BY <1>1, RunExists
  <1>5. Run(vm, f[N], b) = g[M]
    BY <1>1, <1>4, RunEnds
  <1> DEFINE h == [i \in 0..(N + M) |-> IF i <= N THEN f[i] ELSE g[i - N]]
  <1>6. ASSUME NEW i \in 0..(N + M)
        PROVE  h[i] = IF i = 0 THEN s ELSE Do(vm, h[i - 1], ab[i])
    <2>1. CASE i = 0
      <3>1. 0 <= N /\ 0 \in 0..N
        BY <1>1
      <3>2. f[0] = s
        BY <1>2, <3>1 DEF IsRun
      <3> QED BY <2>1, <3>1, <3>2
    <2>2. CASE i # 0 /\ i <= N
      <3>1. i \in 0..N /\ i \in 1..N /\ i - 1 \in 0..(N + M) /\ i - 1 <= N
        BY <1>1, <2>2
      <3>2. f[i] = Do(vm, f[i - 1], a[i])
        BY <1>2, <2>2, <3>1 DEF IsRun
      <3>3. h[i] = f[i] /\ h[i - 1] = f[i - 1]
        BY <2>2, <3>1
      <3> HIDE DEF h
      <3> QED BY <1>1, <2>2, <3>1, <3>2, <3>3
    <2>3. CASE i = N + 1
      <3>1. 1 \in 0..M /\ 1 \in 1..M /\ i - 1 = N /\ ~(i <= N) /\ i - N = 1 /\ N \in 0..(N + M)
        BY <1>1, <2>3
      <3>2. g[1] = Do(vm, g[0], b[1]) /\ g[0] = f[N]
        BY <1>4, <3>1 DEF IsRun
      <3>3. h[i] = g[1] /\ h[i - 1] = f[N]
        BY <1>1, <3>1
      <3>4. ab[i] = b[1]
        BY <1>1, <2>3, <3>1
      <3> HIDE DEF h
      <3> QED BY <1>1, <2>3, <3>2, <3>3, <3>4
    <2>4. CASE i > N + 1
      <3>1. /\ i - N \in 0..M /\ i - N \in 1..M /\ i - N # 0 /\ ~(i <= N) /\ ~(i - 1 <= N)
            /\ i - 1 \in 0..(N + M) /\ i - 1 - N = i - N - 1 /\ N + (i - N) = i
        BY <1>1, <2>4
      <3>2. g[i - N] = Do(vm, g[i - N - 1], b[i - N])
        BY <1>4, <3>1 DEF IsRun
      <3>3. h[i] = g[i - N] /\ h[i - 1] = g[i - N - 1]
        BY <3>1
      <3>4. ab[i] = b[i - N]
        BY <1>1, <3>1
      <3> HIDE DEF h
      <3> QED BY <1>1, <2>4, <3>2, <3>3, <3>4
    <2> HIDE DEF h
    <2>5. i = 0 \/ (i # 0 /\ i <= N) \/ i = N + 1 \/ i > N + 1
      BY <1>1
    <2> QED BY <2>1, <2>2, <2>3, <2>4, <2>5
  <1>7. h = [i \in 0..(N + M) |-> h[i]]
    OBVIOUS
  <1>8. h[N + M] = g[M]
    <2>1. CASE M = 0
      <3>1. g[0] = f[N]
        BY <1>1, <1>4 DEF IsRun
      <3> QED BY <1>1, <2>1, <3>1
    <2>2. CASE M # 0
      BY <1>1, <2>2
    <2> QED BY <2>1, <2>2
  <1> HIDE DEF h
  <1>9. IsRun(vm, h, s, ab)
    BY <1>1, <1>6, <1>7 DEF IsRun
  <1>10. Run(vm, s, ab) = h[N + M]
    <2>1. Len(ab) \in Nat
      BY <1>1
    <2>2. Run(vm, s, ab) = h[Len(ab)]
      BY <1>9, <2>1, RunEnds
    <2> QED BY <1>1, <2>2
  <1> QED BY <1>3, <1>5, <1>8, <1>10 DEF ab

\* The step of a VM is a run of its primitives.
LEMMA StepIsRun ==
    ASSUME NEW pc, NEW op
    PROVE  /\ \A m, proof : IsSeq(Primitives(pc, op)) =>
                riscvStep(m, proof, pc, op) = Run("fast", NewStep(m, proof), Primitives(pc, op))
           /\ \A root, proofs : IsSeq(slowPrimitives(pc, op)) =>
                slowStep(root, proofs, pc, op)
                    = Run("slow", NewSlow(root, proofs), slowPrimitives(pc, op))
  <1>1. ASSUME NEW m, NEW proof, IsSeq(Primitives(pc, op))
        PROVE  riscvStep(m, proof, pc, op) = Run("fast", NewStep(m, proof), Primitives(pc, op))
    <2> DEFINE ops == Primitives(pc, op)
               s   == NewStep(m, proof)
               run == CHOOSE f : f = [i \in 0..Len(ops) |-> IF i = 0 THEN s
                                                            ELSE fastDo(f[i - 1], ops[i])]
    <2>1. Len(ops) \in Nat
      BY <1>1, Concat
    <2>2. riscvStep(m, proof, pc, op) = run[Len(ops)]
      BY DEF riscvStep
    <2> HIDE DEF ops, s
    <2>3. PICK f : IsRun("fast", f, s, ops)
      BY <2>1, RunExists
    <2>4. f = [i \in 0..Len(ops) |-> IF i = 0 THEN s ELSE fastDo(f[i - 1], ops[i])]
      BY <2>3 DEF IsRun, Do
    <2>5. run = [i \in 0..Len(ops) |-> IF i = 0 THEN s ELSE fastDo(run[i - 1], ops[i])]
      BY <2>4
    <2> HIDE DEF run
    <2>6. IsRun("fast", run, s, ops)
      BY <2>5 DEF IsRun, Do
    <2>7. Run("fast", s, ops) = run[Len(ops)]
      BY <2>1, <2>6, RunEnds
    <2> QED BY <2>2, <2>7 DEF ops, s
  <1>2. ASSUME NEW root, NEW proofs, IsSeq(slowPrimitives(pc, op))
        PROVE  slowStep(root, proofs, pc, op)
                 = Run("slow", NewSlow(root, proofs), slowPrimitives(pc, op))
    <2> DEFINE ops == slowPrimitives(pc, op)
               s   == NewSlow(root, proofs)
               run == CHOOSE f : f = [i \in 0..Len(ops) |-> IF i = 0 THEN s
                                                            ELSE slowDo(f[i - 1], ops[i])]
    <2>1. Len(ops) \in Nat
      BY <1>2, Concat
    <2>2. slowStep(root, proofs, pc, op) = run[Len(ops)]
      BY DEF slowStep
    <2> HIDE DEF ops, s
    <2>3. PICK f : IsRun("slow", f, s, ops)
      BY <2>1, RunExists
    <2>4. f = [i \in 0..Len(ops) |-> IF i = 0 THEN s ELSE slowDo(f[i - 1], ops[i])]
      BY <2>3 DEF IsRun, Do
    <2>5. run = [i \in 0..Len(ops) |-> IF i = 0 THEN s ELSE slowDo(run[i - 1], ops[i])]
      BY <2>4
    <2> HIDE DEF run
    <2>6. IsRun("slow", run, s, ops)
      BY <2>5 DEF IsRun, Do
    <2>7. Run("slow", s, ops) = run[Len(ops)]
      BY <2>1, <2>6, RunEnds
    <2> QED BY <2>2, <2>7 DEF ops, s
  <1> QED BY <1>1, <1>2

-----------------------------------------------------------------------------
(* What the slow VM makes of a proof.                                      *)

\* Folding a value into the proof of a leaf gives the root of the contents with
\* that value in the leaf.
LEMMA FoldProofRoot ==
    ASSUME NEW leaf \in Leaf, NEW c, NEW e, \A l \in Leaf : l # leaf => e[l] = c[l]
    PROVE  FoldProof(leaf, e[leaf], ProofOf(c, leaf).siblings) = Tree(e)[Root]
  <1> DEFINE D    == AddrSize
             sibs == ProofOf(c, leaf).siblings
             path == [d \in 0..D |-> Tree(e)[Prefix(leaf, d)]]
             turn(f, d) == IF d = D THEN e[leaf]
                           ELSE IF leaf[d + 1] = 0 THEN HashPair(f[d + 1], sibs[d + 1])
                                                   ELSE HashPair(sibs[d + 1], f[d + 1])
  <1>1. D \in Nat /\ leaf \in Nodes(D) /\ Len(leaf) = D
    BY LeafNodes
  <1>2. \A d \in 1..D : sibs[d] = Tree(e)[Sibling(Prefix(leaf, d))]
    <2>1. \A d \in 1..D : sibs[d] = Tree(c)[Sibling(Prefix(leaf, d))]
      BY DEF ProofOf
    <2>2. \A d \in 1..D : Tree(e)[Sibling(Prefix(leaf, d))] = Tree(c)[Sibling(Prefix(leaf, d))]
      BY SiblingBeside, BesideSame
    <2> HIDE DEF sibs
    <2> QED BY <2>1, <2>2
  <1> HIDE DEF sibs
  <1>3. ASSUME NEW d \in 0..D PROVE path[d] = turn(path, d)
    <2>1. path[d] = Tree(e)[Prefix(leaf, d)]
      OBVIOUS
    <2>2. CASE d = D
      <3>1. Prefix(leaf, D) = leaf
        BY DEF Leaf, Prefix
      <3> QED BY <2>1, <2>2, <3>1, TreeAt
    <2>3. CASE d # D
      <3>1. d \in 0..(D - 1) /\ d + 1 \in 0..D /\ d + 1 \in 1..D /\ d \in 0..Len(leaf)
        BY <1>1, <2>3
      <3>2. /\ leaf[d + 1] \in Bit
            /\ Append(Prefix(leaf, d), leaf[d + 1]) = Prefix(leaf, d + 1)
            /\ Append(Prefix(leaf, d), 1 - leaf[d + 1]) = Sibling(Prefix(leaf, d + 1))
        BY <3>1, PathChildren
      <3>3. Prefix(leaf, d) \in Nodes(D) /\ Len(Prefix(leaf, d)) < D
        BY <1>1, <3>1, PrefixOfNode
      <3>4. Tree(e)[Prefix(leaf, d)]
              = HashPair(Tree(e)[Append(Prefix(leaf, d), 0)], Tree(e)[Append(Prefix(leaf, d), 1)])
        BY <3>3, TreeAt
      <3>5. path[d + 1] = Tree(e)[Prefix(leaf, d + 1)]
        BY <3>1
      <3>6. sibs[d + 1] = Tree(e)[Sibling(Prefix(leaf, d + 1))]
        BY <1>2, <3>1
      <3> HIDE DEF path
      <3>7. CASE leaf[d + 1] = 0
        <4>1. Append(Prefix(leaf, d), 1) = Sibling(Prefix(leaf, d + 1))
          BY <3>2, <3>7
        <4> QED BY <2>1, <2>3, <3>2, <3>4, <3>5, <3>6, <3>7, <4>1
      <3>8. CASE leaf[d + 1] = 1
        <4>1. Append(Prefix(leaf, d), 0) = Sibling(Prefix(leaf, d + 1))
          BY <3>2, <3>8
        <4> QED BY <2>1, <2>3, <3>2, <3>4, <3>5, <3>6, <3>8, <4>1
      <3> QED BY <3>2, <3>7, <3>8 DEF Bit
    <2> QED BY <2>2, <2>3
  <1>4. path = [d \in 0..D |-> turn(path, d)]
    <2>1. path = [d \in 0..D |-> path[d]]
      OBVIOUS
    <2> HIDE DEF path, turn
    <2> QED BY <1>3, <2>1
  <1> DEFINE node == CHOOSE f : f = [d \in 0..D |-> turn(f, d)]
  <1>5. node = [d \in 0..D |-> turn(node, d)]
    <2> HIDE DEF path
    <2> QED BY <1>4
  <1>6. FoldProof(leaf, e[leaf], sibs) = node[0]
    BY DEF FoldProof
  <1> HIDE DEF node
  <1> DEFINE T == {j \in 0..D : node[D - j] = path[D - j]}
  <1>7. 0 \in T
    <2>1. D - 0 \in 0..D /\ D - 0 = D
      BY <1>1
    <2>2. node[D] = e[leaf] /\ path[D] = e[leaf]
      <3>1. D \in 0..D
        BY <1>1
      <3>2. path[D] = turn(path, D)
        BY <1>3, <3>1
      <3> HIDE DEF path
      <3> QED BY <1>5, <3>1, <3>2
    <2> HIDE DEF path
    <2> QED BY <2>1, <2>2
  <1>8. ASSUME NEW j \in 0..(D - 1), j \in T PROVE j + 1 \in T
    <2> DEFINE d == D - (j + 1)
    <2>1. d \in 0..D /\ d # D /\ d + 1 = D - j /\ j + 1 \in 0..D
      BY <1>1
    <2>2. path[d] = turn(path, d)
      BY <1>3, <2>1
    <2> HIDE DEF d, path
    <2>3. node[d] = turn(node, d)
      BY <1>5, <2>1
    <2>4. node[d + 1] = path[d + 1]
      BY <1>8, <2>1
    <2> QED BY <2>1, <2>2, <2>3, <2>4 DEF d
  <1> HIDE DEF T
  <1>9. 0..D \subseteq T
    BY <1>1, <1>7, <1>8, NatInd
  <1>10. node[0] = path[0]
    <2>1. D \in T /\ D - D = 0
      BY <1>1, <1>9
    <2> HIDE DEF path
    <2> QED BY <2>1 DEF T
  <1>11. path[0] = Tree(e)[Root]
    <2>1. Prefix(leaf, 0) = Root
      BY DEF Prefix, Root
    <2>2. 0 \in 0..D
      BY <1>1
    <2> QED BY <2>1, <2>2
  <1> QED BY <1>6, <1>10, <1>11 DEF sibs

-----------------------------------------------------------------------------
(* One primitive of the fast VM.                                           *)

\* The bytes of the contents that an access covers.
Bytes(c, addr, n) ==
    [i \in 1..n |-> IF addr.byte + i <= LeafBytes
                    THEN c[addr.leaf][addr.byte + i - 1]
                    ELSE c[NextLeaf(addr.leaf)][addr.byte + i - 1 - LeafBytes]]

\* A step that is going well, in a memory of contents c.  It caches hashes only
\* when it makes proofs.
Good(s, c) ==
    /\ DOMAIN s = {"mem", "memProofEnabled", "memProofs", "memAccess", "read", "failed"}
    /\ IInv(s.mem) /\ Sound(s.mem) /\ Contents(s.mem) = c
    /\ s.failed = FALSE
    /\ s.memProofEnabled \in BOOLEAN
    /\ ~s.memProofEnabled => NoCaches(s.mem)
    /\ s.memProofEnabled =>
          IsSeq(s.memProofs) /\ IsSeq(s.memAccess) /\ Len(s.memAccess) = Len(s.memProofs)
    /\ IsSeq(s.read)

\* The proof at an index is that of a leaf, in a memory of contents c.
Tracked(s, i, c, leaf) ==
    s.memProofEnabled =>
        /\ i \in Nat /\ i < Len(s.memProofs)
        /\ s.memProofs[i + 1] = ProofOf(c, leaf)
        /\ s.memAccess[i + 1] = leaf

\* The number of proofs so far.
Count(s, n) == s.memProofEnabled => Len(s.memProofs) = n

\* A leaf may be written: the page above it is valid, if anything is.
Ready(s, leaf) == s.memProofEnabled => RootValid(s.mem, PageOf(leaf))

\* The proofs of s are those of r too.
Grows(s, r) ==
    /\ r.memProofEnabled = s.memProofEnabled
    /\ \A i, c, leaf : Tracked(s, i, c, leaf) => Tracked(r, i, c, leaf)

\* What could be written in s can be in r.
KeepsReady(s, r) == \A leaf \in Leaf : Ready(s, leaf) => Ready(r, leaf)

\* What Append makes of a sequence.
LEMMA Appended ==
    ASSUME NEW a, IsSeq(a), NEW x
    PROVE  /\ IsSeq(Append(a, x))
           /\ Len(a) \in Nat
           /\ Len(Append(a, x)) = Len(a) + 1
           /\ \A i \in 1..Len(a) : Append(a, x)[i] = a[i]
           /\ Append(a, x)[Len(a) + 1] = x
  <1>1. PICK S : a \in Seq(S)
    BY DEF IsSeq
  <1>2. a \in Seq(S \union {x})
    <2>1. a \in [1..Len(a) -> S] /\ Len(a) \in Nat
      BY <1>1
    <2>2. a \in [1..Len(a) -> S \union {x}]
      BY <2>1
    <2> QED BY <2>1, <2>2
  <1>3. Append(a, x) \in Seq(S \union {x})
    BY <1>2
  <1> QED BY <1>2, <1>3 DEF IsSeq

\* trackMemAccess files the proof of the leaf at the next index, and filling the caches
\* for it leaves the contents and validates the path down to the leaf's page.
LEMMA FastTrack ==
    ASSUME NEW s, NEW c, Good(s, c), NEW leaf \in Leaf, NEW n, Count(s, n)
    PROVE  LET r == Do("fast", s, Track(leaf, n))
           IN  /\ Good(r, c) /\ Grows(s, r) /\ KeepsReady(s, r)
               /\ r.read = s.read
               /\ Count(r, n + 1) /\ Tracked(r, n, c, leaf) /\ Ready(r, leaf)
  <1> DEFINE r == Do("fast", s, Track(leaf, n))
  <1>1. r = trackMemAccess(s, leaf, n)
    <2> DEFINE p == Track(leaf, n)
    <2>1. p.kind = "track" /\ p.leaf = leaf /\ p.index = n
      BY DEF Track
    <2> HIDE DEF p
    <2>2. fastDo(s, p) = trackMemAccess(s, leaf, n)
      BY <2>1 DEF fastDo, Good
    <2> QED BY <2>2 DEF Do, p
  <1> HIDE DEF r
  <1>2. CASE ~s.memProofEnabled
    <2>1. r = s
      BY <1>1, <1>2 DEF trackMemAccess
    <2> QED BY <1>2, <2>1 DEF Grows, KeepsReady, Count, Tracked, Ready, r
  <1>3. CASE s.memProofEnabled
    <2> DEFINE P == ProofOf(c, leaf)
    <2>1. Len(s.memProofs) = n /\ n \in Nat /\ Len(s.memAccess) = n
      BY <1>3, Appended DEF Count, Good
    <2>2. Proof(s.mem, leaf) = P
      BY ProofIsTrue DEF Good
    <2> HIDE DEF P
    <2>3. r = [s EXCEPT !.memProofs = Append(@, P), !.memAccess = Append(@, leaf),
                        !.mem = MerkleProof(@, leaf)]
      BY <1>1, <1>3, <2>1, <2>2 DEF trackMemAccess
    <2>4. /\ DOMAIN r = DOMAIN s
          /\ r.memProofs = Append(s.memProofs, P) /\ r.memAccess = Append(s.memAccess, leaf)
          /\ r.mem = MerkleProof(s.mem, leaf)
          /\ r.read = s.read /\ r.failed = s.failed /\ r.memProofEnabled = s.memProofEnabled
      BY <2>3 DEF Good
    <2>5. /\ IsSeq(r.memProofs) /\ Len(r.memProofs) = n + 1 /\ r.memProofs[n + 1] = P
          /\ \A i \in 1..n : r.memProofs[i] = s.memProofs[i]
      BY <1>3, <2>1, <2>4, Appended DEF Good
    <2>6. /\ IsSeq(r.memAccess) /\ Len(r.memAccess) = n + 1 /\ r.memAccess[n + 1] = leaf
          /\ \A i \in 1..n : r.memAccess[i] = s.memAccess[i]
      BY <1>3, <2>1, <2>4, Appended DEF Good
    <2>7. /\ IInv(r.mem) /\ Sound(r.mem) /\ Contents(r.mem) = c
          /\ RootValid(r.mem, PageOf(leaf))
          /\ \A k \in PageKey : RootValid(s.mem, k) => RootValid(r.mem, k)
      BY <2>4, ProofStep, ProofSound, ProofPure DEF Good
    <2>8. Good(r, c)
      BY <1>3, <2>4, <2>5, <2>6, <2>7 DEF Good
    <2>9. Count(r, n + 1) /\ Tracked(r, n, c, leaf) /\ Ready(r, leaf)
      BY <2>1, <2>5, <2>6, <2>7 DEF Count, Tracked, Ready, P
    <2>10. KeepsReady(s, r)
      BY <1>3, <2>7, LeafParts DEF KeepsReady, Ready
    <2>11. Grows(s, r)
      <3>1. ASSUME NEW i, NEW d, NEW l, Tracked(s, i, d, l) PROVE Tracked(r, i, d, l)
        <4>1. i \in Nat /\ i < n /\ s.memProofs[i + 1] = ProofOf(d, l) /\ s.memAccess[i + 1] = l
          BY <1>3, <2>1, <3>1 DEF Tracked
        <4>2. i + 1 \in 1..n /\ i < n + 1
          BY <2>1, <4>1
        <4> QED BY <2>5, <2>6, <4>1, <4>2 DEF Tracked
      <3> QED BY <2>4, <3>1 DEF Grows
    <2> QED BY <2>4, <2>8, <2>9, <2>10, <2>11 DEF r
  <1> QED BY <1>2, <1>3 DEF Good

\* verifyMemChange does not panic on the leaf that was tracked at that index.
LEMMA FastCheck ==
    ASSUME NEW s, NEW c, Good(s, c), NEW leaf, NEW n, NEW e, Tracked(s, n, e, leaf)
    PROVE  Do("fast", s, Check(leaf, n)) = s
  <1> DEFINE p == Check(leaf, n)
  <1>1. p.kind = "check" /\ p.leaf = leaf /\ p.index = n
    BY DEF Check
  <1> HIDE DEF p
  <1>2. fastDo(s, p) = verifyMemChange(s, leaf, n)
    BY <1>1 DEF fastDo, Good
  <1>3. verifyMemChange(s, leaf, n) = s
    BY Appended DEF verifyMemChange, Tracked, Good
  <1> QED BY <1>2, <1>3 DEF Do, p

\* Reads see the contents.
LEMMA ReadBytes ==
    ASSUME NEW m, IInv(m), NEW addr \in Address, NEW n \in Nat
    PROVE  GetResult(m, addr, n) = Bytes(Contents(m), addr, n)
  <1>1. addr.leaf \in Leaf /\ NextLeaf(addr.leaf) \in Leaf
    BY LeafParts DEF Address
  <1>2. /\ ReadLeaf(m, addr.leaf) = Contents(m)[addr.leaf]
        /\ ReadLeaf(m, NextLeaf(addr.leaf)) = Contents(m)[NextLeaf(addr.leaf)]
    BY <1>1, ReadsContents
  <1> QED BY <1>2 DEF GetResult, Bytes

\* A read returns as many bytes as it was asked for.
LEMMA BytesSeq ==
    ASSUME NEW c, NEW addr, NEW n \in Nat
    PROVE  IsSeq(Bytes(c, addr, n)) /\ Len(Bytes(c, addr, n)) = n
  <1> DEFINE b == Bytes(c, addr, n)
  <1>1. b = [i \in 1..n |-> b[i]]
    BY DEF Bytes
  <1> HIDE DEF b
  <1>2. b \in [1..n -> {b[i] : i \in 1..n}]
    BY <1>1
  <1>3. b \in Seq({b[i] : i \in 1..n}) /\ Len(b) = n
    BY <1>2
  <1> QED BY <1>3 DEF IsSeq, b

\* GetUnaligned appends the bytes of the contents, and disturbs nothing.
LEMMA FastRead ==
    ASSUME NEW s, NEW c, Good(s, c), NEW addr \in Address, NEW n \in Nat
    PROVE  LET r == Do("fast", s, Read(addr, n))
           IN  /\ Good(r, c) /\ Grows(s, r) /\ KeepsReady(s, r)
               /\ r.read = s.read \o Bytes(c, addr, n)
               /\ \A k : Count(s, k) => Count(r, k)
  <1> DEFINE r == Do("fast", s, Read(addr, n))
             p == Read(addr, n)
             b == Bytes(c, addr, n)
  <1>1. p.kind = "read" /\ p.addr = addr /\ p.n = n
    BY DEF Read
  <1>2. GetResult(s.mem, addr, n) = b
    BY ReadBytes DEF Good
  <1>3. IsSeq(b)
    BY BytesSeq
  <1> HIDE DEF p, b
  <1>4. r = [s EXCEPT !.read = @ \o b, !.mem = GetUnaligned(@, addr, n)]
    <2>1. fastDo(s, p) = [s EXCEPT !.read = @ \o GetResult(s.mem, p.addr, p.n),
                                   !.mem = GetUnaligned(@, p.addr, p.n)]
      BY <1>1 DEF fastDo, Good
    <2> QED BY <1>1, <1>2, <2>1 DEF Do, p
  <1> HIDE DEF r
  <1>5. /\ DOMAIN r = DOMAIN s
        /\ r.read = s.read \o b /\ r.mem = GetUnaligned(s.mem, addr, n)
        /\ r.memProofs = s.memProofs /\ r.memAccess = s.memAccess
        /\ r.failed = s.failed /\ r.memProofEnabled = s.memProofEnabled
    BY <1>4 DEF Good
  <1>6. /\ IInv(r.mem) /\ Contents(r.mem) = c /\ Sound(r.mem)
        /\ NoCaches(s.mem) => NoCaches(r.mem)
        /\ \A k \in PageKey : RootValid(s.mem, k) => RootValid(r.mem, k)
    BY <1>5, GetSound DEF Good
  <1>7. IsSeq(r.read)
    BY <1>3, <1>5, Concat DEF Good
  <1>8. Good(r, c)
    BY <1>5, <1>6, <1>7 DEF Good
  <1>9. KeepsReady(s, r)
    BY <1>5, <1>6, LeafParts DEF KeepsReady, Ready
  <1>10. Grows(s, r)
    BY <1>5 DEF Grows, Tracked
  <1>11. \A k : Count(s, k) => Count(r, k)
    BY <1>5 DEF Count
  <1> QED BY <1>5, <1>8, <1>9, <1>10, <1>11 DEF r, b

\* SetUnaligned, inside one leaf whose page is valid, changes the contents there and leaves
\* every valid hash true.
LEMMA FastWrite ==
    ASSUME NEW s, NEW c, Good(s, c), NEW addr \in Address, NEW dat \in Dat,
           addr.byte + Len(dat) <= LeafBytes, Ready(s, addr.leaf),
           NEW r, DOMAIN r = DOMAIN s, r.mem = SetUnaligned(s.mem, addr, dat),
           r.read = s.read, r.failed = s.failed, r.memProofEnabled = s.memProofEnabled,
           r.memProofs = s.memProofs, r.memAccess = s.memAccess
    PROVE  /\ Good(r, PutLeaf(c, addr.leaf, addr.byte, dat, 1, Len(dat))) /\ Grows(s, r)
           /\ r.read = s.read
           /\ \A k : Count(s, k) => Count(r, k)
  <1> DEFINE e == PutLeaf(c, addr.leaf, addr.byte, dat, 1, Len(dat))
  <1>1. Clean(s.mem, PageOf(addr.leaf))
    BY NoCachesSound DEF Good, Ready, RootValid, Clean
  <1>2. /\ IInv(r.mem) /\ Contents(r.mem) = e /\ Sound(r.mem)
        /\ NoCaches(s.mem) => NoCaches(r.mem)
    BY <1>1, SetSound DEF Good
  <1> HIDE DEF e
  <1>3. Good(r, e)
    BY <1>2 DEF Good
  <1>4. Grows(s, r) /\ \A k : Count(s, k) => Count(r, k)
    BY DEF Grows, Tracked, Count
  <1> QED BY <1>3, <1>4 DEF e

-----------------------------------------------------------------------------
(* What a store makes of the contents.                                     *)

\* The contents once the left leaf of an access, the right one, or all it covers is
\* written.
LeftStored(c, addr, dat) ==
    [l \in Leaf |-> IF l = addr.leaf THEN LeftPatch(c[l], addr, dat) ELSE c[l]]

RightStored(c, addr, dat) ==
    [l \in Leaf |-> IF l = NextLeaf(addr.leaf) THEN RightPatch(c[l], addr, dat) ELSE c[l]]

StoredIn(c, addr, dat) ==
    IF Crosses(addr, Len(dat)) THEN RightStored(LeftStored(c, addr, dat), addr, dat)
                               ELSE LeftStored(c, addr, dat)

\* A byte string is a sequence.
LEMMA DatSeq ==
    ASSUME NEW dat \in Dat
    PROVE  dat \in Seq(Byte) /\ Len(dat) \in 1..LeafBytes /\ dat \in [1..Len(dat) -> Byte]
  <1>1. PICK n \in 1..LeafBytes : dat \in [1..n -> Byte]
    BY DEF Dat
  <1>2. Len(dat) = n
    BY <1>1, PageAssumption
  <1> QED BY <1>1, <1>2, PageAssumption

\* A store that fits in its leaf,
LEMMA PutLeft ==
    ASSUME NEW c, NEW addr \in Address, NEW dat \in Dat, ~Crosses(addr, Len(dat))
    PROVE  PutLeaf(c, addr.leaf, addr.byte, dat, 1, Len(dat)) = LeftStored(c, addr, dat)
  <1>1. addr.byte \in 0..(LeafBytes - 1) /\ Len(dat) \in 1..LeafBytes
    BY DatSeq DEF Address
  <1>2. ASSUME NEW old
        PROVE  Copied(old, addr.byte, dat, 1, Len(dat)) = LeftPatch(old, addr, dat)
    <2>1. ASSUME NEW b \in 0..(LeafBytes - 1)
          PROVE  /\ b <= addr.byte + Len(dat) - 1 <=> b < addr.byte + Len(dat)
                 /\ 1 + b - addr.byte = b - addr.byte + 1
      BY <1>1, PageAssumption
    <2> QED BY <2>1 DEF Copied, LeftPatch
  <1> QED BY <1>2 DEF PutLeaf, LeftStored

\* and the two parts of one that does not.
LEMMA PutParts ==
    ASSUME NEW c, NEW addr \in Address, NEW dat \in Dat, Crosses(addr, Len(dat))
    PROVE  LET fit == LeafBytes - addr.byte
               l   == SubSeq(dat, 1, fit)
               r   == SubSeq(dat, fit + 1, Len(dat))
           IN  /\ l \in Dat /\ addr.byte + Len(l) <= LeafBytes
               /\ PutLeaf(c, addr.leaf, addr.byte, l, 1, Len(l)) = LeftStored(c, addr, dat)
               /\ r \in Dat /\ Len(r) <= LeafBytes
               /\ PutLeaf(c, NextLeaf(addr.leaf), 0, r, 1, Len(r)) = RightStored(c, addr, dat)
  <1> DEFINE fit == LeafBytes - addr.byte
             N   == Len(dat)
             l   == SubSeq(dat, 1, fit)
             r   == SubSeq(dat, fit + 1, N)
  <1>1. addr.byte \in 0..(LeafBytes - 1) /\ N \in 1..LeafBytes /\ dat \in [1..N -> Byte]
        /\ addr.byte + N > LeafBytes
    BY DatSeq DEF Address, Crosses
  <1>2. fit \in 1..N /\ fit < N /\ N - fit \in 1..LeafBytes /\ fit \in 1..LeafBytes
    BY <1>1, PageAssumption
  <1>3. l = [i \in 1..fit |-> dat[i]] /\ r = [i \in 1..(N - fit) |-> dat[fit + i]]
    <2> HIDE DEF fit
    <2>1. dat \in Seq(Byte) /\ 1 \in 1..N /\ fit + 1 \in 1..N /\ N \in 1..N
      BY <1>1, <1>2, DatSeq
    <2>2. /\ l \in Seq(Byte) /\ r \in Seq(Byte) /\ Len(l) = fit /\ Len(r) = N - fit
          /\ \A i \in 1..fit : l[i] = dat[i]
          /\ \A i \in 1..(N - fit) : r[i] = dat[fit + i]
      BY <1>1, <1>2, <2>1
    <2> HIDE DEF l, r
    <2>3. l = [i \in 1..Len(l) |-> l[i]] /\ r = [i \in 1..Len(r) |-> r[i]]
      BY <2>2
    <2> QED BY <2>2, <2>3
  <1> HIDE DEF l, r
  <1>4. l \in [1..fit -> Byte] /\ r \in [1..(N - fit) -> Byte]
    BY <1>1, <1>2, <1>3
  <1>5. Len(l) = fit /\ Len(r) = N - fit
    BY <1>2, <1>3
  <1>6. l \in Dat /\ r \in Dat
    BY <1>2, <1>4 DEF Dat
  <1>7. ASSUME NEW old
        PROVE  Copied(old, addr.byte, l, 1, fit) = LeftPatch(old, addr, dat)
    <2>1. ASSUME NEW b \in 0..(LeafBytes - 1)
          PROVE  /\ b <= addr.byte + fit - 1 /\ b < addr.byte + N
                 /\ b >= addr.byte => l[1 + b - addr.byte] = dat[b - addr.byte + 1]
      <3>1. b <= addr.byte + fit - 1 /\ b < addr.byte + N
        BY <1>1, PageAssumption
      <3>2. ASSUME b >= addr.byte PROVE l[1 + b - addr.byte] = dat[b - addr.byte + 1]
        <4>1. 1 + b - addr.byte \in 1..fit /\ 1 + b - addr.byte = b - addr.byte + 1
          BY <1>1, <3>2, PageAssumption
        <4> QED BY <1>3, <4>1
      <3> QED BY <3>1, <3>2
    <2> HIDE DEF fit
    <2> QED BY <2>1 DEF Copied, LeftPatch
  <1>8. ASSUME NEW old
        PROVE  Copied(old, 0, r, 1, N - fit) = RightPatch(old, addr, dat)
    <2>1. ASSUME NEW b \in 0..(LeafBytes - 1)
          PROVE  /\ b >= 0
                 /\ b <= 0 + (N - fit) - 1 <=> b + LeafBytes < addr.byte + N
                 /\ b <= 0 + (N - fit) - 1 => r[1 + b - 0] = dat[b + LeafBytes - addr.byte + 1]
      <3>1. b >= 0 /\ (b <= 0 + (N - fit) - 1 <=> b + LeafBytes < addr.byte + N)
        BY <1>1, PageAssumption
      <3>2. ASSUME b <= 0 + (N - fit) - 1
            PROVE  r[1 + b - 0] = dat[b + LeafBytes - addr.byte + 1]
        <4>1. /\ 1 + b - 0 \in 1..(N - fit)
              /\ fit + (1 + b - 0) = b + LeafBytes - addr.byte + 1
          BY <1>1, <3>2, PageAssumption
        <4> HIDE DEF fit
        <4> QED BY <1>3, <4>1
      <3> QED BY <3>1, <3>2
    <2> HIDE DEF fit
    <2> QED BY <2>1 DEF Copied, RightPatch
  <1>9. addr.byte + Len(l) <= LeafBytes /\ Len(r) <= LeafBytes
    BY <1>1, <1>2, <1>5, PageAssumption
  <1> HIDE DEF fit
  <1>10. PutLeaf(c, addr.leaf, addr.byte, l, 1, fit) = LeftStored(c, addr, dat)
    BY <1>7 DEF PutLeaf, LeftStored
  <1>11. PutLeaf(c, NextLeaf(addr.leaf), 0, r, 1, N - fit) = RightStored(c, addr, dat)
    BY <1>8 DEF PutLeaf, RightStored
  <1> QED BY <1>5, <1>6, <1>9, <1>10, <1>11 DEF l, r, fit

\* A patched leaf that is written as a whole.
LEMMA PutWhole ==
    ASSUME NEW c, NEW addr \in Address, NEW dat \in Dat, c[addr.leaf] \in LeafData
    PROVE  LET new   == LeftPatch(c[addr.leaf], addr, dat)
               whole == [i \in 1..LeafBytes |-> new[i - 1]]
           IN  /\ whole \in Dat /\ Len(whole) = LeafBytes
               /\ PutLeaf(c, addr.leaf, 0, whole, 1, LeafBytes) = LeftStored(c, addr, dat)
  <1> DEFINE new   == LeftPatch(c[addr.leaf], addr, dat)
             whole == [i \in 1..LeafBytes |-> new[i - 1]]
  <1>1. /\ addr.byte \in 0..(LeafBytes - 1)
        /\ Len(dat) \in 1..LeafBytes /\ dat \in [1..Len(dat) -> Byte]
    BY DatSeq DEF Address
  <1>2. ASSUME NEW b \in 0..(LeafBytes - 1) PROVE new[b] \in Byte
    <2>1. c[addr.leaf][b] \in Byte
      BY DEF LeafData
    <2>2. ASSUME b >= addr.byte /\ b < addr.byte + Len(dat) PROVE dat[b - addr.byte + 1] \in Byte
      <3>1. b - addr.byte + 1 \in 1..Len(dat)
        BY <1>1, <2>2
      <3> QED BY <1>1, <3>1
    <2> QED BY <2>1, <2>2 DEF LeftPatch
  <1>3. new = [b \in 0..(LeafBytes - 1) |-> new[b]]
    BY DEF LeftPatch
  <1> HIDE DEF new
  <1>4. \A i \in 1..LeafBytes : i - 1 \in 0..(LeafBytes - 1)
    BY PageAssumption
  <1>5. whole \in [1..LeafBytes -> Byte] /\ Len(whole) = LeafBytes
    BY <1>2, <1>4, PageAssumption
  <1>6. whole \in Dat
    BY <1>5, PageAssumption DEF Dat
  <1>7. ASSUME NEW old PROVE Copied(old, 0, whole, 1, LeafBytes) = new
    <2>1. ASSUME NEW b \in 0..(LeafBytes - 1)
          PROVE  b >= 0 /\ b <= 0 + LeafBytes - 1 /\ whole[1 + b - 0] = new[b]
      <3>1. b >= 0 /\ b <= 0 + LeafBytes - 1 /\ 1 + b - 0 \in 1..LeafBytes /\ 1 + b - 0 - 1 = b
        BY PageAssumption
      <3> QED BY <3>1
    <2> HIDE DEF whole
    <2> QED BY <1>3, <2>1 DEF Copied
  <1> HIDE DEF whole
  <1>8. PutLeaf(c, addr.leaf, 0, whole, 1, LeafBytes) = LeftStored(c, addr, dat)
    BY <1>7 DEF PutLeaf, LeftStored, new
  <1> QED BY <1>5, <1>6, <1>8 DEF whole, new

-----------------------------------------------------------------------------
(* Loads and stores of the fast VM.                                        *)

\* A write within a leaf.
LEMMA FastDoWrite ==
    ASSUME NEW s, NEW c, Good(s, c), NEW addr \in Address, NEW dat \in Dat,
           addr.byte + Len(dat) <= LeafBytes, Ready(s, addr.leaf)
    PROVE  LET r == Do("fast", s, Write(addr, dat))
           IN  /\ Good(r, PutLeaf(c, addr.leaf, addr.byte, dat, 1, Len(dat))) /\ Grows(s, r)
               /\ r.read = s.read
               /\ \A k : Count(s, k) => Count(r, k)
  <1> DEFINE r == Do("fast", s, Write(addr, dat))
             p == Write(addr, dat)
  <1>1. p.kind = "write" /\ p.addr = addr /\ p.dat = dat
    BY DEF Write
  <1> HIDE DEF p
  <1>2. r = [s EXCEPT !.mem = SetUnaligned(@, addr, dat)]
    <2>1. fastDo(s, p) = [s EXCEPT !.mem = SetUnaligned(@, p.addr, p.dat)]
      BY <1>1 DEF fastDo, Good
    <2> QED BY <1>1, <2>1 DEF Do, p
  <1> HIDE DEF r
  <1>3. /\ DOMAIN r = DOMAIN s /\ r.mem = SetUnaligned(s.mem, addr, dat)
        /\ r.read = s.read /\ r.failed = s.failed /\ r.memProofEnabled = s.memProofEnabled
        /\ r.memProofs = s.memProofs /\ r.memAccess = s.memAccess
    BY <1>2 DEF Good
  <1>4. /\ Good(r, PutLeaf(c, addr.leaf, addr.byte, dat, 1, Len(dat))) /\ Grows(s, r)
        /\ r.read = s.read
        /\ \A k : Count(s, k) => Count(r, k)
    BY <1>3, FastWrite
  <1> QED BY <1>4 DEF r

\* Grows and KeepsReady relate the states of a run, step by step.
LEMMA GrowsTrans ==
    ASSUME NEW s, NEW r, NEW q
    PROVE  /\ Grows(s, s) /\ KeepsReady(s, s)
           /\ Grows(s, r) /\ Grows(r, q) => Grows(s, q)
           /\ KeepsReady(s, r) /\ KeepsReady(r, q) => KeepsReady(s, q)
  BY DEF Grows, KeepsReady

\* A load appends the proofs of its leaves and the bytes of the contents.
LEMMA FastLoad ==
    ASSUME NEW s, NEW c, Good(s, c), NEW addr \in Address, NEW n \in Nat,
           NEW L, NEW R, Count(s, L),
           Crosses(addr, n) => R # NoProof /\ R = L + 1
    PROVE  LET r == Run("fast", s, loadMem(addr, n, L, R))
           IN  /\ Good(r, c) /\ Grows(s, r)
               /\ r.read = s.read \o Bytes(c, addr, n)
               /\ Tracked(r, L, c, addr.leaf) /\ Ready(r, addr.leaf)
               /\ Crosses(addr, n) => Tracked(r, R, c, NextLeaf(addr.leaf)) /\ Count(r, R + 1)
               /\ ~Crosses(addr, n) => Count(r, L + 1)
  <1> DEFINE right == NextLeaf(addr.leaf)
             mid   == <<IF R = NoProof THEN Revert ELSE Track(right, R)>>
             A     == <<Track(addr.leaf, L)>>
             B     == When(Crosses(addr, n), mid)
             C     == <<Read(addr, n)>>
             s1    == Run("fast", s, A)
             s2    == Run("fast", s1, B)
             r     == Run("fast", s2, C)
  <1>1. addr.leaf \in Leaf /\ right \in Leaf
    BY LeafParts DEF Address
  <1>2. IsSeq(mid) /\ IsSeq(A) /\ IsSeq(C)
    BY ShortSeq
  <1>3. IsSeq(B) /\ IsSeq(A \o B)
    BY <1>2, WhenSeq, Concat
  <1>4. Run("fast", s, loadMem(addr, n, L, R)) = r
    <2>1. loadMem(addr, n, L, R) = (A \o B) \o C
      BY DEF loadMem
    <2> HIDE DEF A, B, C
    <2> QED BY <1>2, <1>3, <2>1, RunTwo
  <1>5. /\ Good(s1, c) /\ Grows(s, s1)
        /\ s1.read = s.read
        /\ Count(s1, L + 1) /\ Tracked(s1, L, c, addr.leaf) /\ Ready(s1, addr.leaf)
    <2>1. s1 = Do("fast", s, Track(addr.leaf, L))
      BY RunOne
    <2> HIDE DEF s1
    <2> QED BY <1>1, <2>1, FastTrack
  <1> HIDE DEF s1, right
  <1>6. /\ Good(s2, c) /\ Grows(s1, s2) /\ KeepsReady(s1, s2)
        /\ s2.read = s.read
        /\ Crosses(addr, n) => Tracked(s2, R, c, right) /\ Count(s2, R + 1)
        /\ ~Crosses(addr, n) => Count(s2, L + 1)
    <2>1. CASE Crosses(addr, n)
      <3>1. s2 = Do("fast", s1, Track(right, R))
        <4>1. B = <<Track(right, R)>>
          BY <2>1 DEF When
        <4> HIDE DEF B
        <4> QED BY <4>1, RunOne
      <3> HIDE DEF s2
      <3>2. /\ Good(s2, c) /\ Grows(s1, s2) /\ KeepsReady(s1, s2)
            /\ s2.read = s1.read
            /\ Count(s2, R + 1) /\ Tracked(s2, R, c, right) /\ Ready(s2, right)
        BY <1>1, <1>5, <2>1, <3>1, FastTrack
      <3> QED BY <1>5, <2>1, <3>2
    <2>2. CASE ~Crosses(addr, n)
      <3>1. s2 = s1
        <4>1. B = << >>
          BY <2>2 DEF When
        <4> HIDE DEF B
        <4> QED BY <4>1, RunNone
      <3> HIDE DEF s2
      <3> QED BY <1>5, <2>2, <3>1, GrowsTrans
    <2> QED BY <2>1, <2>2
  <1> HIDE DEF s2
  <1>7. /\ Good(r, c) /\ Grows(s2, r) /\ KeepsReady(s2, r)
        /\ r.read = s2.read \o Bytes(c, addr, n)
        /\ \A k : Count(s2, k) => Count(r, k)
    <2>1. r = Do("fast", s2, Read(addr, n))
      BY RunOne
    <2> HIDE DEF r
    <2> QED BY <1>6, <2>1, FastRead
  <1> HIDE DEF r
  <1>8. Grows(s, r)
    BY <1>5, <1>6, <1>7, GrowsTrans
  <1>9. Tracked(r, L, c, addr.leaf) /\ (Crosses(addr, n) => Tracked(r, R, c, right))
    BY <1>5, <1>6, <1>7 DEF Grows
  <1>10. Ready(r, addr.leaf)
    BY <1>1, <1>5, <1>6, <1>7 DEF KeepsReady
  <1> HIDE DEF A, B, C
  <1> QED BY <1>4, <1>6, <1>7, <1>8, <1>9, <1>10 DEF right

\* A fetch across two leaves panics, having made one proof at most.
LEMMA FastFetchFails ==
    ASSUME NEW s, NEW c, Good(s, c), Count(s, 0), NEW addr \in Address, NEW n, Crosses(addr, n)
    PROVE  LET r == Run("fast", s, loadMem(addr, n, 0, NoProof))
           IN  /\ r.failed = TRUE
               /\ \E q : Good(q, c) /\ Grows(s, q) /\ r = Fail(q) /\ Tracked(q, 0, c, addr.leaf)
  <1> DEFINE A     == <<Track(addr.leaf, 0)>>
             mid   == <<IF NoProof = NoProof THEN Revert ELSE Track(NextLeaf(addr.leaf), NoProof)>>
             B     == When(Crosses(addr, n), mid)
             C     == <<Read(addr, n)>>
             s1    == Run("fast", s, A)
             s2    == Run("fast", s1, B)
             r     == Run("fast", s2, C)
  <1>1. addr.leaf \in Leaf
    BY DEF Address
  <1>2. IsSeq(mid) /\ IsSeq(A) /\ IsSeq(C)
    BY ShortSeq
  <1>3. IsSeq(B) /\ IsSeq(A \o B)
    BY <1>2, WhenSeq, Concat
  <1>4. Run("fast", s, loadMem(addr, n, 0, NoProof)) = r
    <2>1. loadMem(addr, n, 0, NoProof) = (A \o B) \o C
      BY DEF loadMem
    <2> HIDE DEF A, B, C
    <2>2. Run("fast", s, A \o B) = s2
      BY <1>2, <1>3, RunTwo
    <2>3. Run("fast", s, (A \o B) \o C) = Run("fast", Run("fast", s, A \o B), C)
      BY <1>2, <1>3, RunTwo
    <2> QED BY <2>1, <2>2, <2>3
  <1>5. Good(s1, c) /\ Grows(s, s1) /\ Tracked(s1, 0, c, addr.leaf)
    <2>1. s1 = Do("fast", s, Track(addr.leaf, 0))
      BY RunOne
    <2> HIDE DEF s1
    <2> QED BY <1>1, <2>1, FastTrack
  <1> HIDE DEF s1
  <1>6. s2 = Fail(s1)
    <2>1. B = <<Revert>>
      BY DEF When
    <2> HIDE DEF B
    <2>2. s2 = Do("fast", s1, Revert)
      BY <2>1, RunOne
    <2>3. Revert.kind = "revert"
      BY DEF Revert
    <2>4. fastDo(s1, Revert) = Fail(s1)
      <3> HIDE DEF Revert
      <3> QED BY <1>5, <2>3 DEF fastDo, Good
    <2> QED BY <2>2, <2>4 DEF Do
  <1>7. s2.failed = TRUE
    BY <1>5, <1>6 DEF Fail, Good
  <1> HIDE DEF s2
  <1>8. r = s2
    <2>1. r = Do("fast", s2, Read(addr, n))
      BY RunOne
    <2> QED BY <1>7, <2>1 DEF Do, fastDo
  <1> HIDE DEF r, A, B, C
  <1> QED BY <1>4, <1>5, <1>6, <1>7, <1>8


\* The left leaf of a store is proven, now or by the load before it.
LEMMA FastStoreLeft ==
    ASSUME NEW s, NEW c, Good(s, c), NEW leaf \in Leaf, NEW L, NEW R, NEW verify \in BOOLEAN,
           verify => Count(s, L) /\ R = L + 1,
           ~verify => Tracked(s, L, c, leaf) /\ Ready(s, leaf) /\ Count(s, R)
    PROVE  LET r == Run("fast", s, When(verify, <<Track(leaf, L)>>) \o <<Check(leaf, L)>>)
           IN  /\ Good(r, c) /\ Grows(s, r) /\ r.read = s.read
               /\ Tracked(r, L, c, leaf) /\ Ready(r, leaf) /\ Count(r, R)
  <1> DEFINE A  == When(verify, <<Track(leaf, L)>>)
             B  == <<Check(leaf, L)>>
             s1 == Run("fast", s, A)
             r  == Run("fast", s1, B)
  <1>1. IsSeq(A) /\ IsSeq(B)
    BY ShortSeq, WhenSeq
  <1>2. Run("fast", s, A \o B) = r
    <2> HIDE DEF A, B
    <2> QED BY <1>1, RunTwo
  <1>3. /\ Good(s1, c) /\ Grows(s, s1) /\ s1.read = s.read
        /\ Tracked(s1, L, c, leaf) /\ Ready(s1, leaf) /\ Count(s1, R)
    <2>1. CASE verify
      <3>1. s1 = Do("fast", s, Track(leaf, L))
        <4>1. A = <<Track(leaf, L)>>
          BY <2>1 DEF When
        <4> HIDE DEF A
        <4> QED BY <4>1, RunOne
      <3> HIDE DEF s1
      <3>2. /\ Good(s1, c) /\ Grows(s, s1) /\ KeepsReady(s, s1)
            /\ s1.read = s.read
            /\ Count(s1, L + 1) /\ Tracked(s1, L, c, leaf) /\ Ready(s1, leaf)
        BY <2>1, <3>1, FastTrack
      <3> QED BY <2>1, <3>2
    <2>2. CASE ~verify
      <3>1. s1 = s
        <4>1. A = << >>
          BY <2>2 DEF When
        <4> HIDE DEF A
        <4> QED BY <4>1, RunNone
      <3> HIDE DEF s1
      <3> QED BY <2>2, <3>1, GrowsTrans
    <2> QED BY <2>1, <2>2
  <1> HIDE DEF s1
  <1>4. r = s1
    <2>1. r = Do("fast", s1, Check(leaf, L))
      BY RunOne
    <2> QED BY <1>3, <2>1, FastCheck
  <1> HIDE DEF A, B, r
  <1> QED BY <1>2, <1>3, <1>4 DEF A, B

\* Nothing more has been read.
SameRead(s, r) == r.read = s.read

\* What a store finds of its left leaf: it is about to be proven, or it has been.
LeftReady(s, c, addr, dat, L, R, verify) ==
    /\ verify \in BOOLEAN /\ R # NoProof
    /\ verify => Count(s, L) /\ R = L + 1
    /\ ~verify => /\ Tracked(s, L, c, addr.leaf) /\ Ready(s, addr.leaf)
                  /\ Crosses(addr, Len(dat)) => Count(s, R)

\* A store changes the contents as the patches say, one leaf after the other.
LEMMA FastStore ==
    ASSUME NEW s, NEW c, Good(s, c), NEW addr \in Address, NEW dat \in Dat,
           NEW L, NEW R, NEW verify, LeftReady(s, c, addr, dat, L, R, verify),
           NEW yes, yes = TRUE
    PROVE  LET r == Run("fast", s, storeMem(addr, dat, L, R, verify, yes))
           IN  /\ Good(r, StoredIn(c, addr, dat)) /\ Grows(s, r) /\ SameRead(s, r)
               /\ Tracked(r, L, c, addr.leaf)
               /\ Crosses(addr, Len(dat)) =>
                     Tracked(r, R, LeftStored(c, addr, dat), NextLeaf(addr.leaf))
  <1> DEFINE left  == When(verify, <<Track(addr.leaf, L)>>) \o <<Check(addr.leaf, L)>>
             right == NextLeaf(addr.leaf)
             fit   == LeafBytes - addr.byte
             N     == Len(dat)
             dl    == SubSeq(dat, 1, fit)
             dr    == SubSeq(dat, fit + 1, N)
             at    == [leaf |-> right, byte |-> 0]
             s1    == Run("fast", s, left)
             e     == LeftStored(c, addr, dat)
  <1>0. /\ verify \in BOOLEAN /\ R # NoProof
        /\ verify => Count(s, L) /\ R = L + 1
        /\ ~verify => /\ Tracked(s, L, c, addr.leaf) /\ Ready(s, addr.leaf)
                      /\ Crosses(addr, Len(dat)) => Count(s, R)
    BY DEF LeftReady
  <1>1. addr.leaf \in Leaf /\ right \in Leaf
    BY LeafParts DEF Address
  <1>2. IsSeq(left)
    <2>1. IsSeq(<<Track(addr.leaf, L)>>) /\ IsSeq(<<Check(addr.leaf, L)>>)
      BY ShortSeq
    <2> QED BY <2>1, WhenSeq, Concat
  <1>3. CASE ~Crosses(addr, N)
    <2>1. storeMem(addr, dat, L, R, verify, yes) = left \o <<Write(addr, dat)>>
      BY <1>3 DEF storeMem
    <2> HIDE DEF left
    <2>2. IsSeq(<<Write(addr, dat)>>)
      BY ShortSeq
    <2> DEFINE r == Do("fast", s1, Write(addr, dat))
    <2>3. Run("fast", s, left \o <<Write(addr, dat)>>) = r
      <3>1. Run("fast", s, left \o <<Write(addr, dat)>>) = Run("fast", s1, <<Write(addr, dat)>>)
        BY <1>2, <2>2, RunTwo
      <3> HIDE DEF s1
      <3> QED BY <3>1, RunOne
    <2>4. /\ Good(s1, c) /\ Grows(s, s1) /\ s1.read = s.read
          /\ Tracked(s1, L, c, addr.leaf) /\ Ready(s1, addr.leaf)
      <3> DEFINE Q == IF verify THEN L + 1 ELSE Len(s.memProofs)
      <3>1. /\ verify => Count(s, L) /\ Q = L + 1
            /\ ~verify => Tracked(s, L, c, addr.leaf) /\ Ready(s, addr.leaf) /\ Count(s, Q)
        BY <1>0 DEF Count
      <3> HIDE DEF Q
      <3>2. /\ Good(s1, c) /\ Grows(s, s1) /\ s1.read = s.read
            /\ Tracked(s1, L, c, addr.leaf) /\ Ready(s1, addr.leaf) /\ Count(s1, Q)
        BY <1>0, <1>1, <3>1, FastStoreLeft DEF left
      <3> QED BY <3>2
    <2> HIDE DEF s1
    <2>5. addr.byte + Len(dat) <= LeafBytes
      BY <1>3, DatSeq, PageAssumption DEF Crosses, Address
    <2>6. /\ Good(r, PutLeaf(c, addr.leaf, addr.byte, dat, 1, Len(dat))) /\ Grows(s1, r)
          /\ r.read = s1.read
          /\ \A k : Count(s1, k) => Count(r, k)
      BY <2>4, <2>5, FastDoWrite
    <2> HIDE DEF r
    <2>7. Good(r, StoredIn(c, addr, dat))
      BY <1>3, <2>6, PutLeft DEF StoredIn
    <2>8. Grows(s, r) /\ Tracked(r, L, c, addr.leaf)
      BY <2>4, <2>6, GrowsTrans DEF Grows
    <2> QED BY <1>3, <2>1, <2>3, <2>4, <2>6, <2>7, <2>8 DEF SameRead
  <1>4. CASE Crosses(addr, N)
    <2> DEFINE a1 == left
               a2 == When(R = NoProof, <<Revert>>)
               a3 == <<Write(addr, dl)>>
               a4 == When(yes, <<Track(right, R)>>)
               a5 == <<Check(right, R)>> \o <<Write(at, dr)>>
               s2 == Run("fast", s1, a2)
               s3 == Run("fast", s2, a3)
               s4 == Run("fast", s3, a4)
               r  == Run("fast", s4, a5)
    <2>1. storeMem(addr, dat, L, R, verify, yes) = (((a1 \o a2) \o a3) \o a4) \o a5
      <3>1. <<Check(right, R), Write(at, dr)>> = a5
        BY ShortSeq
      <3> HIDE DEF a5
      <3> QED BY <1>4, <3>1 DEF storeMem
    <2>2. IsSeq(a1) /\ IsSeq(a2) /\ IsSeq(a3) /\ IsSeq(a4) /\ IsSeq(a5)
      <3>1. /\ IsSeq(<<Revert>>) /\ IsSeq(a3) /\ IsSeq(<<Track(right, R)>>)
            /\ IsSeq(<<Check(right, R)>>) /\ IsSeq(<<Write(at, dr)>>)
        BY ShortSeq
      <3> QED BY <1>2, <3>1, WhenSeq, Concat
    <2>3. IsSeq(a1 \o a2) /\ IsSeq((a1 \o a2) \o a3) /\ IsSeq(((a1 \o a2) \o a3) \o a4)
      <3> HIDE DEF a1, a2, a3, a4
      <3> QED BY <2>2, Concat
    <2>4. Run("fast", s, (((a1 \o a2) \o a3) \o a4) \o a5) = r
      <3> HIDE DEF a1, a2, a3, a4, a5
      <3>1. Run("fast", s, a1 \o a2) = s2
        BY <2>2, <2>3, RunTwo DEF a1
      <3>2. Run("fast", s, (a1 \o a2) \o a3) = s3
        BY <2>2, <2>3, <3>1, RunTwo
      <3>3. Run("fast", s, ((a1 \o a2) \o a3) \o a4) = s4
        BY <2>2, <2>3, <3>2, RunTwo
      <3> QED BY <2>2, <2>3, <3>3, RunTwo
    <2>5. /\ Good(s1, c) /\ Grows(s, s1) /\ s1.read = s.read
          /\ Tracked(s1, L, c, addr.leaf) /\ Ready(s1, addr.leaf) /\ Count(s1, R)
      BY <1>0, <1>1, <1>4, FastStoreLeft
    <2>6. s2 = s1
      <3>1. a2 = << >>
        BY <1>0 DEF When
      <3> HIDE DEF a2, s1
      <3> QED BY <3>1, RunNone
    <2> HIDE DEF s1, s2
    <2>7. /\ dl \in Dat /\ addr.byte + Len(dl) <= LeafBytes
          /\ PutLeaf(c, addr.leaf, addr.byte, dl, 1, Len(dl)) = e
          /\ dr \in Dat /\ Len(dr) <= LeafBytes
          /\ PutLeaf(e, right, 0, dr, 1, Len(dr)) = RightStored(e, addr, dat)
      BY <1>4, PutParts
    <2> HIDE DEF dl, dr, e, right
    <2>8. /\ Good(s3, e) /\ Grows(s1, s3) /\ s3.read = s1.read /\ Count(s3, R)
      <3>1. s3 = Do("fast", s1, Write(addr, dl))
        BY <2>6, RunOne
      <3> HIDE DEF s3
      <3>2. /\ Good(s3, PutLeaf(c, addr.leaf, addr.byte, dl, 1, Len(dl))) /\ Grows(s1, s3)
            /\ s3.read = s1.read
            /\ \A k : Count(s1, k) => Count(s3, k)
        BY <2>5, <2>7, <3>1, FastDoWrite
      <3> QED BY <2>5, <2>7, <3>2
    <2> HIDE DEF s3
    <2>9. /\ Good(s4, e) /\ Grows(s3, s4) /\ KeepsReady(s3, s4)
          /\ s4.read = s3.read
          /\ Count(s4, R + 1) /\ Tracked(s4, R, e, right) /\ Ready(s4, right)
      <3>1. s4 = Do("fast", s3, Track(right, R))
        <4>1. a4 = <<Track(right, R)>>
          BY DEF When
        <4> HIDE DEF a4
        <4> QED BY <4>1, RunOne
      <3> HIDE DEF s4
      <3> QED BY <1>1, <2>8, <3>1, FastTrack
    <2> HIDE DEF s4
    <2>10. /\ Good(r, RightStored(e, addr, dat)) /\ Grows(s4, r)
           /\ r.read = s4.read
      <3>1. r = Do("fast", Do("fast", s4, Check(right, R)), Write(at, dr))
        <4>1. IsSeq(<<Check(right, R)>>) /\ IsSeq(<<Write(at, dr)>>)
          BY ShortSeq
        <4>2. r = Run("fast", Run("fast", s4, <<Check(right, R)>>), <<Write(at, dr)>>)
          BY <4>1, RunTwo
        <4> HIDE DEF r
        <4> QED BY <4>2, RunOne
      <3>2. Do("fast", s4, Check(right, R)) = s4
        BY <2>9, FastCheck
      <3> HIDE DEF r
      <3>3. r = Do("fast", s4, Write(at, dr))
        BY <3>1, <3>2
      <3>4. at \in Address /\ at.leaf = right /\ at.byte = 0 /\ at.byte + Len(dr) <= LeafBytes
        <4>1. at \in Address /\ at.leaf = right /\ at.byte = 0
          BY <1>1, PageAssumption DEF Address
        <4>2. 0 + Len(dr) <= LeafBytes
          BY <2>7, DatSeq, PageAssumption
        <4> HIDE DEF at
        <4> QED BY <4>1, <4>2
      <3> HIDE DEF at
      <3>5. /\ Good(r, PutLeaf(e, at.leaf, at.byte, dr, 1, Len(dr))) /\ Grows(s4, r)
            /\ r.read = s4.read
            /\ \A k : Count(s4, k) => Count(r, k)
        BY <2>7, <2>9, <3>3, <3>4, FastDoWrite
      <3> QED BY <2>7, <3>4, <3>5
    <2> HIDE DEF r
    <2>11. Good(r, StoredIn(c, addr, dat))
      BY <1>4, <2>10 DEF StoredIn, e
    <2>12. Grows(s1, r) /\ Grows(s, r) /\ r.read = s.read
      BY <2>5, <2>8, <2>9, <2>10, GrowsTrans
    <2>13. Tracked(r, L, c, addr.leaf) /\ Tracked(r, R, e, right)
      BY <2>5, <2>9, <2>10, <2>12 DEF Grows
    <2> HIDE DEF a1, a2, a3, a4, a5
    <2> QED BY <2>1, <2>4, <2>11, <2>12, <2>13 DEF e, right, SameRead
  <1> QED BY <1>3, <1>4


\* The leaf that was read last is that of the contents.
LEMMA LastLeafRead ==
    ASSUME NEW s, NEW c, NEW at, at.byte = 0, c[at.leaf] \in LeafData, NEW old, IsSeq(old),
           s.read = old \o Bytes(c, at, LeafBytes)
    PROVE  LastLeaf(s) = c[at.leaf]
  <1> DEFINE B == Bytes(c, at, LeafBytes)
             x == Len(old)
             y == Len(s.read)
  <1>1. LeafBytes \in Nat
    BY PageAssumption
  <1>2. IsSeq(B) /\ Len(B) = LeafBytes
    BY <1>1, BytesSeq
  <1>3. x \in Nat /\ y = x + LeafBytes /\ \A i \in 1..LeafBytes : s.read[x + i] = B[i]
    <2>1. s.read = old \o B
      OBVIOUS
    <2> HIDE DEF B
    <2>2. /\ IsSeq(old \o B)
          /\ Len(old) \in Nat /\ Len(B) \in Nat
          /\ Len(old \o B) = Len(old) + Len(B)
          /\ \A i \in 1..Len(old) : (old \o B)[i] = old[i]
          /\ \A i \in 1..Len(B) : (old \o B)[Len(old) + i] = B[i]
      <3>1. IsSeq(B)
        BY <1>2
      <3> QED BY <3>1, Concat, SMTT(30)
    <2> QED BY <1>2, <2>1, <2>2
  <1> HIDE DEF x, y
  <1>4. ASSUME NEW b \in 0..(LeafBytes - 1)
        PROVE  s.read[y - LeafBytes + 1 + b] = c[at.leaf][b]
    <2>1. /\ y - LeafBytes + 1 + b = x + (b + 1) /\ b + 1 \in 1..LeafBytes
          /\ 0 + (b + 1) <= LeafBytes /\ 0 + (b + 1) - 1 = b
      BY <1>1, <1>3
    <2>2. B[b + 1] = c[at.leaf][b]
      BY <2>1 DEF Bytes
    <2> HIDE DEF B
    <2> QED BY <1>3, <2>1, <2>2
  <1>5. c[at.leaf] = [b \in 0..(LeafBytes - 1) |-> c[at.leaf][b]]
    BY DEF LeafData
  <1> QED BY <1>4, <1>5 DEF LastLeaf, y

\* The part of readPreimageValue that writes: the leaf that was read, patched.
LEMMA FastPatch ==
    ASSUME NEW s, NEW c, Good(s, c), NEW addr \in Address, NEW dat \in Dat, NEW n,
           Tracked(s, n, c, addr.leaf), Ready(s, addr.leaf), NEW old, IsSeq(old),
           s.read = old \o Bytes(c, [leaf |-> addr.leaf, byte |-> 0], LeafBytes)
    PROVE  LET r == Run("fast", s, setMemoryB32(addr, dat, n))
           IN  Good(r, LeftStored(c, addr, dat)) /\ Grows(s, r) /\ SameRead(s, r)
  <1> DEFINE p     == WritePatched(addr, dat)
             r     == Do("fast", s, p)
             at    == [addr EXCEPT !.byte = 0]
             new   == LeftPatch(c[addr.leaf], addr, dat)
             whole == [i \in 1..LeafBytes |-> new[i - 1]]
  <1>1. addr.leaf \in Leaf /\ c[addr.leaf] \in LeafData
    BY ContentsType DEF Address, Good
  <1>2. Run("fast", s, setMemoryB32(addr, dat, n)) = r
    <2>1. setMemoryB32(addr, dat, n) = <<Check(addr.leaf, n)>> \o <<p>>
      BY ShortSeq DEF setMemoryB32
    <2>2. IsSeq(<<Check(addr.leaf, n)>>) /\ IsSeq(<<p>>)
      BY ShortSeq
    <2> HIDE DEF p
    <2>3. Run("fast", s, <<Check(addr.leaf, n)>> \o <<p>>)
            = Run("fast", Run("fast", s, <<Check(addr.leaf, n)>>), <<p>>)
      BY <2>2, RunTwo
    <2>4. Run("fast", s, <<Check(addr.leaf, n)>>) = Do("fast", s, Check(addr.leaf, n))
      BY RunOne
    <2>5. Do("fast", s, Check(addr.leaf, n)) = s
      BY FastCheck
    <2>6. Run("fast", s, <<p>>) = r
      BY RunOne
    <2> QED BY <2>1, <2>3, <2>4, <2>5, <2>6
  <1>3. LastLeaf(s) = c[addr.leaf]
    <2> DEFINE a == [leaf |-> addr.leaf, byte |-> 0]
    <2>1. a.byte = 0 /\ a.leaf = addr.leaf /\ s.read = old \o Bytes(c, a, LeafBytes)
      OBVIOUS
    <2> HIDE DEF a
    <2>2. LastLeaf(s) = c[a.leaf]
      BY <1>1, <2>1, LastLeafRead
    <2> QED BY <2>1, <2>2
  <1>4. p.kind = "patch" /\ p.addr = addr /\ p.dat = dat
    BY DEF WritePatched
  <1> HIDE DEF p, new
  <1>5. r = [s EXCEPT !.mem = SetUnaligned(@, at, whole)]
    <2>1. LeftPatch(LastLeaf(s), p.addr, p.dat) = new
      BY <1>3, <1>4 DEF new
    <2>2. fastDo(s, p) =
            LET w == LeftPatch(LastLeaf(s), p.addr, p.dat)
            IN  [s EXCEPT !.mem = SetUnaligned(@, [p.addr EXCEPT !.byte = 0],
                                               [i \in 1..LeafBytes |-> w[i - 1]])]
      BY <1>4 DEF fastDo, Good
    <2>3. fastDo(s, p) = [s EXCEPT !.mem = SetUnaligned(@, at, whole)]
      BY <1>4, <2>1, <2>2
    <2> QED BY <2>3 DEF Do
  <1> HIDE DEF r
  <1>6. /\ whole \in Dat /\ Len(whole) = LeafBytes
        /\ PutLeaf(c, addr.leaf, 0, whole, 1, LeafBytes) = LeftStored(c, addr, dat)
    BY <1>1, PutWhole DEF new
  <1> HIDE DEF whole
  <1>7. at \in Address /\ at.leaf = addr.leaf /\ at.byte = 0
    BY PageAssumption DEF Address
  <1> HIDE DEF at
  <1>8. /\ DOMAIN r = DOMAIN s /\ r.mem = SetUnaligned(s.mem, at, whole)
        /\ r.read = s.read /\ r.failed = s.failed /\ r.memProofEnabled = s.memProofEnabled
        /\ r.memProofs = s.memProofs /\ r.memAccess = s.memAccess
    BY <1>5 DEF Good
  <1>9. at.byte + Len(whole) <= LeafBytes /\ Ready(s, at.leaf)
    BY <1>6, <1>7, PageAssumption
  <1>10. /\ Good(r, PutLeaf(c, at.leaf, at.byte, whole, 1, Len(whole))) /\ Grows(s, r)
         /\ r.read = s.read
         /\ \A k : Count(s, k) => Count(r, k)
    BY <1>6, <1>7, <1>8, <1>9, FastWrite
  <1> QED BY <1>2, <1>6, <1>7, <1>10 DEF SameRead

-----------------------------------------------------------------------------
(* The slow VM.                                                            *)

\* A step on chain that is going well, where the contents are c.
OnTrack(t, c) ==
    /\ DOMAIN t = {"memRoot", "proofs", "read", "failed"}
    /\ t.memRoot = Tree(c)[Root]
    /\ t.failed = FALSE

\* The witness has the proof of a leaf at an index.
Witnessed(t, i, c, leaf) ==
    i \in Nat /\ i < Len(t.proofs) /\ t.proofs[i + 1] = ProofOf(c, leaf)

\* A leaf that is in the witness is accepted.
LEMMA SlowTrack ==
    ASSUME NEW t, NEW c, OnTrack(t, c), NEW leaf \in Leaf, NEW n, Witnessed(t, n, c, leaf),
           Len(t.proofs) \in Nat
    PROVE  Do("slow", t, Track(leaf, n)) = t
  <1> DEFINE p == Track(leaf, n)
             q == t.proofs[n + 1]
  <1>1. p.kind = "track" /\ p.leaf = leaf /\ p.index = n
    BY DEF Track
  <1> HIDE DEF p
  <1>2. slowDo(t, p) = slowGet(t, leaf, n)
    BY <1>1 DEF slowDo, OnTrack
  <1>3. q.leaf = c[leaf] /\ q.siblings = ProofOf(c, leaf).siblings
    <2>1. q = ProofOf(c, leaf)
      BY DEF Witnessed
    <2>2. ProofOf(c, leaf).leaf = c[leaf]
      BY DEF ProofOf
    <2> HIDE DEF q
    <2> QED BY <2>1, <2>2
  <1> HIDE DEF q
  <1>4. FoldProof(leaf, q.leaf, q.siblings) = t.memRoot
    <2>1. FoldProof(leaf, c[leaf], ProofOf(c, leaf).siblings) = Tree(c)[Root]
      BY FoldProofRoot
    <2> QED BY <1>3, <2>1 DEF OnTrack
  <1>5. ~(n >= Len(t.proofs))
    BY DEF Witnessed
  <1>6. slowGet(t, leaf, n) = t
    BY <1>4, <1>5 DEF slowGet, q
  <1> QED BY <1>2, <1>6 DEF Do, p

\* A load on chain takes the bytes of the contents.
LEMMA SlowLoad ==
    ASSUME NEW t, NEW c, OnTrack(t, c), NEW addr \in Address, NEW n \in Nat, NEW L, NEW R,
           Len(t.proofs) \in Nat, Witnessed(t, L, c, addr.leaf),
           Crosses(addr, n) => R # NoProof /\ Witnessed(t, R, c, NextLeaf(addr.leaf))
    PROVE  LET u == Run("slow", t, slowLoadMem(addr, n, L, R))
           IN  OnTrack(u, c) /\ u.proofs = t.proofs /\ u.read = t.read \o Bytes(c, addr, n)
  <1> DEFINE right == NextLeaf(addr.leaf)
             mid   == <<IF R = NoProof THEN Revert ELSE Track(right, R)>>
             A     == <<Track(addr.leaf, L)>>
             B     == When(Crosses(addr, n), mid)
             p     == SlowTake(addr, n, L, R)
             C     == <<p>>
             t1    == Run("slow", t, A)
             t2    == Run("slow", t1, B)
             u     == Run("slow", t2, C)
  <1>1. addr.leaf \in Leaf /\ right \in Leaf /\ addr.byte \in Nat
    BY LeafParts, PageAssumption DEF Address
  <1>2. IsSeq(mid) /\ IsSeq(A) /\ IsSeq(C)
    BY ShortSeq
  <1>3. IsSeq(B) /\ IsSeq(A \o B)
    BY <1>2, WhenSeq, Concat
  <1>4. Run("slow", t, slowLoadMem(addr, n, L, R)) = u
    <2>1. slowLoadMem(addr, n, L, R) = (A \o B) \o C
      BY DEF slowLoadMem
    <2> HIDE DEF A, B, C
    <2> QED BY <1>2, <1>3, <2>1, RunTwo
  <1>5. t1 = t
    <2>1. t1 = Do("slow", t, Track(addr.leaf, L))
      BY RunOne
    <2> HIDE DEF t1
    <2> QED BY <1>1, <2>1, SlowTrack
  <1> HIDE DEF t1, right
  <1>6. t2 = t
    <2>1. CASE Crosses(addr, n)
      <3>1. t2 = Do("slow", t1, Track(right, R))
        <4>1. B = <<Track(right, R)>>
          BY <2>1 DEF When
        <4> HIDE DEF B
        <4> QED BY <4>1, RunOne
      <3>2. Witnessed(t, R, c, right)
        BY <2>1 DEF right
      <3> HIDE DEF t2
      <3> QED BY <1>1, <1>5, <3>1, <3>2, SlowTrack
    <2>2. CASE ~Crosses(addr, n)
      <3>1. B = << >>
        BY <2>2 DEF When
      <3> HIDE DEF B
      <3> QED BY <1>5, <3>1, RunNone
    <2> QED BY <2>1, <2>2
  <1>7. u = Do("slow", t2, p)
    BY RunOne
  <1> HIDE DEF t2, u
  <1>8. p.kind = "take" /\ p.addr = addr /\ p.n = n /\ p.l = L /\ p.r = R
    BY DEF SlowTake
  <1> HIDE DEF p
  <1>9. slowBytes(t, addr, n, L, R) = Bytes(c, addr, n)
    <2>1. slowLeaf(t, L) = c[addr.leaf] /\ (Crosses(addr, n) => slowLeaf(t, R) = c[right])
      <3>1. /\ t.proofs[L + 1] = ProofOf(c, addr.leaf)
            /\ Crosses(addr, n) => t.proofs[R + 1] = ProofOf(c, right)
        BY DEF Witnessed, right
      <3>2. ProofOf(c, addr.leaf).leaf = c[addr.leaf] /\ ProofOf(c, right).leaf = c[right]
        BY DEF ProofOf
      <3> QED BY <3>1, <3>2 DEF slowLeaf
    <2>2. ASSUME NEW i \in 1..n, ~(addr.byte + i <= LeafBytes) PROVE Crosses(addr, n)
      BY <1>1, <2>2, PageAssumption DEF Crosses
    <2> QED BY <2>1, <2>2 DEF slowBytes, Bytes, right
  <1>10. u = [t EXCEPT !.read = @ \o Bytes(c, addr, n)]
    <2>1. slowDo(t, p) = [t EXCEPT !.read = @ \o slowBytes(t, p.addr, p.n, p.l, p.r)]
      BY <1>8 DEF slowDo, OnTrack
    <2> QED BY <1>6, <1>7, <1>8, <1>9, <2>1 DEF Do
  <1>11. OnTrack(u, c) /\ u.proofs = t.proofs /\ u.read = t.read \o Bytes(c, addr, n)
    BY <1>10 DEF OnTrack
  <1> HIDE DEF A, B, C
  <1> QED BY <1>4, <1>11


\* A patch of a witnessed leaf leads to the root of the patched contents.
LEMMA SlowPatched ==
    ASSUME NEW t, NEW c, OnTrack(t, c), NEW leaf \in Leaf, NEW n, Witnessed(t, n, c, leaf),
           NEW v, NEW e, e[leaf] = v, \A l \in Leaf : l # leaf => e[l] = c[l],
           NEW u, u = slowSetMemoryB32(t, leaf, v, n)
    PROVE  OnTrack(u, e) /\ u.proofs = t.proofs /\ u.read = t.read
  <1>1. u = [t EXCEPT !.memRoot = FoldProof(leaf, v, t.proofs[n + 1].siblings)]
    BY DEF slowSetMemoryB32
  <1>2. t.proofs[n + 1].siblings = ProofOf(c, leaf).siblings
    BY DEF Witnessed
  <1>3. FoldProof(leaf, v, t.proofs[n + 1].siblings) = Tree(e)[Root]
    BY <1>2, FoldProofRoot
  <1>4. u = [t EXCEPT !.memRoot = Tree(e)[Root]]
    BY <1>1, <1>3
  <1> QED BY <1>4 DEF OnTrack

\* The patch of the left leaf of a store,
LEMMA SlowLeft ==
    ASSUME NEW t, NEW c, OnTrack(t, c), NEW addr \in Address, NEW dat, NEW n,
           Witnessed(t, n, c, addr.leaf)
    PROVE  LET u == Do("slow", t, SlowPatch("left", addr, dat, n))
           IN  OnTrack(u, LeftStored(c, addr, dat)) /\ u.proofs = t.proofs /\ u.read = t.read
  <1> DEFINE p == SlowPatch("left", addr, dat, n)
             u == Do("slow", t, p)
             v == LeftPatch(c[addr.leaf], addr, dat)
             e == LeftStored(c, addr, dat)
  <1>1. p.kind = "left" /\ p.addr = addr /\ p.dat = dat /\ p.index = n
    BY DEF SlowPatch
  <1> HIDE DEF p
  <1>2. addr.leaf \in Leaf
    BY DEF Address
  <1>3. slowLeaf(t, n) = c[addr.leaf]
    <2>1. slowLeaf(t, n) = ProofOf(c, addr.leaf).leaf
      BY DEF Witnessed, slowLeaf
    <2> QED BY <2>1 DEF ProofOf
  <1>4. u = slowSetMemoryB32(t, addr.leaf, v, n)
    <2>1. slowDo(t, p) = slowSetMemoryB32(t, p.addr.leaf,
                                         LeftPatch(slowLeaf(t, p.index), p.addr, p.dat), p.index)
      BY <1>1 DEF slowDo, OnTrack
    <2> QED BY <1>1, <1>3, <2>1 DEF Do
  <1>5. e[addr.leaf] = v /\ \A l \in Leaf : l # addr.leaf => e[l] = c[l]
    BY <1>2 DEF LeftStored
  <1> HIDE DEF u, v, e
  <1>6. OnTrack(u, e) /\ u.proofs = t.proofs /\ u.read = t.read
    BY <1>2, <1>4, <1>5, SlowPatched
  <1> QED BY <1>6 DEF u, e, p

\* and that of the right one.
LEMMA SlowRight ==
    ASSUME NEW t, NEW c, OnTrack(t, c), NEW addr \in Address, NEW dat, NEW n,
           Witnessed(t, n, c, NextLeaf(addr.leaf))
    PROVE  LET u == Do("slow", t, SlowPatch("right", addr, dat, n))
           IN  OnTrack(u, RightStored(c, addr, dat)) /\ u.proofs = t.proofs /\ u.read = t.read
  <1> DEFINE p == SlowPatch("right", addr, dat, n)
             u == Do("slow", t, p)
             q == NextLeaf(addr.leaf)
             v == RightPatch(c[q], addr, dat)
             e == RightStored(c, addr, dat)
  <1>1. p.kind = "right" /\ p.addr = addr /\ p.dat = dat /\ p.index = n
    BY DEF SlowPatch
  <1> HIDE DEF p
  <1>2. q \in Leaf
    BY LeafParts DEF Address
  <1>3. slowLeaf(t, n) = c[q]
    <2>1. slowLeaf(t, n) = ProofOf(c, q).leaf
      BY DEF Witnessed, slowLeaf
    <2> QED BY <2>1 DEF ProofOf
  <1>4. u = slowSetMemoryB32(t, q, v, n)
    <2>1. slowDo(t, p) = slowSetMemoryB32(t, NextLeaf(p.addr.leaf),
                                         RightPatch(slowLeaf(t, p.index), p.addr, p.dat), p.index)
      BY <1>1 DEF slowDo, OnTrack
    <2> QED BY <1>1, <1>3, <2>1 DEF Do
  <1>5. e[q] = v /\ \A l \in Leaf : l # q => e[l] = c[l]
    BY <1>2 DEF RightStored
  <1>6. Witnessed(t, n, c, q)
    OBVIOUS
  <1> HIDE DEF u, v, e, q
  <1>7. OnTrack(u, e) /\ u.proofs = t.proofs /\ u.read = t.read
    BY <1>2, <1>4, <1>5, <1>6, SlowPatched
  <1> QED BY <1>7 DEF u, e, p

\* A store on chain leads to the root of the contents after the store.
LEMMA SlowStore ==
    ASSUME NEW t, NEW c, OnTrack(t, c), NEW addr \in Address, NEW dat \in Dat, NEW L, NEW R,
           R # NoProof, Len(t.proofs) \in Nat, Witnessed(t, L, c, addr.leaf),
           Crosses(addr, Len(dat)) =>
               Witnessed(t, R, LeftStored(c, addr, dat), NextLeaf(addr.leaf))
    PROVE  LET u == Run("slow", t, slowStoreMem(addr, dat, L, R))
           IN  /\ OnTrack(u, StoredIn(c, addr, dat))
               /\ u.proofs = t.proofs /\ u.read = t.read
  <1> DEFINE right == NextLeaf(addr.leaf)
             e     == LeftStored(c, addr, dat)
             pl    == SlowPatch("left", addr, dat, L)
             pr    == SlowPatch("right", addr, dat, R)
             a1    == <<Track(addr.leaf, L)>> \o <<pl>>
             none  == When(R = NoProof, <<Revert>>)
             a2    == none \o (<<Track(right, R)>> \o <<pr>>)
             t1    == Run("slow", t, a1)
  <1>1. addr.leaf \in Leaf /\ right \in Leaf
    BY LeafParts DEF Address
  <1>2. slowStoreMem(addr, dat, L, R) = a1 \o When(Crosses(addr, Len(dat)), a2)
    <2>1. /\ <<Track(addr.leaf, L), pl>> = a1
          /\ <<Track(right, R), pr>> = <<Track(right, R)>> \o <<pr>>
      BY ShortSeq
    <2> HIDE DEF a1, pl, pr
    <2>2. none \o <<Track(right, R), pr>> = a2
      BY <2>1
    <2> HIDE DEF a2
    <2> QED BY <2>1, <2>2 DEF slowStoreMem, pl, pr
  <1>3. /\ IsSeq(a1) /\ IsSeq(none) /\ IsSeq(a2) /\ none = << >>
        /\ IsSeq(<<Track(right, R)>> \o <<pr>>)
    <2>1. /\ IsSeq(<<Track(addr.leaf, L)>>) /\ IsSeq(<<pl>>) /\ IsSeq(<<Track(right, R)>>)
          /\ IsSeq(<<pr>>) /\ none = << >> /\ IsSeq(<< >>)
      BY ShortSeq DEF When
    <2> HIDE DEF pl, pr, none
    <2> QED BY <2>1, Concat
  <1> HIDE DEF a2
  <1>4. IsSeq(When(Crosses(addr, Len(dat)), a2))
    BY <1>3, WhenSeq
  <1>5. Run("slow", t, slowStoreMem(addr, dat, L, R))
          = Run("slow", t1, When(Crosses(addr, Len(dat)), a2))
    <2> HIDE DEF a1
    <2> QED BY <1>2, <1>3, <1>4, RunTwo
  <1>6. OnTrack(t1, e) /\ t1.proofs = t.proofs /\ t1.read = t.read
    <2>1. t1 = Do("slow", Do("slow", t, Track(addr.leaf, L)), pl)
      <3>1. IsSeq(<<Track(addr.leaf, L)>>) /\ IsSeq(<<pl>>)
        BY ShortSeq
      <3> HIDE DEF pl
      <3>2. t1 = Run("slow", Run("slow", t, <<Track(addr.leaf, L)>>), <<pl>>)
        BY <3>1, RunTwo
      <3> HIDE DEF t1
      <3> QED BY <3>2, RunOne
    <2>2. Do("slow", t, Track(addr.leaf, L)) = t
      BY <1>1, SlowTrack
    <2> HIDE DEF t1
    <2>3. t1 = Do("slow", t, pl)
      BY <2>1, <2>2
    <2>4. LET u == Do("slow", t, pl)
          IN  OnTrack(u, e) /\ u.proofs = t.proofs /\ u.read = t.read
      BY SlowLeft
    <2> QED BY <2>3, <2>4
  <1> HIDE DEF t1, e
  <1>7. CASE ~Crosses(addr, Len(dat))
    <2>1. When(Crosses(addr, Len(dat)), a2) = << >>
      BY <1>7 DEF When
    <2>2. Run("slow", t1, << >>) = t1
      BY RunNone
    <2>3. StoredIn(c, addr, dat) = e
      BY <1>7 DEF StoredIn, e
    <2> HIDE DEF a1
    <2> QED BY <1>5, <1>6, <2>1, <2>2, <2>3
  <1>8. CASE Crosses(addr, Len(dat))
    <2> DEFINE u == Run("slow", t1, a2)
    <2>1. When(Crosses(addr, Len(dat)), a2) = a2
      BY <1>8 DEF When
    <2>2. Witnessed(t1, R, e, right) /\ Len(t1.proofs) \in Nat
      BY <1>6, <1>8 DEF Witnessed, e
    <2>3. u = Do("slow", Do("slow", t1, Track(right, R)), pr)
      <3> DEFINE both == <<Track(right, R)>> \o <<pr>>
      <3>1. IsSeq(<<Track(right, R)>>) /\ IsSeq(<<pr>>)
        BY ShortSeq
      <3> HIDE DEF pr
      <3>2. Run("slow", t1, both) = Run("slow", Run("slow", t1, <<Track(right, R)>>), <<pr>>)
        BY <3>1, RunTwo
      <3>3. Run("slow", t1, both) = Do("slow", Do("slow", t1, Track(right, R)), pr)
        <4> HIDE DEF both
        <4> QED BY <3>2, RunOne
      <3>4. a2 = none \o both
        BY DEF a2
      <3> HIDE DEF both
      <3>5. Run("slow", t1, a2) = Run("slow", Run("slow", t1, none), both)
        <4>1. IsSeq(none) /\ IsSeq(both)
          BY <1>3 DEF both
        <4> HIDE DEF none
        <4> QED BY <3>4, <4>1, RunTwo
      <3>6. Run("slow", t1, none) = t1
        BY <1>3, RunNone
      <3> QED BY <3>3, <3>5, <3>6
    <2>4. Do("slow", t1, Track(right, R)) = t1
      BY <1>1, <1>6, <2>2, SlowTrack
    <2> HIDE DEF u
    <2>5. u = Do("slow", t1, pr)
      BY <2>3, <2>4
    <2>6. LET w == Do("slow", t1, pr)
          IN  OnTrack(w, RightStored(e, addr, dat)) /\ w.proofs = t1.proofs /\ w.read = t1.read
      BY <1>6, <2>2, SlowRight
    <2>7. StoredIn(c, addr, dat) = RightStored(e, addr, dat)
      BY <1>8 DEF StoredIn, e
    <2> HIDE DEF a1
    <2> QED BY <1>5, <1>6, <2>1, <2>5, <2>6, <2>7 DEF u
  <1> QED BY <1>7, <1>8

\* After a failure nothing more happens.
LEMMA Stuck ==
    ASSUME NEW vm, NEW s, s.failed = TRUE, NEW ops, IsSeq(ops)
    PROVE  Run(vm, s, ops) = s
  <1> DEFINE f == [i \in 0..Len(ops) |-> s]
  <1>1. Len(ops) \in Nat
    BY Concat
  <1>2. \A p : Do(vm, s, p) = s
    BY DEF Do, fastDo, slowDo
  <1>3. ASSUME NEW i \in 0..Len(ops)
        PROVE  f[i] = IF i = 0 THEN s ELSE Do(vm, f[i - 1], ops[i])
    <2>1. i # 0 => i - 1 \in 0..Len(ops)
      BY <1>1
    <2>2. f[i] = s /\ (i # 0 => f[i - 1] = s)
      BY <2>1
    <2> HIDE DEF f
    <2> QED BY <1>2, <2>2
  <1>4. f = [i \in 0..Len(ops) |-> f[i]]
    OBVIOUS
  <1>5. f[Len(ops)] = s
    BY <1>1
  <1> HIDE DEF f
  <1>6. IsRun(vm, f, s, ops)
    BY <1>3, <1>4 DEF IsRun
  <1> QED BY <1>1, <1>5, <1>6, RunEnds

\* A fetch across two leaves is not provable on chain either.
LEMMA SlowFetchFails ==
    ASSUME NEW t, NEW c, OnTrack(t, c), NEW addr \in Address, NEW n, Crosses(addr, n),
           Len(t.proofs) \in Nat, Witnessed(t, 0, c, addr.leaf)
    PROVE  Run("slow", t, slowLoadMem(addr, n, 0, NoProof)).failed = TRUE
  <1> DEFINE A  == <<Track(addr.leaf, 0)>>
             B  == When(Crosses(addr, n), <<Revert>>)
             C  == <<SlowTake(addr, n, 0, NoProof)>>
             t1 == Run("slow", t, A)
             t2 == Run("slow", t1, B)
             u  == Run("slow", t2, C)
  <1>1. addr.leaf \in Leaf
    BY DEF Address
  <1>2. IsSeq(A) /\ IsSeq(C) /\ IsSeq(<<Revert>>)
    BY ShortSeq
  <1>3. IsSeq(B) /\ IsSeq(A \o B)
    BY <1>2, WhenSeq, Concat
  <1>4. Run("slow", t, slowLoadMem(addr, n, 0, NoProof)) = u
    <2>1. slowLoadMem(addr, n, 0, NoProof) = (A \o B) \o C
      BY DEF slowLoadMem
    <2> HIDE DEF A, B, C
    <2>2. Run("slow", t, A \o B) = t2
      BY <1>2, <1>3, RunTwo
    <2>3. Run("slow", t, (A \o B) \o C) = Run("slow", Run("slow", t, A \o B), C)
      BY <1>2, <1>3, RunTwo
    <2> QED BY <2>1, <2>2, <2>3
  <1>5. t1 = t
    <2>1. t1 = Do("slow", t, Track(addr.leaf, 0))
      BY RunOne
    <2> HIDE DEF t1
    <2> QED BY <1>1, <2>1, SlowTrack
  <1> HIDE DEF t1
  <1>6. t2 = Fail(t)
    <2>1. B = <<Revert>>
      BY DEF When
    <2> HIDE DEF B
    <2>2. t2 = Do("slow", t1, Revert)
      BY <2>1, RunOne
    <2>3. Revert.kind = "revert"
      BY DEF Revert
    <2>4. slowDo(t, Revert) = Fail(t)
      <3> HIDE DEF Revert
      <3> QED BY <2>3 DEF slowDo, OnTrack
    <2> QED BY <1>5, <2>2, <2>4 DEF Do
  <1>7. t2.failed = TRUE
    BY <1>6 DEF Fail, OnTrack
  <1> HIDE DEF t2
  <1>8. u = t2
    BY <1>2, <1>7, Stuck
  <1> HIDE DEF A, B, C, u
  <1> QED BY <1>4, <1>7, <1>8

-----------------------------------------------------------------------------
(* The instructions, in both VMs.                                          *)

\* What the parts of an instruction are sequences of.
LEMMA PartSeqs ==
    ASSUME NEW addr, NEW n, NEW dat, NEW L, NEW R, NEW v, NEW w, NEW leaf
    PROVE  /\ IsSeq(loadMem(addr, n, L, R)) /\ IsSeq(slowLoadMem(addr, n, L, R))
           /\ IsSeq(storeMem(addr, dat, L, R, v, w)) /\ IsSeq(slowStoreMem(addr, dat, L, R))
           /\ IsSeq(setMemoryB32(addr, dat, L))
  <1>1. IsSeq(loadMem(addr, n, L, R))
    <2> DEFINE A == <<Track(addr.leaf, L)>>
               M == <<IF R = NoProof THEN Revert ELSE Track(NextLeaf(addr.leaf), R)>>
               C == <<Read(addr, n)>>
    <2>1. IsSeq(A) /\ IsSeq(M) /\ IsSeq(C)
      BY ShortSeq
    <2>2. loadMem(addr, n, L, R) = (A \o When(Crosses(addr, n), M)) \o C
      BY DEF loadMem
    <2> HIDE DEF A, M, C
    <2> QED BY <2>1, <2>2, WhenSeq, Concat
  <1>2. IsSeq(slowLoadMem(addr, n, L, R))
    <2> DEFINE A == <<Track(addr.leaf, L)>>
               M == <<IF R = NoProof THEN Revert ELSE Track(NextLeaf(addr.leaf), R)>>
               C == <<SlowTake(addr, n, L, R)>>
    <2>1. IsSeq(A) /\ IsSeq(M) /\ IsSeq(C)
      BY ShortSeq
    <2>2. slowLoadMem(addr, n, L, R) = (A \o When(Crosses(addr, n), M)) \o C
      BY DEF slowLoadMem
    <2> HIDE DEF A, M, C
    <2> QED BY <2>1, <2>2, WhenSeq, Concat
  <1>3. IsSeq(storeMem(addr, dat, L, R, v, w))
    <2> DEFINE fit   == LeafBytes - addr.byte
               right == NextLeaf(addr.leaf)
               T     == <<Track(addr.leaf, L)>>
               K     == <<Check(addr.leaf, L)>>
               W     == <<Write(addr, dat)>>
               X     == <<Revert>>
               Y     == <<Write(addr, SubSeq(dat, 1, fit))>>
               Z     == <<Track(right, R)>>
               U     == <<Check(right, R)>>
               V     == <<Write([leaf |-> right, byte |-> 0], SubSeq(dat, fit + 1, Len(dat)))>>
               left  == When(v, T) \o K
    <2>1. /\ IsSeq(T) /\ IsSeq(K) /\ IsSeq(W) /\ IsSeq(X) /\ IsSeq(Y) /\ IsSeq(Z)
          /\ IsSeq(U) /\ IsSeq(V)
      BY ShortSeq
    <2>2. IsSeq(left) /\ IsSeq(U \o V) /\ IsSeq(When(R = NoProof, X)) /\ IsSeq(When(w, Z))
      <3> HIDE DEF T, K, X, Z, U, V
      <3> QED BY <2>1, WhenSeq, Concat
    <2>3. storeMem(addr, dat, L, R, v, w)
            = IF ~Crosses(addr, Len(dat)) THEN left \o W
              ELSE (((left \o When(R = NoProof, X)) \o Y) \o When(w, Z)) \o (U \o V)
      <3>1. <<Check(right, R), Write([leaf |-> right, byte |-> 0], SubSeq(dat, fit + 1, Len(dat)))>>
              = U \o V
        BY ShortSeq
      <3> QED BY <3>1 DEF storeMem
    <2> HIDE DEF T, K, W, X, Y, Z, U, V, left
    <2>4. IsSeq(left \o W)
      BY <2>1, <2>2, Concat
    <2>5. IsSeq((((left \o When(R = NoProof, X)) \o Y) \o When(w, Z)) \o (U \o V))
      BY <2>1, <2>2, Concat
    <2> QED BY <2>3, <2>4, <2>5
  <1>4. IsSeq(slowStoreMem(addr, dat, L, R))
    <2> DEFINE right == NextLeaf(addr.leaf)
               pl    == SlowPatch("left", addr, dat, L)
               pr    == SlowPatch("right", addr, dat, R)
               T     == <<Track(addr.leaf, L)>> \o <<pl>>
               X     == <<Revert>>
               Z     == <<Track(right, R)>> \o <<pr>>
    <2>1. T = <<Track(addr.leaf, L), pl>> /\ Z = <<Track(right, R), pr>>
      BY ShortSeq
    <2>2. IsSeq(T) /\ IsSeq(X) /\ IsSeq(Z)
      <3>1. /\ IsSeq(<<Track(addr.leaf, L)>>) /\ IsSeq(<<pl>>) /\ IsSeq(<<Track(right, R)>>)
            /\ IsSeq(<<pr>>) /\ IsSeq(X)
        BY ShortSeq
      <3> HIDE DEF pl, pr, X
      <3> QED BY <3>1, Concat
    <2> HIDE DEF T, Z
    <2>3. slowStoreMem(addr, dat, L, R)
            = T \o When(Crosses(addr, Len(dat)), When(R = NoProof, X) \o Z)
      BY <2>1 DEF slowStoreMem
    <2> HIDE DEF X
    <2> QED BY <2>2, <2>3, WhenSeq, Concat
  <1>5. IsSeq(setMemoryB32(addr, dat, L))
    <2> DEFINE T == <<Check(addr.leaf, L)>>
               W == <<WritePatched(addr, dat)>>
    <2>1. IsSeq(T) /\ IsSeq(W) /\ setMemoryB32(addr, dat, L) = T \o W
      BY ShortSeq DEF setMemoryB32
    <2> HIDE DEF T, W
    <2> QED BY <2>1, Concat
  <1> QED BY <1>1, <1>2, <1>3, <1>4, <1>5

\* From a state after the fetch, the two VMs take what is left of an instruction
\* to the same bytes read and the same contents.
Follows(s, c, t, e, r, u) ==
    /\ Good(r, e) /\ Grows(s, r)
    /\ s.memProofEnabled /\ OnTrack(t, c) /\ t.proofs = r.memProofs /\ t.read = s.read =>
          OnTrack(u, e) /\ u.proofs = t.proofs /\ u.read = r.read

\* The same of the primitives A off chain and B on chain, whatever the state of the slow
\* VM.
Agree(s, c, A, B) ==
    /\ IsSeq(A) /\ IsSeq(B)
    /\ \E e : \A t : Follows(s, c, t, e, Run("fast", s, A), Run("slow", t, B))

\* The proofs made off chain are the witness on chain.
LEMMA TrackedWitnessed ==
    ASSUME NEW r, NEW e, Good(r, e), r.memProofEnabled, NEW t, t.proofs = r.memProofs
    PROVE  /\ Len(t.proofs) \in Nat
           /\ \A i, c, leaf : Tracked(r, i, c, leaf) => Witnessed(t, i, c, leaf)
  <1>1. Len(r.memProofs) \in Nat
    BY Concat DEF Good
  <1> QED BY <1>1 DEF Tracked, Witnessed

\* Nothing is the same in both VMs.
LEMMA AgreeNone ==
    ASSUME NEW s, NEW c, Good(s, c)
    PROVE  Agree(s, c, << >>, << >>)
  <1>1. Run("fast", s, << >>) = s /\ \A t : Run("slow", t, << >>) = t
    BY RunNone
  <1>2. \A t : Follows(s, c, t, c, s, t)
    BY GrowsTrans DEF Follows
  <1>3. IsSeq(<< >>)
    BY ShortSeq
  <1> QED BY <1>1, <1>2, <1>3 DEF Agree

\* A load is the same in both VMs, across two leaves too.
LEMMA AgreeLoad ==
    ASSUME NEW s, NEW c, Good(s, c), Count(s, 1), NEW addr \in Address, NEW n \in Nat,
           NEW R, Crosses(addr, n) => R = 2
    PROVE  Agree(s, c, loadMem(addr, n, 1, R), slowLoadMem(addr, n, 1, R))
  <1> DEFINE A == loadMem(addr, n, 1, R)
             B == slowLoadMem(addr, n, 1, R)
             r == Run("fast", s, A)
  <1>1. Crosses(addr, n) => R # NoProof /\ R = 1 + 1
    BY DEF NoProof
  <1>2. /\ Good(r, c) /\ Grows(s, r)
        /\ r.read = s.read \o Bytes(c, addr, n)
        /\ Tracked(r, 1, c, addr.leaf) /\ Ready(r, addr.leaf)
        /\ Crosses(addr, n) => Tracked(r, R, c, NextLeaf(addr.leaf)) /\ Count(r, R + 1)
        /\ ~Crosses(addr, n) => Count(r, 1 + 1)
    BY <1>1, FastLoad
  <1> HIDE DEF r
  <1>3. ASSUME NEW t, s.memProofEnabled, OnTrack(t, c), t.proofs = r.memProofs, t.read = s.read
        PROVE  LET u == Run("slow", t, B)
               IN  OnTrack(u, c) /\ u.proofs = t.proofs /\ u.read = r.read
    <2>1. r.memProofEnabled
      BY <1>2, <1>3 DEF Grows
    <2>2. /\ Len(t.proofs) \in Nat /\ Witnessed(t, 1, c, addr.leaf)
          /\ Crosses(addr, n) => R # NoProof /\ Witnessed(t, R, c, NextLeaf(addr.leaf))
      BY <1>1, <1>2, <1>3, <2>1, TrackedWitnessed
    <2> DEFINE u == Run("slow", t, B)
    <2>3. OnTrack(u, c) /\ u.proofs = t.proofs /\ u.read = t.read \o Bytes(c, addr, n)
      <3> DEFINE L == 1
      <3>1. Len(t.proofs) \in Nat /\ Witnessed(t, L, c, addr.leaf)
        BY <2>2
      <3>2. u = Run("slow", t, slowLoadMem(addr, n, L, R))
        OBVIOUS
      <3> HIDE DEF L, u
      <3>3. OnTrack(t, c)
        BY <1>3
      <3>4. Crosses(addr, n) => R # NoProof /\ Witnessed(t, R, c, NextLeaf(addr.leaf))
        BY <2>2
      <3> QED BY <3>1, <3>2, <3>3, <3>4, SlowLoad
    <2> HIDE DEF u
    <2> QED BY <1>2, <1>3, <2>3 DEF u
  <1>4. IsSeq(A) /\ IsSeq(B)
    BY PartSeqs
  <1> HIDE DEF A, B
  <1>5. \A t : Follows(s, c, t, c, r, Run("slow", t, B))
    BY <1>2, <1>3 DEF Follows
  <1>6. Agree(s, c, A, B)
    BY <1>4, <1>5 DEF Agree, r
  <1> QED BY <1>6 DEF A, B

\* A store is the same in both VMs, across two leaves too.
LEMMA AgreeStore ==
    ASSUME NEW s, NEW c, Good(s, c), Count(s, 1), NEW addr \in Address, NEW dat \in Dat,
           NEW yes, yes = TRUE
    PROVE  Agree(s, c, storeMem(addr, dat, 1, 2, yes, yes), slowStoreMem(addr, dat, 1, 2))
  <1> DEFINE A == storeMem(addr, dat, 1, 2, yes, yes)
             B == slowStoreMem(addr, dat, 1, 2)
             r == Run("fast", s, A)
             e == StoredIn(c, addr, dat)
  <1>1. 2 # NoProof /\ 2 = 1 + 1 /\ yes \in BOOLEAN
    BY DEF NoProof
  <1>2. /\ Good(r, e) /\ Grows(s, r) /\ r.read = s.read
        /\ Tracked(r, 1, c, addr.leaf)
        /\ Crosses(addr, Len(dat)) =>
              Tracked(r, 2, LeftStored(c, addr, dat), NextLeaf(addr.leaf))
    <2> DEFINE L == 1
               Q == 2
    <2>1. Q # NoProof /\ Q = L + 1 /\ r = Run("fast", s, storeMem(addr, dat, L, Q, yes, yes))
      BY <1>1
    <2>2. Count(s, L)
      OBVIOUS
    <2> HIDE DEF L, Q, e, r
    <2>3. /\ Good(r, e) /\ Grows(s, r) /\ r.read = s.read
          /\ Tracked(r, L, c, addr.leaf)
          /\ Crosses(addr, Len(dat)) =>
                Tracked(r, Q, LeftStored(c, addr, dat), NextLeaf(addr.leaf))
      <3>1. LeftReady(s, c, addr, dat, L, Q, yes)
        BY <2>1, <2>2 DEF LeftReady
      <3> DEFINE q == Run("fast", s, storeMem(addr, dat, L, Q, yes, yes))
      <3>2. Good(q, e) /\ Grows(s, q) /\ SameRead(s, q)
        BY <3>1, FastStore DEF e
      <3>3. /\ Tracked(q, L, c, addr.leaf)
            /\ Crosses(addr, Len(dat)) =>
                  Tracked(q, Q, LeftStored(c, addr, dat), NextLeaf(addr.leaf))
        BY <3>1, FastStore
      <3>4. r = q
        BY <2>1
      <3> HIDE DEF q
      <3> QED BY <3>2, <3>3, <3>4 DEF SameRead
    <2> QED BY <2>3 DEF L, Q
  <1> HIDE DEF r
  <1>3. ASSUME NEW t, s.memProofEnabled, OnTrack(t, c), t.proofs = r.memProofs, t.read = s.read
        PROVE  LET u == Run("slow", t, B)
               IN  OnTrack(u, e) /\ u.proofs = t.proofs /\ u.read = r.read
    <2>1. r.memProofEnabled
      BY <1>2, <1>3 DEF Grows
    <2>2. /\ Len(t.proofs) \in Nat /\ Witnessed(t, 1, c, addr.leaf)
          /\ Crosses(addr, Len(dat)) =>
                Witnessed(t, 2, LeftStored(c, addr, dat), NextLeaf(addr.leaf))
      BY <1>2, <1>3, <2>1, TrackedWitnessed
    <2> DEFINE u == Run("slow", t, B)
    <2>3. OnTrack(u, e) /\ u.proofs = t.proofs /\ u.read = t.read
      BY <1>1, <1>3, <2>2, SlowStore
    <2> HIDE DEF u
    <2> QED BY <1>2, <1>3, <2>3 DEF u
  <1>4. IsSeq(A) /\ IsSeq(B)
    BY PartSeqs
  <1> HIDE DEF A, B, e
  <1>5. \A t : Follows(s, c, t, e, r, Run("slow", t, B))
    BY <1>2, <1>3 DEF Follows
  <1>6. Agree(s, c, A, B)
    BY <1>4, <1>5 DEF Agree, r
  <1> QED BY <1>6 DEF A, B


\* A read-modify-write: the store uses the proof of the load, and a third one of
\* the right leaf.
LEMMA AgreeAmo ==
    ASSUME NEW s, NEW c, Good(s, c), Count(s, 1), NEW addr \in Address, NEW dat \in Dat,
           NEW no, no = FALSE, NEW yes, yes = TRUE
    PROVE  Agree(s, c, loadMem(addr, Len(dat), 1, 2) \o storeMem(addr, dat, 1, 3, no, yes),
                       slowLoadMem(addr, Len(dat), 1, 2) \o slowStoreMem(addr, dat, 1, 3))
  <1> DEFINE n  == Len(dat)
             A1 == loadMem(addr, n, 1, 2)
             A2 == storeMem(addr, dat, 1, 3, no, yes)
             B1 == slowLoadMem(addr, n, 1, 2)
             B2 == slowStoreMem(addr, dat, 1, 3)
             s1 == Run("fast", s, A1)
             r  == Run("fast", s1, A2)
             e  == StoredIn(c, addr, dat)
             right == NextLeaf(addr.leaf)
  <1>1. n \in Nat /\ 2 # NoProof /\ 3 # NoProof /\ 2 = 1 + 1 /\ 2 + 1 = 3
    BY DatSeq DEF NoProof
  <1>2. IsSeq(A1) /\ IsSeq(A2) /\ IsSeq(B1) /\ IsSeq(B2)
    BY PartSeqs
  <1>3. /\ IsSeq(A1 \o A2) /\ IsSeq(B1 \o B2)
        /\ Run("fast", s, A1 \o A2) = r
        /\ \A t : Run("slow", t, B1 \o B2) = Run("slow", Run("slow", t, B1), B2)
    <2> HIDE DEF A1, A2, B1, B2
    <2> QED BY <1>2, Concat, RunTwo
  <1>4. /\ Good(s1, c) /\ Grows(s, s1)
        /\ s1.read = s.read \o Bytes(c, addr, n)
        /\ Tracked(s1, 1, c, addr.leaf) /\ Ready(s1, addr.leaf)
        /\ Crosses(addr, n) => Tracked(s1, 2, c, right) /\ Count(s1, 2 + 1)
        /\ ~Crosses(addr, n) => Count(s1, 1 + 1)
    BY <1>1, FastLoad
  <1> HIDE DEF s1
  <1>5. LeftReady(s1, c, addr, dat, 1, 3, no)
    BY <1>1, <1>4 DEF LeftReady
  <1>6. Good(r, e) /\ Grows(s1, r) /\ SameRead(s1, r)
    BY <1>4, <1>5, FastStore
  <1>7. Crosses(addr, n) => Tracked(r, 3, LeftStored(c, addr, dat), right)
    BY <1>4, <1>5, FastStore
  <1> HIDE DEF r, e
  <1>8. Grows(s, r) /\ Tracked(r, 1, c, addr.leaf) /\ (Crosses(addr, n) => Tracked(r, 2, c, right))
    BY <1>4, <1>6, GrowsTrans DEF Grows
  <1>9. ASSUME NEW t, s.memProofEnabled, OnTrack(t, c), t.proofs = r.memProofs, t.read = s.read
        PROVE  LET u == Run("slow", Run("slow", t, B1), B2)
               IN  OnTrack(u, e) /\ u.proofs = t.proofs /\ u.read = r.read
    <2> DEFINE t1 == Run("slow", t, B1)
               u  == Run("slow", t1, B2)
    <2>1. r.memProofEnabled
      BY <1>8, <1>9 DEF Grows
    <2>2. Len(t.proofs) \in Nat /\ Witnessed(t, 1, c, addr.leaf)
      BY <1>6, <1>8, <1>9, <2>1, TrackedWitnessed
    <2>3. Crosses(addr, n) => 2 # NoProof /\ Witnessed(t, 2, c, right)
      BY <1>1, <1>6, <1>8, <1>9, <2>1, TrackedWitnessed
    <2>4. Crosses(addr, n) => Witnessed(t, 3, LeftStored(c, addr, dat), right)
      BY <1>6, <1>7, <1>9, <2>1, TrackedWitnessed
    <2>5. OnTrack(t, c)
      BY <1>9
    <2>6. OnTrack(t1, c) /\ t1.proofs = t.proofs /\ t1.read = t.read \o Bytes(c, addr, n)
      BY <1>1, <2>2, <2>3, <2>5, SlowLoad
    <2> HIDE DEF t1
    <2>7. /\ Len(t1.proofs) \in Nat /\ Witnessed(t1, 1, c, addr.leaf)
          /\ Crosses(addr, n) => Witnessed(t1, 3, LeftStored(c, addr, dat), right)
      BY <2>2, <2>4, <2>6 DEF Witnessed
    <2>8. OnTrack(u, e) /\ u.proofs = t1.proofs /\ u.read = t1.read
      <3>1. OnTrack(t1, c)
        BY <2>6
      <3> QED BY <1>1, <2>7, <3>1, SlowStore DEF e
    <2> HIDE DEF u
    <2> QED BY <1>4, <1>6, <1>9, <2>6, <2>8 DEF u, t1, SameRead
  <1> HIDE DEF A1, A2, B1, B2
  <1>10. \A t : Follows(s, c, t, e, r, Run("slow", Run("slow", t, B1), B2))
    BY <1>6, <1>8, <1>9 DEF Follows
  <1>11. Agree(s, c, A1 \o A2, B1 \o B2)
    BY <1>3, <1>10 DEF Agree
  <1> QED BY <1>11 DEF A1, A2, B1, B2

\* getMemoryB32 is a load of the whole leaf.
LEMMA WholeLoad ==
    ASSUME NEW addr \in Address, NEW n
    PROVE  LET at == [addr EXCEPT !.byte = 0]
           IN  /\ at \in Address /\ at.leaf = addr.leaf /\ at.byte = 0 /\ LeafBytes \in Nat
               /\ at = [leaf |-> addr.leaf, byte |-> 0]
               /\ ~Crosses(at, LeafBytes)
               /\ getMemoryB32(addr.leaf, n) = loadMem(at, LeafBytes, n, NoProof)
  <1> DEFINE at == [addr EXCEPT !.byte = 0]
             A  == <<Track(addr.leaf, n)>>
             C  == <<Read(at, LeafBytes)>>
  <1>1. at \in Address /\ at.leaf = addr.leaf /\ at.byte = 0 /\ LeafBytes \in Nat
    BY PageAssumption DEF Address
  <1>2. at = [leaf |-> addr.leaf, byte |-> 0]
    BY DEF Address
  <1>3. getMemoryB32(addr.leaf, n) = A \o C
    BY <1>2, ShortSeq DEF getMemoryB32
  <1> HIDE DEF at
  <1>4. ~Crosses(at, LeafBytes)
    BY <1>1 DEF Crosses
  <1>5. loadMem(at, LeafBytes, n, NoProof) = (A \o << >>) \o C
    BY <1>1, <1>4 DEF loadMem, When
  <1>6. A \o << >> = A
    OBVIOUS
  <1> HIDE DEF A, C
  <1> QED BY <1>1, <1>2, <1>3, <1>4, <1>5, <1>6 DEF at

\* readPreimageValue: a leaf is read, patched and written as a whole.
LEMMA AgreePatch ==
    ASSUME NEW s, NEW c, Good(s, c), Count(s, 1), NEW addr \in Address, NEW dat \in Dat
    PROVE  LET at == [addr EXCEPT !.byte = 0]
           IN  Agree(s, c, getMemoryB32(addr.leaf, 1) \o setMemoryB32(addr, dat, 1),
                           slowLoadMem(at, LeafBytes, 1, NoProof)
                               \o <<SlowPatch("left", addr, dat, 1)>>)
  <1> DEFINE at == [addr EXCEPT !.byte = 0]
             A1 == loadMem(at, LeafBytes, 1, NoProof)
             A2 == setMemoryB32(addr, dat, 1)
             B1 == slowLoadMem(at, LeafBytes, 1, NoProof)
             p  == SlowPatch("left", addr, dat, 1)
             B2 == <<p>>
             s1 == Run("fast", s, A1)
             r  == Run("fast", s1, A2)
             e  == LeftStored(c, addr, dat)
  <1>1. /\ at \in Address /\ at.leaf = addr.leaf /\ at.byte = 0 /\ LeafBytes \in Nat
        /\ at = [leaf |-> addr.leaf, byte |-> 0]
        /\ ~Crosses(at, LeafBytes)
        /\ getMemoryB32(addr.leaf, 1) = A1
    BY WholeLoad
  <1> HIDE DEF at
  <1>2. IsSeq(A1) /\ IsSeq(A2) /\ IsSeq(B1) /\ IsSeq(B2)
    BY PartSeqs, ShortSeq
  <1>3. /\ IsSeq(A1 \o A2) /\ IsSeq(B1 \o B2)
        /\ Run("fast", s, A1 \o A2) = r
        /\ \A t : Run("slow", t, B1 \o B2) = Do("slow", Run("slow", t, B1), p)
    <2>1. \A t : Run("slow", t, B1 \o B2) = Run("slow", Run("slow", t, B1), B2)
      <3> HIDE DEF B1, B2
      <3> QED BY <1>2, RunTwo
    <2>2. \A t : Run("slow", t, B2) = Do("slow", t, p)
      BY RunOne
    <2> HIDE DEF A1, A2, B1, B2
    <2> QED BY <1>2, <2>1, <2>2, Concat, RunTwo
  <1>4. /\ Good(s1, c) /\ Grows(s, s1)
        /\ s1.read = s.read \o Bytes(c, at, LeafBytes)
        /\ Tracked(s1, 1, c, at.leaf) /\ Ready(s1, at.leaf)
        /\ Crosses(at, LeafBytes) =>
              Tracked(s1, NoProof, c, NextLeaf(at.leaf)) /\ Count(s1, NoProof + 1)
        /\ ~Crosses(at, LeafBytes) => Count(s1, 1 + 1)
    BY <1>1, FastLoad
  <1> HIDE DEF s1
  <1>5. Good(r, e) /\ Grows(s1, r) /\ SameRead(s1, r)
    <2>1. IsSeq(s.read) /\ Tracked(s1, 1, c, addr.leaf) /\ Ready(s1, addr.leaf)
      BY <1>1, <1>4 DEF Good
    <2>2. s1.read = s.read \o Bytes(c, [leaf |-> addr.leaf, byte |-> 0], LeafBytes)
      BY <1>1, <1>4
    <2> QED BY <1>4, <2>1, <2>2, FastPatch
  <1> HIDE DEF r
  <1>6. Grows(s, r) /\ Tracked(r, 1, c, addr.leaf)
    BY <1>1, <1>4, <1>5, GrowsTrans DEF Grows
  <1>7. ASSUME NEW t, s.memProofEnabled, OnTrack(t, c), t.proofs = r.memProofs, t.read = s.read
        PROVE  LET u == Do("slow", Run("slow", t, B1), p)
               IN  OnTrack(u, e) /\ u.proofs = t.proofs /\ u.read = r.read
    <2> DEFINE t1 == Run("slow", t, B1)
               u  == Do("slow", t1, p)
    <2>1. r.memProofEnabled
      BY <1>6, <1>7 DEF Grows
    <2>2. Len(t.proofs) \in Nat /\ Witnessed(t, 1, c, addr.leaf)
      BY <1>5, <1>6, <1>7, <2>1, TrackedWitnessed
    <2>3. OnTrack(t, c) /\ Witnessed(t, 1, c, at.leaf)
      BY <1>1, <1>7, <2>2
    <2>4. OnTrack(t1, c) /\ t1.proofs = t.proofs /\ t1.read = t.read \o Bytes(c, at, LeafBytes)
      BY <1>1, <2>2, <2>3, SlowLoad, SMTT(20)
    <2> HIDE DEF t1
    <2>5. Witnessed(t1, 1, c, addr.leaf)
      BY <2>2, <2>4 DEF Witnessed
    <2>6. OnTrack(u, e) /\ u.proofs = t1.proofs /\ u.read = t1.read
      BY <2>4, <2>5, SlowLeft
    <2> HIDE DEF u
    <2> QED BY <1>4, <1>5, <1>7, <2>4, <2>6 DEF u, t1, SameRead
  <1> HIDE DEF A1, A2, B1, B2, p, e
  <1>8. \A t : Follows(s, c, t, e, r, Do("slow", Run("slow", t, B1), p))
    BY <1>5, <1>6, <1>7 DEF Follows
  <1>9. Agree(s, c, A1 \o A2, B1 \o B2)
    BY <1>3, <1>8 DEF Agree
  <1> QED BY <1>1, <1>9 DEF A2, B1, B2, p, at


\* The fetch, and what is left of an instruction after it.
IsRest(op, A, B) ==
    /\ \A pc : Primitives(pc, op) = loadMem(pc, FetchSize, 0, NoProof) \o A
    /\ \A pc : slowPrimitives(pc, op) = slowLoadMem(pc, FetchSize, 0, NoProof) \o B

\* The VMs agree on every instruction.
LEMMA OpAgrees ==
    ASSUME NEW op \in Op
    PROVE  \E A, B : /\ IsSeq(A) /\ IsSeq(B) /\ IsRest(op, A, B)
                     /\ \A s, c : Good(s, c) /\ Count(s, 1) => Agree(s, c, A, B)
  <1>1. CASE op \in [kind : {"plain"}]
    <2>1. op.kind = "plain"
      BY <1>1
    <2>2. IsRest(op, << >>, << >>)
      BY <2>1 DEF IsRest, Primitives, slowPrimitives
    <2>3. \A s, c : Good(s, c) /\ Count(s, 1) => Agree(s, c, << >>, << >>)
      BY AgreeNone
    <2>4. IsSeq(<< >>)
      BY ShortSeq
    <2> QED BY <2>2, <2>3, <2>4
  <1>2. CASE op \in [kind : {"load"}, addr : Accesses, size : 1..LeafBytes]
    <2> DEFINE A == loadMem(op.addr, op.size, 1, 2)
               B == slowLoadMem(op.addr, op.size, 1, 2)
    <2>1. op.kind = "load" /\ op.addr \in Address /\ op.size \in Nat
      BY <1>2, DataAssumption, PageAssumption
    <2>2. IsRest(op, A, B)
      BY <2>1 DEF IsRest, Primitives, slowPrimitives
    <2>3. \A s, c : Good(s, c) /\ Count(s, 1) => Agree(s, c, A, B)
      BY <2>1, AgreeLoad
    <2>4. IsSeq(A) /\ IsSeq(B)
      BY PartSeqs
    <2> HIDE DEF A, B
    <2> QED BY <2>2, <2>3, <2>4
  <1>3. CASE op \in [kind : {"store"}, addr : Accesses, dat : Stored]
    <2> DEFINE yes == TRUE
               A == storeMem(op.addr, op.dat, 1, 2, yes, yes)
               B == slowStoreMem(op.addr, op.dat, 1, 2)
    <2>1. op.kind = "store" /\ op.addr \in Address /\ op.dat \in Dat
      BY <1>3, DataAssumption, StepAssumption
    <2>2. IsRest(op, A, B)
      BY <2>1 DEF IsRest, Primitives, slowPrimitives
    <2>3. yes = TRUE
      OBVIOUS
    <2> HIDE DEF yes
    <2>4. \A s, c : Good(s, c) /\ Count(s, 1) => Agree(s, c, A, B)
      BY <2>1, <2>3, AgreeStore
    <2>5. IsSeq(A) /\ IsSeq(B)
      BY PartSeqs
    <2> HIDE DEF A, B
    <2> QED BY <2>2, <2>4, <2>5
  <1>4. CASE op \in [kind : {"amo"}, addr : Accesses, dat : Stored]
    <2> DEFINE no  == FALSE
               yes == TRUE
               A1 == loadMem(op.addr, Len(op.dat), 1, 2)
               A2 == storeMem(op.addr, op.dat, 1, 3, no, yes)
               B1 == slowLoadMem(op.addr, Len(op.dat), 1, 2)
               B2 == slowStoreMem(op.addr, op.dat, 1, 3)
    <2>1. op.kind = "amo" /\ op.addr \in Address /\ op.dat \in Dat
      BY <1>4, DataAssumption, StepAssumption
    <2>2. IsRest(op, A1 \o A2, B1 \o B2)
      BY <2>1 DEF IsRest, Primitives, slowPrimitives
    <2>3. yes = TRUE /\ no = FALSE
      OBVIOUS
    <2> HIDE DEF yes, no
    <2>4. \A s, c : Good(s, c) /\ Count(s, 1) => Agree(s, c, A1 \o A2, B1 \o B2)
      BY <2>1, <2>3, AgreeAmo
    <2>5. IsSeq(A1) /\ IsSeq(B1) /\ IsSeq(A2) /\ IsSeq(B2)
      BY PartSeqs
    <2> HIDE DEF A1, A2, B1, B2
    <2>6. IsSeq(A1 \o A2) /\ IsSeq(B1 \o B2)
      BY <2>5, Concat
    <2> QED BY <2>2, <2>4, <2>6
  <1>5. CASE op \in [kind : {"getLeaf"}, addr : Accesses]
    <2> DEFINE at == [op.addr EXCEPT !.byte = 0]
               A  == loadMem(at, LeafBytes, 1, NoProof)
               B  == slowLoadMem(at, LeafBytes, 1, NoProof)
    <2>1. op.kind = "getLeaf" /\ op.addr \in Address
      BY <1>5, DataAssumption
    <2>2. /\ at \in Address /\ at.leaf = op.addr.leaf /\ at.byte = 0 /\ LeafBytes \in Nat
          /\ at = [leaf |-> op.addr.leaf, byte |-> 0]
          /\ ~Crosses(at, LeafBytes)
          /\ getMemoryB32(op.addr.leaf, 1) = A
      BY <2>1, WholeLoad
    <2>3. IsRest(op, getMemoryB32(op.addr.leaf, 1), B)
      BY <2>1 DEF IsRest, Primitives, slowPrimitives
    <2> HIDE DEF at
    <2>4. IsRest(op, A, B)
      BY <2>2, <2>3
    <2>5. \A s, c : Good(s, c) /\ Count(s, 1) => Agree(s, c, A, B)
      BY <2>2, AgreeLoad
    <2>6. IsSeq(A) /\ IsSeq(B)
      BY PartSeqs
    <2> HIDE DEF A, B
    <2> QED BY <2>4, <2>5, <2>6
  <1>6. CASE op \in [kind : {"patch"}, addr : Accesses, dat : Stored]
    <2> DEFINE at == [op.addr EXCEPT !.byte = 0]
               A1 == getMemoryB32(op.addr.leaf, 1)
               A2 == setMemoryB32(op.addr, op.dat, 1)
               B1 == slowLoadMem(at, LeafBytes, 1, NoProof)
               B2 == <<SlowPatch("left", op.addr, op.dat, 1)>>
    <2>1. op.kind = "patch" /\ op.addr \in Address /\ op.dat \in Dat
      BY <1>6, DataAssumption, StepAssumption
    <2>2. IsRest(op, A1 \o A2, B1 \o B2)
      BY <2>1 DEF IsRest, Primitives, slowPrimitives
    <2>3. \A s, c : Good(s, c) /\ Count(s, 1) => Agree(s, c, A1 \o A2, B1 \o B2)
      BY <2>1, AgreePatch
    <2>4. A1 = loadMem(at, LeafBytes, 1, NoProof)
      BY <2>1, WholeLoad
    <2>5. IsSeq(A1) /\ IsSeq(B1) /\ IsSeq(A2) /\ IsSeq(B2)
      <3> HIDE DEF at, A1
      <3> QED BY <2>4, PartSeqs, ShortSeq
    <2> HIDE DEF A1, A2, B1, B2
    <2>6. IsSeq(A1 \o A2) /\ IsSeq(B1 \o B2)
      BY <2>5, Concat
    <2> QED BY <2>2, <2>3, <2>6
  <1> QED BY <1>1, <1>2, <1>3, <1>4, <1>5, <1>6 DEF Op

-----------------------------------------------------------------------------
(* A step, in both VMs.                                                    *)

\* What a step leaves of a sound memory, and what the chain makes of it.
LEMMA StepAgrees ==
    ASSUME NEW m, IInv(m), Sound(m), NEW proof \in BOOLEAN, ~proof => NoCaches(m),
           NEW pc \in PCs, NEW op \in Op
    PROVE  LET f == riscvStep(m, proof, pc, op)
               u == slowStep(Tree(Contents(m))[Root], f.memProofs, pc, op)
           IN  /\ IInv(f.mem) /\ Sound(f.mem) /\ (~proof => NoCaches(f.mem))
               /\ f.failed \in BOOLEAN
               /\ f.failed => pc.byte + FetchSize > LeafBytes
               /\ proof => /\ u.failed = f.failed
                           /\ ~f.failed => /\ u.read = f.read
                                           /\ u.memRoot = Tree(Contents(f.mem))[Root]
  <1> DEFINE f  == riscvStep(m, proof, pc, op)
             c  == Contents(m)
             t0 == NewSlow(Tree(c)[Root], f.memProofs)
             u  == slowStep(Tree(c)[Root], f.memProofs, pc, op)
             s0 == NewStep(m, proof)
             F  == loadMem(pc, FetchSize, 0, NoProof)
             K  == slowLoadMem(pc, FetchSize, 0, NoProof)
             s1 == Run("fast", s0, F)
             t1 == Run("slow", t0, K)
  <1>1. pc \in Address /\ FetchSize \in Nat
    BY StepAssumption, PageAssumption
  <1>2. PICK A, B : /\ IsSeq(A) /\ IsSeq(B) /\ IsRest(op, A, B)
                    /\ \A s, d : Good(s, d) /\ Count(s, 1) => Agree(s, d, A, B)
    BY OpAgrees
  <1>3. IsSeq(F) /\ IsSeq(K)
    BY PartSeqs
  <1>4. f = Run("fast", s1, A)
    <2>1. Primitives(pc, op) = F \o A
      BY <1>2 DEF IsRest
    <2> HIDE DEF F, s0
    <2>2. IsSeq(Primitives(pc, op))
      BY <1>2, <1>3, <2>1, Concat
    <2>3. f = Run("fast", s0, Primitives(pc, op))
      BY <2>2, StepIsRun DEF s0
    <2>4. Run("fast", s0, F \o A) = Run("fast", s1, A)
      BY <1>2, <1>3, RunTwo
    <2> HIDE DEF f
    <2> QED BY <2>1, <2>3, <2>4
  <1>5. u = Run("slow", t1, B)
    <2>1. slowPrimitives(pc, op) = K \o B
      BY <1>2 DEF IsRest
    <2> HIDE DEF K, t0, f
    <2>2. IsSeq(slowPrimitives(pc, op))
      BY <1>2, <1>3, <2>1, Concat
    <2>3. u = Run("slow", t0, slowPrimitives(pc, op))
      BY <2>2, StepIsRun DEF t0
    <2>4. Run("slow", t0, K \o B) = Run("slow", t1, B)
      BY <1>2, <1>3, RunTwo
    <2> HIDE DEF u
    <2> QED BY <2>1, <2>3, <2>4
  <1>6. Good(s0, c) /\ Count(s0, 0) /\ s0.memProofEnabled = proof /\ s0.read = << >>
    <2>1. IsSeq(<< >>) /\ Len(<< >>) = 0
      BY ShortSeq
    <2> QED BY <2>1 DEF Good, Count, NewStep
  <1>7. OnTrack(t0, c) /\ t0.proofs = f.memProofs /\ t0.read = << >>
    <2> HIDE DEF f
    <2> QED BY DEF OnTrack, NewSlow
  <1> HIDE DEF f, u, s0, t0, c
  <1>8. CASE Crosses(pc, FetchSize)
    <2>1. /\ s1.failed = TRUE
          /\ \E q : Good(q, c) /\ Grows(s0, q) /\ s1 = Fail(q) /\ Tracked(q, 0, c, pc.leaf)
      BY <1>1, <1>6, <1>8, FastFetchFails
    <2> HIDE DEF s1, t1, F, K
    <2>2. PICK q : Good(q, c) /\ Grows(s0, q) /\ s1 = Fail(q) /\ Tracked(q, 0, c, pc.leaf)
      BY <2>1
    <2>3. f = s1
      BY <1>2, <1>4, <2>1, Stuck
    <2>4. f.mem = q.mem /\ f.memProofs = q.memProofs /\ f.failed = TRUE
      BY <2>1, <2>2, <2>3 DEF Fail, Good
    <2>5. IInv(f.mem) /\ Sound(f.mem) /\ (~proof => NoCaches(f.mem))
      BY <1>6, <2>2, <2>4 DEF Good, Grows
    <2>6. ASSUME proof PROVE u.failed = TRUE
      <3>1. q.memProofEnabled /\ t0.proofs = q.memProofs
        BY <1>6, <1>7, <2>2, <2>4, <2>6 DEF Grows
      <3>2. Len(t0.proofs) \in Nat /\ Witnessed(t0, 0, c, pc.leaf)
        BY <2>2, <3>1, TrackedWitnessed
      <3>3. t1.failed = TRUE
        BY <1>1, <1>7, <1>8, <3>2, SlowFetchFails DEF t1, K
      <3>4. u = t1
        BY <1>2, <1>5, <3>3, Stuck
      <3> QED BY <3>3, <3>4
    <2>7. pc.byte + FetchSize > LeafBytes
      BY <1>8 DEF Crosses
    <2> QED BY <2>4, <2>5, <2>6, <2>7 DEF f, u, c
  <1>9. CASE ~Crosses(pc, FetchSize)
    <2>1. Good(s1, c) /\ Grows(s0, s1) /\ s1.read = s0.read \o Bytes(c, pc, FetchSize)
          /\ Tracked(s1, 0, c, pc.leaf) /\ Count(s1, 1)
      <3>1. /\ Good(s1, c) /\ Grows(s0, s1)
            /\ s1.read = s0.read \o Bytes(c, pc, FetchSize)
            /\ Tracked(s1, 0, c, pc.leaf) /\ Ready(s1, pc.leaf)
            /\ Crosses(pc, FetchSize) =>
                  Tracked(s1, NoProof, c, NextLeaf(pc.leaf)) /\ Count(s1, NoProof + 1)
            /\ ~Crosses(pc, FetchSize) => Count(s1, 0 + 1)
        BY <1>1, <1>6, <1>9, FastLoad
      <3>2. 0 + 1 = 1
        OBVIOUS
      <3> HIDE DEF s1
      <3> QED BY <1>9, <3>1, <3>2
    <2> HIDE DEF s1, F
    <2>2. PICK e : \A t : Follows(s1, c, t, e, Run("fast", s1, A), Run("slow", t, B))
      BY <1>2, <2>1 DEF Agree
    <2>3. Good(f, e) /\ Grows(s1, f)
      BY <1>4, <2>2 DEF Follows
    <2>4. /\ IInv(f.mem) /\ Sound(f.mem) /\ (~proof => NoCaches(f.mem))
          /\ f.failed = FALSE /\ Contents(f.mem) = e
      BY <1>6, <2>1, <2>3 DEF Good, Grows
    <2>5. ASSUME proof PROVE u.failed = FALSE /\ u.read = f.read /\ u.memRoot = Tree(e)[Root]
      <3>1. s1.memProofEnabled /\ f.memProofEnabled /\ Tracked(f, 0, c, pc.leaf)
        BY <1>6, <2>1, <2>3, <2>5 DEF Grows
      <3>2. Len(t0.proofs) \in Nat /\ Witnessed(t0, 0, c, pc.leaf)
        BY <1>7, <2>3, <3>1, TrackedWitnessed
      <3>3. OnTrack(t1, c) /\ t1.proofs = t0.proofs /\ t1.read = t0.read \o Bytes(c, pc, FetchSize)
        <4>1. OnTrack(t0, c)
          BY <1>7
        <4> QED BY <1>1, <1>9, <3>2, <4>1, SlowLoad
      <3> HIDE DEF t1, K
      <3>4. OnTrack(t1, c) /\ t1.proofs = f.memProofs /\ t1.read = s1.read
        BY <1>6, <1>7, <2>1, <3>3
      <3>5. Follows(s1, c, t1, e, f, u)
        BY <1>4, <1>5, <2>2
      <3>6. OnTrack(u, e) /\ u.read = f.read
        BY <3>1, <3>4, <3>5 DEF Follows
      <3> QED BY <3>6 DEF OnTrack
    <2> QED BY <2>4, <2>5 DEF f, u, c
  <1> QED BY <1>8, <1>9

-----------------------------------------------------------------------------
(* The run.                                                                *)

\* A run proves every step or none, as the --proof-at patterns always and never
\* make it.  A run that proves some of its steps is another matter: see the run
\* of MCStepSome.
AllOrNone == ProofModes \subseteq {"always", "never"}

\* Every valid hash is that of the contents, and a run that proves no step has
\* none: no page is left with some of its slots valid and its root not, which is
\* what makes Invalidate leave the stale ones.
WitnessInv ==
    /\ IInv(mem) /\ Sound(mem)
    /\ proofMode \in {"always", "never"}
    /\ proofMode = "never" => NoCaches(mem)

\* The last step, if it was proven, came out the same in both VMs.
LastInv == WitnessAccepted /\ PostStatesAgree /\ OnlyMisalignedFetchFails

\* Every step keeps both invariants.
LEMMA WitnessInvariance ==
    ASSUME AllOrNone
    PROVE  Spec => [](WitnessInv /\ LastInv)
  <1>1. Init => WitnessInv /\ LastInv
    <2> SUFFICES ASSUME Init PROVE WitnessInv /\ LastInv
      OBVIOUS
    <2>1. NoCaches(mem)
      BY DEF Init, NewMemory, NoCaches, EmptyFcn
    <2>2. last.proven = FALSE
      BY DEF Init, NoStep
    <2>3. proofMode \in {"always", "never"}
      BY DEF Init, AllOrNone
    <2>4. WitnessInv
      BY <2>1, <2>3, NewMemoryIInv, NoCachesSound DEF WitnessInv, Init
    <2>5. LastInv
      BY <2>2 DEF LastInv, WitnessAccepted, PostStatesAgree, OnlyMisalignedFetchFails
    <2> QED BY <2>4, <2>5
  <1>2. WitnessInv /\ LastInv /\ [Next]_vars => (WitnessInv /\ LastInv)'
    <2> SUFFICES ASSUME WitnessInv, LastInv, [Next]_vars PROVE WitnessInv' /\ LastInv'
      OBVIOUS
    <2>1. CASE UNCHANGED vars
      <3>1. mem' = mem /\ proofMode' = proofMode /\ last' = last
        BY <2>1 DEF vars
      <3>2. WitnessInv'
        BY <3>1 DEF WitnessInv
      <3>3. LastInv'
        BY <3>1 DEF LastInv, WitnessAccepted, PostStatesAgree, OnlyMisalignedFetchFails
      <3> QED BY <3>2, <3>3
    <2>2. ASSUME NEW proof \in BOOLEAN, NEW pc \in PCs, NEW op \in Op, Step(proof, pc, op)
          PROVE  WitnessInv' /\ LastInv'
      <3>1. proofMode' = proofMode /\ Proves(proof)
        BY <2>2 DEF Step
      <3>2. CASE proof
        <4> DEFINE pre  == MerkleRoot(mem)
                   c    == Contents(mem)
                   fast == riscvStep(pre, TRUE, pc, op)
                   slow == slowStep(RootHash(mem), fast.memProofs, pc, op)
                   post == IF fast.failed THEN fast.mem ELSE MerkleRoot(fast.mem)
        <4>1. /\ mem' = post
              /\ last' = [ proven |-> TRUE, pc |-> pc,
                           fast |-> [failed |-> fast.failed, read |-> fast.read,
                                     root |-> RootHash(post)],
                           slow |-> [failed |-> slow.failed, read |-> slow.read,
                                     root |-> slow.memRoot] ]
          BY <2>2, <3>2 DEF Step, ProvenStep
        <4>2. proofMode = "always"
          BY <3>1, <3>2 DEF Proves, WitnessInv
        <4>3. IInv(pre) /\ Sound(pre) /\ Contents(pre) = c
          BY MerkleizeStep, MerkleizeSound, MerklePure DEF WitnessInv, MerkleRoot
        <4>4. RootHash(mem) = Tree(Contents(pre))[Root]
          BY <4>3, SoundRoot, TrueIsTree DEF WitnessInv
        <4> DEFINE yes == TRUE
        <4>5. /\ fast = riscvStep(pre, yes, pc, op) /\ yes \in BOOLEAN /\ yes
              /\ slow = slowStep(Tree(Contents(pre))[Root], fast.memProofs, pc, op)
          BY <4>4
        <4> HIDE DEF yes, pre, fast, slow
        <4>6. /\ IInv(fast.mem) /\ Sound(fast.mem)
              /\ fast.failed \in BOOLEAN
              /\ fast.failed => pc.byte + FetchSize > LeafBytes
              /\ slow.failed = fast.failed
              /\ ~fast.failed => /\ slow.read = fast.read
                                 /\ slow.memRoot = Tree(Contents(fast.mem))[Root]
          BY <4>3, <4>5, StepAgrees
        <4>7. /\ IInv(post) /\ Sound(post)
              /\ ~fast.failed => RootHash(post) = Tree(Contents(fast.mem))[Root]
          <5>1. CASE fast.failed
            BY <4>6, <5>1
          <5>2. CASE ~fast.failed
            <6>1. post = MerkleRoot(fast.mem)
              BY <5>2
            <6> HIDE DEF post
            <6>2. IInv(post) /\ Sound(post) /\ Contents(post) = Contents(fast.mem)
              BY <4>6, <6>1, MerkleizeStep, MerkleizeSound, MerklePure DEF MerkleRoot
            <6> QED BY <6>2, SoundRoot, TrueIsTree
          <5> QED BY <5>1, <5>2
        <4> HIDE DEF post
        <4>8. WitnessInv'
          BY <3>1, <4>1, <4>2, <4>7 DEF WitnessInv
        <4>9. /\ last'.proven /\ last'.pc = pc
              /\ last'.fast.failed = fast.failed /\ last'.slow.failed = slow.failed
              /\ last'.fast.read = fast.read /\ last'.slow.read = slow.read
              /\ last'.fast.root = RootHash(post) /\ last'.slow.root = slow.memRoot
          BY <4>1
        <4>10. LastInv'
          BY <4>6, <4>7, <4>9
          DEF LastInv, WitnessAccepted, PostStatesAgree, OnlyMisalignedFetchFails
        <4> QED BY <4>8, <4>10
      <3>3. CASE ~proof
        <4> DEFINE fast == riscvStep(mem, FALSE, pc, op)
        <4>1. mem' = fast.mem /\ last' = NoStep
          BY <2>2, <3>3 DEF Step, PlainStep
        <4>2. proofMode = "never"
          BY <3>1, <3>3 DEF Proves, WitnessInv
        <4> DEFINE no == FALSE
        <4>3. fast = riscvStep(mem, no, pc, op) /\ no \in BOOLEAN /\ ~no
          OBVIOUS
        <4> HIDE DEF no, fast
        <4>4. IInv(fast.mem) /\ Sound(fast.mem) /\ NoCaches(fast.mem)
          BY <4>2, <4>3, StepAgrees DEF WitnessInv
        <4>5. WitnessInv'
          BY <3>1, <4>1, <4>2, <4>4 DEF WitnessInv
        <4>6. last'.proven = FALSE
          BY <4>1 DEF NoStep
        <4>7. LastInv'
          BY <4>6 DEF LastInv, WitnessAccepted, PostStatesAgree, OnlyMisalignedFetchFails
        <4> QED BY <4>5, <4>7
      <3> QED BY <3>2, <3>3
    <2>3. CASE Rerun
      <3> DEFINE m == MerkleRoot(mem)
      <3>1. mem' = Deserialize(Serialize(m)) /\ proofMode' \in ProofModes /\ last' = NoStep
        BY <2>3 DEF Rerun
      <3>2. IInv(m)
        BY MerkleizeStep DEF WitnessInv, MerkleRoot
      <3> HIDE DEF m
      <3>3. IInv(mem') /\ NoCaches(mem')
        BY <3>1, <3>2, ReloadStep, ReloadBare
      <3>4. Sound(mem')
        BY <3>3, NoCachesSound
      <3>5. WitnessInv'
        BY <3>1, <3>3, <3>4 DEF WitnessInv, AllOrNone
      <3>6. last'.proven = FALSE
        BY <3>1 DEF NoStep
      <3>7. LastInv'
        BY <3>6 DEF LastInv, WitnessAccepted, PostStatesAgree, OnlyMisalignedFetchFails
      <3> QED BY <3>5, <3>7
    <2> QED BY <2>1, <2>2, <2>3 DEF Next
  <1> QED BY <1>1, <1>2, PTL DEF Spec

\* The witness of a step that worked off chain is accepted on chain.
THEOREM WitnessAlwaysAccepted ==
    ASSUME AllOrNone
    PROVE  Spec => []WitnessAccepted
  BY WitnessInvariance, PTL DEF LastInv

\* Both VMs end a step with the same bytes read and the same memory root.
THEOREM PostStatesAlwaysAgree ==
    ASSUME AllOrNone
    PROVE  Spec => []PostStatesAgree
  BY WitnessInvariance, PTL DEF LastInv

\* No memory access panics but a fetch across two leaves.
THEOREM AccessesProvable ==
    ASSUME AllOrNone
    PROVE  Spec => []OnlyMisalignedFetchFails
  BY WitnessInvariance, PTL DEF LastInv

\* The memory root of a run is that of its bytes, whatever is cached.
THEOREM RootAlwaysTrue ==
    ASSUME AllOrNone
    PROVE  Spec => []RootMatchesContents
  <1>1. WitnessInv => RootMatchesContents
    BY SoundRoot DEF WitnessInv, RootMatchesContents
  <1> QED BY <1>1, WitnessInvariance, PTL

=============================================================================
