---------------------------- MODULE StepWitness ----------------------------
(***************************************************************************)
(* The memory side of one VM step, off chain and on chain.                 *)
(*                                                                         *)
(* Off chain: InstrumentedState (rvgo/fast/instrumented.go) runs a step on *)
(* the fast VM's Memory and, with proofs enabled, records a Merkle proof   *)
(* of every leaf the step touches, before it is changed.  On chain: the    *)
(* slow VM (rvgo/slow/vm.go) has only the pre-state's memory root and the  *)
(* proofs; it verifies each leaf it reads and folds each leaf it writes    *)
(* into a new root.  Registers and control flow are abstracted to the      *)
(* addresses, sizes and values an instruction accesses memory with.        *)
(***************************************************************************)
EXTENDS Memory

CONSTANTS
    FetchSize,  \* bytes of an instruction: 4 in the code
    PCs,        \* the addresses instructions are fetched from
    Stored,     \* the byte strings instructions store
    ProofModes  \* how run decides which steps to prove: see Proves

ASSUME StepAssumption ==
    /\ FetchSize \in 1..LeafBytes
    /\ PCs \subseteq Address
    /\ Stored \subseteq Dat

NoProof == 99  \* 0xff: no right-hand proof is expected

-----------------------------------------------------------------------------
(* What an instruction does to memory is a sequence of the following       *)
(* primitives, in the order the code performs them.                        *)

Track(leaf, index)     == [kind |-> "track", leaf |-> leaf, index |-> index]
Check(leaf, index)     == [kind |-> "check", leaf |-> leaf, index |-> index]
Read(addr, n)          == [kind |-> "read", addr |-> addr, n |-> n]
Write(addr, dat)       == [kind |-> "write", addr |-> addr, dat |-> dat]
WritePatched(addr, dat) == [kind |-> "patch", addr |-> addr, dat |-> dat]
Revert                 == [kind |-> "revert"]

When(condition, ops) == IF condition THEN ops ELSE << >>

\* Mutant: an access that ends with its leaf counts as one that crosses.
CrossesAtEnd(addr, size) == addr.byte + size >= LeafBytes

\* The access [addr, addr + size) reaches into the next leaf.
Crosses(addr, size) == addr.byte + size > LeafBytes

\* The leaves of a load are tracked before any of it is read.
loadMem(addr, size, proofIndexL, proofIndexR) ==
    <<Track(addr.leaf, proofIndexL)>>
    \o When(Crosses(addr, size),
            <<IF proofIndexR = NoProof THEN Revert ELSE Track(NextLeaf(addr.leaf), proofIndexR)>>)
    \o <<Read(addr, size)>>

\* Mutant: both leaves are proven before either is written.
storeMemProvesFirst(addr, dat, proofIndexL, proofIndexR, verifyL, verifyR) ==
    When(verifyL, <<Track(addr.leaf, proofIndexL)>>)
    \o When(Crosses(addr, Len(dat)) /\ verifyR, <<Track(NextLeaf(addr.leaf), proofIndexR)>>)
    \o <<Write(addr, dat)>>

\* storeMem and storeMemUnaligned: the right leaf is proven after the left one
\* has been written.
storeMem(addr, dat, proofIndexL, proofIndexR, verifyL, verifyR) ==
    LET size  == Len(dat)
        fit   == LeafBytes - addr.byte
        right == NextLeaf(addr.leaf)
        left  == When(verifyL, <<Track(addr.leaf, proofIndexL)>>)
                 \o <<Check(addr.leaf, proofIndexL)>>
    IN  IF ~Crosses(addr, size)
        THEN left \o <<Write(addr, dat)>>
        ELSE left
             \o When(proofIndexR = NoProof, <<Revert>>)
             \o <<Write(addr, SubSeq(dat, 1, fit))>>
             \o When(verifyR, <<Track(right, proofIndexR)>>)
             \o <<Check(right, proofIndexR),
                  Write([leaf |-> right, byte |-> 0], SubSeq(dat, fit + 1, size))>>

getMemoryB32(leaf, proofIndex) ==
    <<Track(leaf, proofIndex), Read([leaf |-> leaf, byte |-> 0], LeafBytes)>>

\* setMemoryB32 of the leaf just read, with dat put over it.
setMemoryB32(addr, dat, proofIndex) ==
    <<Check(addr.leaf, proofIndex), WritePatched(addr, dat)>>

-----------------------------------------------------------------------------
(* The instructions, by the way they access memory.                        *)
(*   plain    no access but the fetch                                      *)
(*   load     loads, LR                                                    *)
(*   store    stores, a successful SC, clock_gettime, getrlimit            *)
(*   amo      read-modify-write of an aligned value, one proof for both    *)
(*   getLeaf  writePreimageKey: read one leaf                              *)
(*   patch    readPreimageValue: read one leaf, write part of it           *)

Op == [kind : {"plain"}]
      \union [kind : {"load"}, addr : Accesses, size : 1..LeafBytes]
      \union [kind : {"store"}, addr : Accesses, dat : Stored]
      \union {op \in [kind : {"amo"}, addr : Accesses, dat : Stored] :
                 op.addr.byte % Len(op.dat) = 0}
      \union [kind : {"getLeaf"}, addr : Accesses]
      \union {op \in [kind : {"patch"}, addr : Accesses, dat : Stored] :
                 ~Crosses(op.addr, Len(op.dat))}

\* The fetch, whose leaf needs no right-hand proof, then the access.
Primitives(pc, op) ==
    loadMem(pc, FetchSize, 0, NoProof) \o
    CASE op.kind = "plain"   -> << >>
      [] op.kind = "load"    -> loadMem(op.addr, op.size, 1, 2)
      [] op.kind = "store"   -> storeMem(op.addr, op.dat, 1, 2, TRUE, TRUE)
      [] op.kind = "amo"     -> loadMem(op.addr, Len(op.dat), 1, 2)
                                \o storeMem(op.addr, op.dat, 1, 3, FALSE, TRUE)
      [] op.kind = "getLeaf" -> getMemoryB32(op.addr.leaf, 1)
      [] op.kind = "patch"   -> getMemoryB32(op.addr.leaf, 1)
                                \o setMemoryB32(op.addr, op.dat, 1)

\* Mutant: the patch of the left leaf starts one byte late.
LeftPatchLate(old, addr, dat) ==
    [b \in 0..(LeafBytes - 1) |->
        IF b > addr.byte /\ b < addr.byte + Len(dat) THEN dat[b - addr.byte + 1] ELSE old[b]]

\* leftAndRight: the patch dat makes to the left leaf, and to the right one.
LeftPatch(old, addr, dat) ==
    [b \in 0..(LeafBytes - 1) |->
        IF b >= addr.byte /\ b < addr.byte + Len(dat) THEN dat[b - addr.byte + 1] ELSE old[b]]

RightPatch(old, addr, dat) ==
    [b \in 0..(LeafBytes - 1) |->
        IF b + LeafBytes < addr.byte + Len(dat) THEN dat[b + LeafBytes - addr.byte + 1] ELSE old[b]]

-----------------------------------------------------------------------------
(* Off chain.  The state of a step: the memory, the proofs and their       *)
(* addresses so far, the bytes read so far, whether the step has panicked. *)

NewStep(m, proof) ==
    [mem |-> m, memProofEnabled |-> proof, memProofs |-> << >>, memAccess |-> << >>,
     read |-> << >>, failed |-> FALSE]

Fail(s) == [s EXCEPT !.failed = TRUE]

trackMemAccess(s, leaf, proofIndex) ==
    IF ~s.memProofEnabled THEN s
    ELSE IF Len(s.memProofs) # proofIndex THEN Fail(s)
    ELSE [s EXCEPT !.memProofs = Append(@, Proof(s.mem, leaf)),
                   !.memAccess = Append(@, leaf),
                   !.mem       = MerkleProof(@, leaf)]

verifyMemChange(s, leaf, proofIndex) ==
    IF /\ s.memProofEnabled
       /\ proofIndex >= Len(s.memAccess) \/ leaf # s.memAccess[proofIndex + 1]
    THEN Fail(s) ELSE s

\* The leaf that was read last.
LastLeaf(s) == [b \in 0..(LeafBytes - 1) |-> s.read[Len(s.read) - LeafBytes + 1 + b]]

\* One primitive of the fast VM; nothing happens after a panic.
fastDo(s, p) ==
    IF s.failed THEN s
    ELSE CASE p.kind = "track"  -> trackMemAccess(s, p.leaf, p.index)
           [] p.kind = "check"  -> verifyMemChange(s, p.leaf, p.index)
           [] p.kind = "read"   -> [s EXCEPT !.read = @ \o GetResult(s.mem, p.addr, p.n),
                                             !.mem  = GetUnaligned(@, p.addr, p.n)]
           [] p.kind = "write"  -> [s EXCEPT !.mem = SetUnaligned(@, p.addr, p.dat)]
           [] p.kind = "patch"  ->
                 LET new == LeftPatch(LastLeaf(s), p.addr, p.dat)
                 IN  [s EXCEPT !.mem = SetUnaligned(@, [p.addr EXCEPT !.byte = 0],
                                                    [i \in 1..LeafBytes |-> new[i - 1]])]
           [] p.kind = "revert" -> Fail(s)

riscvStep(m, proof, pc, op) ==
    LET ops == Primitives(pc, op)
        run[i \in 0..Len(ops)] == IF i = 0 THEN NewStep(m, proof) ELSE fastDo(run[i - 1], ops[i])
    IN  run[Len(ops)]

-----------------------------------------------------------------------------
(* On chain.  The state of a step: the memory root, the proofs of the      *)
(* witness, the bytes read so far, and whether the step has reverted.      *)

NewSlow(root, proofs) == [memRoot |-> root, proofs |-> proofs, read |-> << >>, failed |-> FALSE]

\* The root that a leaf value and the siblings of a proof amount to.
FoldProof(leaf, value, siblings) ==
    LET node[d \in 0..AddrSize] ==
            IF d = AddrSize THEN value
            ELSE IF leaf[d + 1] = 0 THEN HashPair(node[d + 1], siblings[d + 1])
                                    ELSE HashPair(siblings[d + 1], node[d + 1])
    IN  node[0]

\* getMemoryB32 reverts unless the proof at the index leads to the memory root;
\* a proof beyond the calldata leads nowhere.
slowGet(t, leaf, proofIndex) ==
    IF \/ proofIndex >= Len(t.proofs)
       \/ LET p == t.proofs[proofIndex + 1]
          IN  FoldProof(leaf, p.leaf, p.siblings) # t.memRoot
    THEN Fail(t) ELSE t

slowLeaf(t, proofIndex) == t.proofs[proofIndex + 1].leaf

slowSetMemoryB32(t, leaf, v, proofIndex) ==
    [t EXCEPT !.memRoot = FoldProof(leaf, v, t.proofs[proofIndex + 1].siblings)]

\* The bytes a load takes from the left leaf and, across the seam, the right one.
slowBytes(t, addr, size, proofIndexL, proofIndexR) ==
    [i \in 1..size |->
        IF addr.byte + i <= LeafBytes
        THEN slowLeaf(t, proofIndexL)[addr.byte + i - 1]
        ELSE slowLeaf(t, proofIndexR)[addr.byte + i - 1 - LeafBytes]]

\* Primitives of the slow VM: verify a leaf, read bytes of verified leaves, and
\* patch a verified leaf, which is the left one or the right one of the store.
SlowTake(addr, n, l, r)     == [kind |-> "take", addr |-> addr, n |-> n, l |-> l, r |-> r]
SlowPatch(kind, addr, dat, index) == [kind |-> kind, addr |-> addr, dat |-> dat, index |-> index]

slowLoadMem(addr, size, proofIndexL, proofIndexR) ==
    <<Track(addr.leaf, proofIndexL)>>
    \o When(Crosses(addr, size),
            <<IF proofIndexR = NoProof THEN Revert ELSE Track(NextLeaf(addr.leaf), proofIndexR)>>)
    \o <<SlowTake(addr, size, proofIndexL, proofIndexR)>>

\* storeMem: each leaf is verified against the root the writes before it left.
slowStoreMem(addr, dat, proofIndexL, proofIndexR) ==
    <<Track(addr.leaf, proofIndexL), SlowPatch("left", addr, dat, proofIndexL)>>
    \o When(Crosses(addr, Len(dat)),
            When(proofIndexR = NoProof, <<Revert>>)
            \o <<Track(NextLeaf(addr.leaf), proofIndexR), SlowPatch("right", addr, dat, proofIndexR)>>)

slowPrimitives(pc, op) ==
    LET whole == [op.addr EXCEPT !.byte = 0]
    IN  slowLoadMem(pc, FetchSize, 0, NoProof) \o
        CASE op.kind = "plain"   -> << >>
          [] op.kind = "load"    -> slowLoadMem(op.addr, op.size, 1, 2)
          [] op.kind = "store"   -> slowStoreMem(op.addr, op.dat, 1, 2)
          [] op.kind = "amo"     -> slowLoadMem(op.addr, Len(op.dat), 1, 2)
                                    \o slowStoreMem(op.addr, op.dat, 1, 3)
          [] op.kind = "getLeaf" -> slowLoadMem(whole, LeafBytes, 1, NoProof)
          [] op.kind = "patch"   -> slowLoadMem(whole, LeafBytes, 1, NoProof)
                                    \o <<SlowPatch("left", op.addr, op.dat, 1)>>

slowDo(t, p) ==
    IF t.failed THEN t
    ELSE CASE p.kind = "track"  -> slowGet(t, p.leaf, p.index)
           [] p.kind = "take"   -> [t EXCEPT !.read = @ \o slowBytes(t, p.addr, p.n, p.l, p.r)]
           [] p.kind = "left"   ->
                 slowSetMemoryB32(t, p.addr.leaf,
                                  LeftPatch(slowLeaf(t, p.index), p.addr, p.dat), p.index)
           [] p.kind = "right"  ->
                 slowSetMemoryB32(t, NextLeaf(p.addr.leaf),
                                  RightPatch(slowLeaf(t, p.index), p.addr, p.dat), p.index)
           [] p.kind = "revert" -> Fail(t)

\* The slow VM's step over the witness of the fast one.
slowStep(root, proofs, pc, op) ==
    LET ops == slowPrimitives(pc, op)
        run[i \in 0..Len(ops)] == IF i = 0 THEN NewSlow(root, proofs) ELSE slowDo(run[i - 1], ops[i])
    IN  run[Len(ops)]

-----------------------------------------------------------------------------
(* A run of the VM (cmd/run.go), with the on-chain step after every step   *)
(* that is proven.                                                         *)

VARIABLES
    mem,       \* the fast VM's memory
    proofMode, \* "always", "never" or "some": the --proof-at matcher of the run
    last,      \* what the two VMs made of the last step, if it was proven
    halted     \* the step panicked, and run returned its error

vars == <<mem, proofMode, last, halted>>

NoStep == [proven |-> FALSE]

Init ==
    /\ mem = NewMemory
    /\ proofMode \in ProofModes
    /\ last = NoStep
    /\ halted = FALSE

Proves(proof) ==
    /\ proofMode = "always" => proof
    /\ proofMode = "never" => ~proof

\* A proven step: the pre-state's root goes into the witness, the post-state's
\* into the proof file.
ProvenStep(pc, op) ==
    LET pre  == MerkleRoot(mem)
        fast == riscvStep(pre, TRUE, pc, op)
        slow == slowStep(RootHash(mem), fast.memProofs, pc, op)
        post == IF fast.failed THEN fast.mem ELSE MerkleRoot(fast.mem)
    IN  /\ mem' = post
        /\ last' = [ proven |-> TRUE, pc |-> pc,
                     fast |-> [failed |-> fast.failed, read |-> fast.read, root |-> RootHash(post)],
                     slow |-> [failed |-> slow.failed, read |-> slow.read, root |-> slow.memRoot] ]
        /\ halted' = fast.failed

PlainStep(pc, op) ==
    LET fast == riscvStep(mem, FALSE, pc, op)
    IN  /\ mem' = fast.mem
        /\ last' = NoStep
        /\ halted' = fast.failed

Step(proof, pc, op) ==
    /\ ~halted
    /\ Proves(proof)
    /\ IF proof THEN ProvenStep(pc, op) ELSE PlainStep(pc, op)
    /\ UNCHANGED proofMode

\* The run ends with SetWitnessAndStateHash and writes the state; a later run
\* reads it, with a --proof-at of its own.
Rerun ==
    /\ ~halted
    /\ mem' = Deserialize(Serialize(MerkleRoot(mem)))
    /\ proofMode' \in ProofModes
    /\ last' = NoStep
    /\ UNCHANGED halted

Next ==
    \/ \E proof \in BOOLEAN, pc \in PCs, op \in Op : Step(proof, pc, op)
    \/ Rerun

Spec == Init /\ [][Next]_vars

-----------------------------------------------------------------------------
(* Properties.                                                             *)

\* A step fails in both VMs or in neither: the witness of a step that worked
\* off chain is never rejected on chain.
WitnessAccepted == last.proven => last.slow.failed = last.fast.failed

\* Both VMs read the same bytes and end with the same memory root.
PostStatesAgree ==
    last.proven /\ ~last.fast.failed =>
        last.slow.read = last.fast.read /\ last.slow.root = last.fast.root

\* A run that proves every step, or none, computes the Merkle root of the bytes
\* the memory holds, so its state hash is one any other implementation gets.
RootMatchesContents == RootHash(mem) = TrueHash(mem)[Root]

\* The proof indices of every instruction are consistent: no access panics but
\* an instruction fetch across two leaves, which a PC off alignment makes.
OnlyMisalignedFetchFails ==
    last.proven /\ last.fast.failed => last.pc.byte + FetchSize > LeafBytes

=============================================================================
