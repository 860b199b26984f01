----------------------------- MODULE FastState -----------------------------
(***************************************************************************)
(* The encodings of VMState in the fast VM (fast/state.go, fast/witness.go):*)
(* the state witness and its hash, the binary snapshot, and the calldata   *)
(* of one step of the slow VM.                                             *)
(*                                                                         *)
(* The memory is represented by its root, a word: the module Memory shows  *)
(* when the root stands for the contents, and how a snapshot holds the     *)
(* pages.  Keccak is a one-to-one function: a hash keeps what was hashed,  *)
(* next to the first byte, which the VM status replaces.                   *)
(***************************************************************************)
EXTENDS ByteOrder

Zero64 == FromInt(0)
Zero256 == [k \in 0 .. 31 |-> 0]

\* The zero hash of a state that never was hashed.
NoHash == [first |-> 0, of |-> <<>>]

\* NewVMState: the heap starts at 2^28; register 0 .. 31.
NewVMState ==
    [memRoot |-> Zero256, preimageKey |-> Zero256, preimageOffset |-> Zero64,
     pc |-> Zero64, exitCode |-> 0, exited |-> FALSE, step |-> Zero64,
     heap |-> [Zero64 EXCEPT ![3] = 16], loadReservation |-> Zero64,
     registers |-> [r \in 0 .. 31 |-> Zero64],
     lastHint |-> <<>>, witness |-> <<>>, stateHash |-> NoHash]

\* setRegister of the fast VM: a write to register 0 is dropped.
SetRegister(s, reg, v) ==
    IF reg = 0 THEN s ELSE [s EXCEPT !.registers[reg] = v]

Bool(b) == IF b THEN 1 ELSE 0

\* `for _, r := range state.Registers`: each of them big-endian.
EncodeRegisters(registers) ==
    [i \in 1 .. 8 * 32 |-> registers[(i - 1) \div 8][7 - ((i - 1) % 8)]]

\* From PreimageKey to Registers, the witness and the snapshot agree.
EncodeFields(s) ==
    BigEndian(32, s.preimageKey) \o BigEndian(8, s.preimageOffset)
      \o BigEndian(8, s.pc) \o <<s.exitCode, Bool(s.exited)>>
      \o BigEndian(8, s.step) \o BigEndian(8, s.heap)
      \o BigEndian(8, s.loadReservation) \o EncodeRegisters(s.registers)

\* Mutant: the heap comes before the step counter.
EncodeWitnessSwapped(s) ==
    BigEndian(32, s.memRoot) \o EncodeFields([s EXCEPT !.step = s.heap, !.heap = s.step])

\* The bytes that are hashed, and that both slow VMs load.
EncodeWitness(s) == BigEndian(32, s.memRoot) \o EncodeFields(s)

-----------------------------------------------------------------------------
STATE_WITNESS_SIZE == 362
EXITCODE_WITNESS_OFFSET == 32 + 32 + 8 + 8

VMStatusValid == 0
VMStatusInvalid == 1
VMStatusPanic == 2
VMStatusUnfinished == 3

vmStatus(exited, exitCode) ==
    IF ~exited THEN VMStatusUnfinished
    ELSE CASE exitCode = 0 -> VMStatusValid
           [] exitCode = 1 -> VMStatusInvalid
           [] OTHER -> VMStatusPanic

\* The hash of a witness, with the status read back from its bytes.  A
\* witness of another length is an error, with the zero hash.
StateHash(sw) ==
    LET exitCode == sw[EXITCODE_WITNESS_OFFSET + 1]
        exited == sw[EXITCODE_WITNESS_OFFSET + 2]
    IN  IF Len(sw) # STATE_WITNESS_SIZE THEN NoHash
        ELSE [first |-> vmStatus(exited = 1, exitCode), of |-> sw]

SetWitnessAndStateHash(s) ==
    LET witness == EncodeWitness(s)
    IN  [s EXCEPT !.witness = witness, !.stateHash = StateHash(witness)]

-----------------------------------------------------------------------------
(* The binary snapshot.  The pages and the final hash are one item each.   *)

WriteBytes(bytes) == BigEndian(8, FromInt(Len(bytes))) \o bytes

\* Mutant: the heap is written before the step counter.
SerializeSwapped(s) ==
    <<s.memRoot>> \o EncodeFields([s EXCEPT !.step = s.heap, !.heap = s.step])
      \o WriteBytes(s.lastHint) \o WriteBytes(s.witness) \o <<s.stateHash>>

Serialize(s) ==
    <<s.memRoot>> \o EncodeFields(s) \o WriteBytes(s.lastHint)
      \o WriteBytes(s.witness) \o <<s.stateHash>>

ReadUInt(in, at) == FromBigEndian(8, Slice(in, at, 8))

\* Where the field after a sequence of bytes begins.
SkipBytes(in, at) == at + 8 + ToInt(ReadUInt(in, at))

\* Sequences of bytes follow their length.
ReadBytes(in, at) == Slice(in, at + 8, ToInt(ReadUInt(in, at)))

\* The reader takes the fields in order, each where the last one ended.
Deserialize(in) ==
    LET u64(at) == ReadUInt(in, at)
        registers == 1 + 32 + 8 + 8 + 1 + 1 + 8 + 8 + 8
        hint == registers + 8 * 32
        witness == SkipBytes(in, hint)
        hash == SkipBytes(in, witness)
    IN  [memRoot |-> in[1],
         preimageKey |-> FromBigEndian(32, Slice(in, 1, 32)),
         preimageOffset |-> u64(33), pc |-> u64(41),
         exitCode |-> in[50], exited |-> in[51] # 0,
         step |-> u64(51), heap |-> u64(59), loadReservation |-> u64(67),
         registers |-> [r \in 0 .. 31 |-> u64(registers + 8 * r)],
         lastHint |-> ReadBytes(in, hint),
         witness |-> ReadBytes(in, witness),
         stateHash |-> in[hash + 1]]

-----------------------------------------------------------------------------
(* EncodeStepInput: the ABI encoding of step(bytes, bytes, bytes32).  The  *)
(* calldata after the selector is a sequence of words; a word is kept as   *)
(* what it stands for: a number, 32 bytes of the state, a node of a proof, *)
(* the local context.                                                      *)

\* A proof is the leaf and its 59 siblings.
memProofSize == 60 * 32

Words(n) == (n + 31) \div 32

\* The bytes of the state in words, the last one padded with zeroes.
StateWords(state) ==
    [w \in 1 .. Words(Len(state)) |->
        [i \in 1 .. 32 |->
            LET at == 32 * (w - 1) + i
            IN  IF at <= Len(state) THEN state[at] ELSE 0]]

\* Node n of proof p, both counted from zero.
Node(p, n) == <<p, n>>

MemProofWords(count) ==
    [w \in 1 .. 60 * count |-> Node((w - 1) \div 60, (w - 1) % 60)]

\* Two dynamic arguments, each an offset in the head and a length in front
\* of its contents, and the local context in the head.
EncodeStepInput(state, count) ==
    LET stateOffset == 3 * 32
        proofOffset == stateOffset + 32 + 32 * Words(Len(state))
    IN  <<stateOffset, proofOffset, "localContext">>
          \o <<Len(state)>> \o StateWords(state)
          \o <<count * memProofSize>> \o MemProofWords(count)
=============================================================================
