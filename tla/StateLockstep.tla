--------------------------- MODULE StateLockstep ---------------------------
(***************************************************************************)
(* The VM state in its three forms, changed in lock step: VMState of the   *)
(* fast VM, the bytes of the slow VM, the EVM memory of the on-chain VM.   *)
(* A step starts from the calldata that the fast VM's witness is encoded   *)
(* to, and then assigns fields in any order.  Between steps the fast VM    *)
(* may write a snapshot and go on from it.                                 *)
(***************************************************************************)
EXTENDS FastState

CONSTANTS
    Values,     \* 64-bit values that are assigned
    Hashes,     \* words that are assigned
    Registers,  \* registers that are assigned
    Proofs,     \* how many memory proofs a step may have
    MaxWrites   \* assignments in a behaviour

ASSUME ValuesAssumption == Values \subseteq U64 /\ Hashes \subseteq U256
ASSUME RegistersAssumption == Registers \subseteq 0 .. 31
\* FromInt holds the length of every hint: a write buffers two bytes.
ASSUME BoundsAssumption ==
    Proofs \subseteq 1 .. 4 /\ MaxWrites \in Nat /\ 2 * MaxWrites < 256 ^ 3

Slow == INSTANCE SlowState
Chain == INSTANCE ChainState

VARIABLES
    fast,       \* VMState
    data,       \* stateData of the slow VM
    mem,        \* memory of the on-chain VM
    input,      \* calldata of the step
    proofs,     \* the number of proofs in it
    stepping,   \* whether a step is under way
    writes      \* assignments so far

vars == <<fast, data, mem, input, proofs, stepping, writes>>

Load(calldata) ==
    /\ data' = Slow!LoadState(calldata)
    /\ mem' = Chain!LoadState(calldata)

Init ==
    /\ fast = NewVMState
    /\ proofs = 1
    /\ input = EncodeStepInput(EncodeWitness(fast), proofs)
    /\ data = Slow!LoadState(input)
    /\ mem = Chain!LoadState(input)
    /\ stepping = TRUE
    /\ writes = 0

\* The fast VM encodes its state, and the slow VMs load it.
BeginStep(count) ==
    /\ ~stepping
    /\ stepping' = TRUE
    /\ proofs' = count
    /\ input' = EncodeStepInput(EncodeWitness(fast), count)
    /\ Load(input')
    /\ UNCHANGED <<fast, writes>>

EndStep ==
    /\ stepping
    /\ stepping' = FALSE
    /\ UNCHANGED <<fast, data, mem, input, proofs, writes>>

-----------------------------------------------------------------------------
(* Assignments of a step, in the three VMs.                                *)

Write ==
    /\ stepping
    /\ writes < MaxWrites
    /\ writes' = writes + 1
    /\ UNCHANGED <<input, proofs, stepping>>

\* The fast VM writes memory; the others set the root they have computed.
WriteMemory(v) ==
    /\ Write
    /\ fast' = [fast EXCEPT !.memRoot = v]
    /\ data' = Slow!setMemRoot(data, v)
    /\ mem' = Chain!setMemRoot(mem, v)

WritePreimageKey(k) ==
    /\ Write
    /\ fast' = [fast EXCEPT !.preimageKey = k, !.preimageOffset = Zero64]
    /\ data' = Slow!setPreimageOffset(Slow!setPreimageKey(data, k), Zero64)
    /\ mem' = Chain!setPreimageOffset(Chain!setPreimageKey(mem, k), Chain!Word(Zero64))

\* On chain the call of the oracle is built in memory before the offset moves.
ReadPreimage(v) ==
    /\ Write
    /\ fast' = [fast EXCEPT !.preimageOffset = v]
    /\ data' = Slow!setPreimageOffset(data, v)
    /\ mem' = Chain!setPreimageOffset(
                  Chain!BuildOracleCall(mem, Chain!getPreimageKey(mem),
                                        Chain!getPreimageOffset(mem)),
                  Chain!Word(v))

SetPC(v) ==
    /\ Write
    /\ fast' = [fast EXCEPT !.pc = v]
    /\ data' = Slow!setPC(data, v)
    /\ mem' = Chain!setPC(mem, Chain!Word(v))

\* The exit system calls take the low byte of their argument.
Exit(a0) ==
    /\ Write
    /\ fast' = [fast EXCEPT !.exitCode = a0[0], !.exited = TRUE]
    /\ data' = Slow!setExited(Slow!setExitCode(data, a0[0]))
    /\ mem' = Chain!setExited(Chain!setExitCode(mem, Chain!ByteWord(a0[0])))

SetStep(v) ==
    /\ Write
    /\ fast' = [fast EXCEPT !.step = v]
    /\ data' = Slow!setStep(data, v)
    /\ mem' = Chain!setStep(mem, Chain!Word(v))

SetHeap(v) ==
    /\ Write
    /\ fast' = [fast EXCEPT !.heap = v]
    /\ data' = Slow!setHeap(data, v)
    /\ mem' = Chain!setHeap(mem, Chain!Word(v))

SetLoadReservation(v) ==
    /\ Write
    /\ fast' = [fast EXCEPT !.loadReservation = v]
    /\ data' = Slow!setLoadReservation(data, v)
    /\ mem' = Chain!setLoadReservation(mem, Chain!Word(v))

WriteRegister(reg, v) ==
    /\ Write
    /\ fast' = SetRegister(fast, reg, v)
    /\ data' = Slow!setRegister(data, reg, v)
    /\ mem' = Chain!setRegister(mem, reg, Chain!Word(v))

\* A hint is not part of the state that is proven.
WriteHint ==
    /\ Write
    /\ fast' = [fast EXCEPT !.lastHint = @ \o <<0, 255>>]
    /\ UNCHANGED <<data, mem>>

-----------------------------------------------------------------------------
(* Between steps.                                                          *)

\* The end of the run command: witness and hash go into the state file.
Output ==
    /\ ~stepping
    /\ fast' = SetWitnessAndStateHash(fast)
    /\ UNCHANGED <<data, mem, input, proofs, stepping, writes>>

\* A snapshot is written, and a new run starts from it.
Reload ==
    /\ ~stepping
    /\ fast' = Deserialize(Serialize(fast))
    /\ UNCHANGED <<data, mem, input, proofs, stepping, writes>>

Next ==
    \/ \E count \in Proofs : BeginStep(count)
    \/ EndStep
    \/ \E v \in Hashes : WriteMemory(v) \/ WritePreimageKey(v)
    \/ \E v \in Values :
          \/ ReadPreimage(v)
          \/ SetPC(v)
          \/ Exit(v)
          \/ SetStep(v)
          \/ SetHeap(v)
          \/ SetLoadReservation(v)
          \/ \E reg \in Registers : WriteRegister(reg, v)
    \/ WriteHint
    \/ Output
    \/ Reload

Spec == Init /\ [][Next]_vars

-----------------------------------------------------------------------------
(* Properties.                                                             *)

\* The three VMs name the same post-state: whatever fields a step has assigned,
\* in whatever order, the hash of the fast VM's encoding and the hashes the slow
\* VMs compute over their own bytes are equal.  The first byte of each, by which
\* a dispute game decides, tells a finished program from an unfinished one and a
\* valid claim from the others.
HashesAgree ==
    stepping =>
        LET hash == StateHash(EncodeWitness(fast))
        IN  /\ Slow!computeStateHash(data) = hash
            /\ Chain!computeStateHash(mem) = hash
            /\ hash.first = VMStatusUnfinished <=> ~fast.exited
            /\ hash.first = VMStatusValid <=> (fast.exited /\ fast.exitCode = 0)
            /\ hash.first = VMStatusInvalid <=> (fast.exited /\ fast.exitCode = 1)

\* In a step every getter of the slow VMs returns the field of the fast VM,
\* although one adds up offsets, one has them as literals, and neither is told
\* them by the encoder.
FieldsRead ==
    stepping =>
        /\ Slow!getMemRoot(data) = fast.memRoot
        /\ Chain!getMemRoot(mem) = fast.memRoot
        /\ Slow!getPreimageKey(data) = fast.preimageKey
        /\ Chain!getPreimageKey(mem) = fast.preimageKey
        /\ Slow!getPreimageOffset(data) = fast.preimageOffset
        /\ Chain!getPreimageOffset(mem) = Chain!Word(fast.preimageOffset)
        /\ Slow!getPC(data) = fast.pc
        /\ Chain!getPC(mem) = Chain!Word(fast.pc)
        /\ Slow!getExited(data) = fast.exited
        /\ Chain!getExited(mem) = Chain!ByteWord(Bool(fast.exited))
        /\ Slow!getExitCode(data) = fast.exitCode
        /\ Chain!getExitCode(mem) = Chain!ByteWord(fast.exitCode)
        /\ Slow!getStep(data) = fast.step
        /\ Chain!getStep(mem) = Chain!Word(fast.step)
        /\ Slow!getHeap(data) = fast.heap
        /\ Chain!getHeap(mem) = Chain!Word(fast.heap)
        /\ Slow!getLoadReservation(data) = fast.loadReservation
        /\ Chain!getLoadReservation(mem) = Chain!Word(fast.loadReservation)
        /\ \A reg \in 0 .. 31 :
              /\ Slow!getRegister(data, reg) = fast.registers[reg]
              /\ Chain!getRegister(mem, reg) = Chain!Word(fast.registers[reg])

\* The calldata of a step passes the checks of both slow VMs, and each finds
\* every node of every proof in it, behind a state whose size is no multiple of
\* a word.
InputServesBoth ==
    /\ Slow!AcceptsInput(input)
    /\ Chain!AcceptsInput(input)
    /\ \A p \in 0 .. proofs - 1, n \in 0 .. 59 :
          /\ Slow!ProofNode(input, p, n) = Node(p, n)
          /\ Chain!ProofNode(input, p, n) = Node(p, n)

\* A snapshot loses nothing: neither the fields, nor an incomplete hint, nor the
\* witness and hash of an earlier output.
SnapshotLossless == Deserialize(Serialize(fast)) = fast

\* An assignment on chain stays inside the state: only the call of the oracle
\* changes the memory behind it, although the words that hold the last registers
\* reach into that call.
FreeMemoryKept ==
    [][(stepping /\ stepping') =>
         \/ \A i \in Chain!FreeBytes : mem'[i] = mem[i]
         \/ \E v \in Values : ReadPreimage(v)]_vars
=============================================================================
