----------------------------- MODULE SlowState -----------------------------
(***************************************************************************)
(* The VM state of the slow VM (slow/vm.go): the witness bytes themselves. *)
(* Every getter decodes a range of stateData and every setter overwrites   *)
(* one.  Offsets are sums of the sizes before them.                        *)
(***************************************************************************)
EXTENDS ByteOrder

\* stateSizeMemRoot and so on.
FieldSize ==
    [MemRoot |-> 32, PreimageKey |-> 32, PreimageOffset |-> 8, PC |-> 8,
     ExitCode |-> 1, Exited |-> 1, Step |-> 8, Heap |-> 8,
     LoadReservation |-> 8, Registers |-> 8 * 32]

stateOffsetMemRoot == 0
stateOffsetPreimageKey == stateOffsetMemRoot + FieldSize.MemRoot
stateOffsetPreimageOffset == stateOffsetPreimageKey + FieldSize.PreimageKey
stateOffsetPC == stateOffsetPreimageOffset + FieldSize.PreimageOffset
stateOffsetExitCode == stateOffsetPC + FieldSize.PC
stateOffsetExited == stateOffsetExitCode + FieldSize.ExitCode
stateOffsetStep == stateOffsetExited + FieldSize.Exited
stateOffsetHeap == stateOffsetStep + FieldSize.Step
stateOffsetLoadReservation == stateOffsetHeap + FieldSize.Heap
stateOffsetRegisters == stateOffsetLoadReservation + FieldSize.LoadReservation
stateSize == stateOffsetRegisters + FieldSize.Registers
paddedStateSize == stateSize + ((32 - (stateSize % 32)) % 32)

\* The bytes of stateData by their offset.
Bytes == [0 .. stateSize - 1 -> Byte]

readState(d, offset, length) == [i \in 1 .. length |-> d[offset + i - 1]]

writeState(d, offset, length, data) ==
    [k \in DOMAIN d |->
        IF k \in offset .. offset + length - 1 THEN data[k - offset + 1] ELSE d[k]]

getMemRoot(d) ==
    FromBigEndian(32, readState(d, stateOffsetMemRoot, FieldSize.MemRoot))
setMemRoot(d, v) ==
    writeState(d, stateOffsetMemRoot, FieldSize.MemRoot, BigEndian(32, v))

getPreimageKey(d) ==
    FromBigEndian(32, readState(d, stateOffsetPreimageKey, FieldSize.PreimageKey))
setPreimageKey(d, k) ==
    writeState(d, stateOffsetPreimageKey, FieldSize.PreimageKey, BigEndian(32, k))

getPreimageOffset(d) ==
    FromBigEndian(8, readState(d, stateOffsetPreimageOffset, FieldSize.PreimageOffset))
setPreimageOffset(d, v) ==
    writeState(d, stateOffsetPreimageOffset, FieldSize.PreimageOffset, BigEndian(8, v))

getPC(d) == FromBigEndian(8, readState(d, stateOffsetPC, FieldSize.PC))
setPC(d, v) ==
    writeState(d, stateOffsetPC, FieldSize.PC, BigEndian(8, v))

getExited(d) == d[stateOffsetExited] # 0
setExited(d) == [d EXCEPT ![stateOffsetExited] = 1]

getExitCode(d) == d[stateOffsetExitCode]
setExitCode(d, v) == [d EXCEPT ![stateOffsetExitCode] = v]

getStep(d) == FromBigEndian(8, readState(d, stateOffsetStep, FieldSize.Step))
setStep(d, v) ==
    writeState(d, stateOffsetStep, FieldSize.Step, BigEndian(8, v))

getHeap(d) == FromBigEndian(8, readState(d, stateOffsetHeap, FieldSize.Heap))
setHeap(d, v) ==
    writeState(d, stateOffsetHeap, FieldSize.Heap, BigEndian(8, v))

getLoadReservation(d) ==
    FromBigEndian(8, readState(d, stateOffsetLoadReservation, FieldSize.LoadReservation))
setLoadReservation(d, v) ==
    writeState(d, stateOffsetLoadReservation, FieldSize.LoadReservation, BigEndian(8, v))

\* A register number comes from five bits of an instruction or from the
\* code: the revert for one above 31 is out of reach.
registerOffset(reg) == stateOffsetRegisters + reg * 8

getRegister(d, reg) == FromBigEndian(8, readState(d, registerOffset(reg), 8))

\* Mutant: register 0 is a register like the others.
setRegisterAny(d, reg, v) == writeState(d, registerOffset(reg), 8, BigEndian(8, v))

setRegister(d, reg, v) ==
    IF reg = 0 THEN d ELSE writeState(d, registerOffset(reg), 8, BigEndian(8, v))

vmStatus(d) ==
    IF getExited(d)
    THEN CASE getExitCode(d) = 0 -> 0 [] getExitCode(d) = 1 -> 1 [] OTHER -> 2
    ELSE 3

computeStateHash(d) ==
    [first |-> vmStatus(d), of |-> readState(d, 0, stateSize)]

-----------------------------------------------------------------------------
(* The calldata of a step: see EncodeStepInput of FastState.               *)

\* The word at an offset; the selector takes the first four bytes.
calldataload(input, offset) == input[(offset - 4) \div 32 + 1]

stateContentOffset == 4 + 32 + 32 + 32 + 32
proofContentOffset == stateContentOffset + paddedStateSize + 32

\* The checks before the first instruction.
AcceptsInput(input) ==
    /\ calldataload(input, 4) + (32 + 4) = stateContentOffset
    /\ calldataload(input, 4 + 32 * 3) = stateSize
    /\ calldataload(input, stateContentOffset + paddedStateSize) % (60 * 32) = 0
    /\ calldataload(input, 36) + (32 + 4) = proofContentOffset

\* copy(stateData, calldata[stateContentOffset:])
LoadState(input) ==
    [k \in 0 .. stateSize - 1 |->
        calldataload(input, stateContentOffset + 32 * (k \div 32))[(k % 32) + 1]]

\* Mutant: the leaf is not counted.
proofOffsetShort(proofIndex) == proofIndex * 59 * 32 + proofContentOffset

proofOffset(proofIndex) == proofIndex * 60 * 32 + proofContentOffset

\* The nodes getMemoryB32 and setMemoryB32 read: the leaf and 59 siblings.
ProofNode(input, proofIndex, n) ==
    calldataload(input, proofOffset(proofIndex) + 32 * n)
=============================================================================
