----------------------------- MODULE ChainState ----------------------------
(***************************************************************************)
(* The VM state of the on-chain VM (rvsol/src/RISCV.sol): EVM memory from  *)
(* 0x80, where the state is copied to and followed by free memory.  The    *)
(* EVM reads and writes whole words: a getter shifts what it has read, and *)
(* a setter merges the field into the word that begins at it, with the     *)
(* bytes of the fields behind it, or of free memory behind the last ones.  *)
(* Offsets are literals.  Addresses are relative to memStateOffset.        *)
(*                                                                         *)
(* All shifts are by whole bytes and all masks are of whole bytes, so that *)
(* a shift moves weights and a mask is a set of weights.                   *)
(***************************************************************************)
EXTENDS ByteOrder

\* stateSizeMemRoot and so on.
FieldSize ==
    [MemRoot |-> 32, PreimageKey |-> 32, PreimageOffset |-> 8, PC |-> 8,
     ExitCode |-> 1, Exited |-> 1, Step |-> 8, Heap |-> 8,
     LoadReservation |-> 8, Registers |-> 8 * 32]

stateOffsetMemRoot == 0
stateOffsetPreimageKey == 32
stateOffsetPreimageOffset == 64
stateOffsetPC == 72
stateOffsetExitCode == 80
stateOffsetExited == 81
stateOffsetStep == 82
stateOffsetHeap == 90
stateOffsetLoadReservation == 98
stateOffsetRegisters == 106
stateSize == 362

\* The free memory the call of the pre-image oracle uses, and a word more.
FreeSize == 68 + 32
StateBytes == 0 .. stateSize - 1
FreeBytes == stateSize .. stateSize + FreeSize - 1
Bytes == [0 .. stateSize + FreeSize - 1 -> Byte]

mload(m, at) == [k \in 0 .. 31 |-> m[at + 31 - k]]
mstore(m, at, w) ==
    [i \in DOMAIN m |-> IF i \in at .. at + 31 THEN w[31 - (i - at)] ELSE m[i]]

\* shr(shl(3, n), w) and shl(shl(3, n), w).
shrBytes(n, w) == [k \in 0 .. 31 |-> IF k + n <= 31 THEN w[k + n] ELSE 0]
shlBytes(n, w) == [k \in 0 .. 31 |-> IF k >= n THEN w[k - n] ELSE 0]

\* A value on the stack: a 64-bit number or a byte is a word.
Word(v) == [k \in 0 .. 31 |-> IF k \in DOMAIN v THEN v[k] ELSE 0]
ByteWord(b) == [k \in 0 .. 31 |-> IF k = 0 THEN b ELSE 0]

readState(m, offset, length) == shrBytes(32 - length, mload(m, offset))

\* Mutant: the rest of the word is not merged back.
writeStateWhole(m, offset, length, data) ==
    mstore(m, offset, shlBytes(32 - length, data))

\* or(and(prev, not(mask)), data): no weight is in both operands of the or.
writeState(m, offset, length, data) ==
    LET mask == 32 - length .. 31
        prev == mload(m, offset)
        aligned == shlBytes(32 - length, data)
    IN  mstore(m, offset,
               [k \in 0 .. 31 |-> (IF k \in mask THEN 0 ELSE prev[k]) + aligned[k]])

getMemRoot(m) == readState(m, stateOffsetMemRoot, FieldSize.MemRoot)
setMemRoot(m, v) == writeState(m, stateOffsetMemRoot, FieldSize.MemRoot, v)

getPreimageKey(m) == readState(m, stateOffsetPreimageKey, FieldSize.PreimageKey)
setPreimageKey(m, k) ==
    writeState(m, stateOffsetPreimageKey, FieldSize.PreimageKey, k)

getPreimageOffset(m) == readState(m, stateOffsetPreimageOffset, FieldSize.PreimageOffset)
setPreimageOffset(m, v) ==
    writeState(m, stateOffsetPreimageOffset, FieldSize.PreimageOffset, v)

getPC(m) == readState(m, stateOffsetPC, FieldSize.PC)
setPC(m, v) == writeState(m, stateOffsetPC, FieldSize.PC, v)

getExited(m) == readState(m, stateOffsetExited, FieldSize.Exited)
setExited(m) == writeState(m, stateOffsetExited, FieldSize.Exited, ByteWord(1))

getExitCode(m) == readState(m, stateOffsetExitCode, FieldSize.ExitCode)
setExitCode(m, v) == writeState(m, stateOffsetExitCode, FieldSize.ExitCode, v)

getStep(m) == readState(m, stateOffsetStep, FieldSize.Step)
setStep(m, v) == writeState(m, stateOffsetStep, FieldSize.Step, v)

getHeap(m) == readState(m, stateOffsetHeap, FieldSize.Heap)
setHeap(m, v) == writeState(m, stateOffsetHeap, FieldSize.Heap, v)

getLoadReservation(m) == readState(m, stateOffsetLoadReservation, FieldSize.LoadReservation)
setLoadReservation(m, v) ==
    writeState(m, stateOffsetLoadReservation, FieldSize.LoadReservation, v)

registerOffset(reg) == stateOffsetRegisters + reg * 8

getRegister(m, reg) == readState(m, registerOffset(reg), 8)
setRegister(m, reg, v) ==
    IF reg = 0 THEN m ELSE writeState(m, registerOffset(reg), 8, v)

vmStatus(m) ==
    IF getExited(m) = ByteWord(1)
    THEN CASE getExitCode(m) = ByteWord(0) -> 0
           [] getExitCode(m) = ByteWord(1) -> 1
           [] OTHER -> 2
    ELSE 3

\* keccak256(memStateOffset(), stateSize()): the state without what follows.
computeStateHash(m) ==
    [first |-> vmStatus(m), of |-> [i \in 1 .. stateSize |-> m[i - 1]]]

-----------------------------------------------------------------------------
(* readPreimagePart builds the call of the oracle in free memory, which    *)
(* begins where the state ends: a selector of four bytes, key and offset.  *)

selector == Word([k \in 0 .. 3 |-> <<225, 16, 49, 224>>[k + 1]])

BuildOracleCall(m, key, offset) ==
    LET memPtr == stateSize
        withSelector == mstore(m, memPtr, shlBytes(28, selector))
        withKey == mstore(withSelector, memPtr + 4, key)
    IN  mstore(withKey, memPtr + 36, offset)

-----------------------------------------------------------------------------
(* The calldata.  _stateData.offset and _proof.offset are what the         *)
(* compiler makes of the two offsets in the head.                          *)

calldataload(input, offset) == input[(offset - 4) \div 32 + 1]
stateDataOffset(input) == calldataload(input, 4) + 4 + 32
proofDataOffset(input) == calldataload(input, 36) + 4 + 32

paddedLen(v) == v + ((32 - (v % 32)) % 32)
proofContentOffset == 548

AcceptsInput(input) ==
    /\ stateDataOffset(input) = 132
    /\ calldataload(input, stateDataOffset(input) - 32) = stateSize
    /\ proofDataOffset(input) = stateDataOffset(input) + paddedLen(stateSize) + 32
    /\ proofDataOffset(input) = proofContentOffset
    /\ calldataload(input, proofContentOffset - 32) % (60 * 32) = 0

\* calldatacopy into fresh memory.
LoadState(input) ==
    [i \in StateBytes \cup FreeBytes |->
        IF i \in FreeBytes THEN 0
        ELSE calldataload(input, stateDataOffset(input) + 32 * (i \div 32))[(i % 32) + 1]]

proofOffset(proofIndex) == proofIndex * 60 * 32 + proofContentOffset

ProofNode(input, proofIndex, n) ==
    calldataload(input, proofOffset(proofIndex) + 32 * n)
=============================================================================
