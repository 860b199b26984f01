# TLA+ models of asterisc

asterisc is a RISC-V fault-proof VM. A program runs off chain in the *fast* VM
(`rvgo/fast`). When the outcome is disputed, a single step is replayed on chain, by
`rvsol/src/RISCV.sol`, of which `rvgo/slow` is a copy in Go. What crosses the border is
a *witness*: the encoded state with the Merkle root of memory, and a Merkle proof for
every 32-byte leaf of memory the step touches. The system is correct when both sides
agree on the state after every step. It is hard to get right because the fast side
reaches its roots and proofs through layers of caches, and the slow side trusts nothing.

## 1. Inventory

| Part | State | Operations | Interacts with | What makes it correct |
|---|---|---|---|---|
| Memory (`fast/memory.go`, `radix.go`, `page.go`) | page map, two-entry lookup cache, six-level radix trie of cached hashes, a hash cache in every page | `SetUnaligned`, `GetUnaligned`, `AllocPage`, `Invalidate`, `MerkleRoot`, `MerkleProof`, `Serialize`, `Deserialize`, `SetMemoryRange`, `ReadMemoryRange` | the fast VM, state files | a flat array of bytes; root and proofs are those of the bytes |
| Instrumented step (`fast/instrumented.go`, memory functions of `fast/vm.go`) | proofs and addresses of the step, last pre-image | `Step`, `trackMemAccess`, `verifyMemChange`, `readPreimage`, `loadMem`, `storeMem` | memory, oracle, run command | one proof per leaf, taken at the right moment |
| Slow step (`slow/vm.go`, `RISCV.sol`) | encoded state, memory root, calldata | `getMemoryB32`, `setMemoryB32`, `loadMem`, `storeMem`, control flow and system calls | witness, on-chain pre-image oracle | accepts exactly what the fast step produces, and ends in the same state |
| Instruction execution (both VMs) | registers, PC, heap, reservation, exit code | decode, arithmetic, branches, AMO, system calls | memory, oracle | both VMs agree; RISC-V semantics |
| Arithmetic (`yul64.go`, `yul256.go`) | none | 64- and 256-bit operations | both VMs | both versions agree at the edges |
| State and witness encoding (`fast/state.go`, `witness.go`) | `VMState` | encode, hash, serialize | run, contracts | round trip; layout shared with the slow VM |
| Run command (`cmd/run.go`) | loop position, flags, files | `Run`, `Guard` | VM, oracle process | ends, leaves no process, writes only whole steps |
| Oracle process (`cmd/process_preimage_oracle.go`) | child process, wait goroutine, `waitErr`, client pipes | `Start`, `Hint`, `GetPreimage`, `Close`, `wait` | run command, external server | no deadlock, no orphan |
| ELF loader (`fast/elf.go`, `cmd/load_elf.go`) | initial state | `LoadELF`, `PatchVM`, `SetMemoryRange` | memory | segments, patches and stack land where they belong, in order; the hash commits to exactly this memory |
| Output (`memReader`, the `write` call of `fast/vm.go`) | position of the reader, `LastHint` | `ReadMemoryRange`, `Read`, the loop over hints | memory, oracle | streams come out byte for byte, hints whole and in order |

The hard behaviours are the caches of memory under mixed reads, writes, roots, proofs and
reloads; accesses across leaves, pages and the end of the address space; the order of
proofs and writes inside a step; the oracle's two goroutines, child process, and its exit
at any moment; snapshots and restarts. `PROJECT.json` lists them as hazards, line by line.

## 2. Modules

**`Memory`** holds the data structure as a value and every Go method as an operator. A node
of the Merkle tree is the sequence of bits that leads to it from the root, so a leaf address
is a full sequence and its prefixes are the nodes above it: `(addr, gindex)` in the code
names the same thing. `LevelDepths` gives the depth of each radix level
(`<<0, 16, 32, 38, 44, 48, 52>>` in the code), `PageDepth` the depth of a page (7),
`LeafBytes` the size of a leaf (32). A hash is the pair of its inputs: Keccak without
collisions. `Hashes` is defined on the nodes that are `HashValid`, a page's `Cache` on the
slots that are `Ok`; `Children` is the set of pointers that are not nil. An operation with
an effect and a result is two operators (`GetUnaligned`/`GetResult`,
`MerkleProof`/`Proof`, `pageLookup`/`pageExists`). `Contents` and `TrueHash` are the
reference: the bytes, and the Merkle root from scratch. `SetUnaligned` and `GetUnaligned`
take at most a leaf of bytes and panic beyond; the model has no longer accesses.

**`RadixMemory`** is the state machine over one `Memory`: `Set`, `Get`, `Merkle`, `Prove`
and `Reload` (snapshot and restart). **`FlatMemory`** is the abstract specification, a byte
array. **`MemoryProofs`** and **`RadixMemoryProofs`** hold the proofs. The modules compose
as follows:

    FlatMemory <--implemented by-- RadixMemory --extends--> Memory <--extends-- StepWitness
    AluLockstep --instances--> FastAlu, SlowAlu --instance--> Alu;   AluISA;   Yul256
    StateLockstep --extends--> FastState,  --instances--> SlowState, ChainState;   ByteOrder
    Loader --extends--> Memory;   VMLockstep --extends--> VMControl, --instances--> SlowControl
    Decode, PreimageIO, GuestOutput, OracleRun stand alone

**`StepWitness`** composes the fast VM's memory access, over `Memory`, with the slow VM's,
over a root and proofs. An instruction is what it does to memory: `plain`, `load`, `store`,
`amo`, `getLeaf` (pre-image key) or `patch` (pre-image read). `riscvStep` runs it on the fast
side and collects proofs; `slowStep` runs it on the witness. `proofMode` is the `--proof-at`
matcher of the run: every step, no step, or some steps. `Rerun` is the end of one run and the
start of another on its output. A panic ends the step where it is, and the run with it.
The slow VM reads the leaf and siblings of a proof out of calldata; a proof beyond the
calldata reads as other bytes there and leads to no root, which the model has as a failure.
**`StepWitnessProofs`** holds the proofs.

**`OracleRun`** models `Run` and `ProcessPreimageOracle`: the goroutine of `Run` (`main`), the
goroutine of `wait` (`waiter`), the server process (external: it answers what it has had a
hint for, and may exit at any time), the files and later runs. The VM is reduced to its
dealings with the oracle: hint writes of any cut, key writes, pre-image reads, exit. The key
is written by one step here, by as many as its bytes need in the code. `GuardedStepFails`
stands for a panic in the client, `recover` in `riscvStep`, `Guard`, and the error return of
`Run` together, since no other goroutine can see anything between them.
**`HostIOProofs`** holds its proofs and those of `GuestOutput`.

**`Alu`** is the arithmetic of `riscvStep`, which `fast/vm.go` and `slow/vm.go` have in the
same words, over 64-bit operations that are its parameters. **`FastAlu`** instantiates it with
the operations of `fast/yul64.go` (Go's `uint64`), **`SlowAlu`** with those of
`slow/yul64.go`, which compute on 256-bit EVM words (**`Yul256`**) and mask the results.
A bitwise operation goes through the ones of its operands (`Ones`, `OfOnes`), the shifts and
the rest are integer arithmetic.
**`AluISA`** is the RISC-V manual in integers. **`AluLockstep`** runs a program on two registers
and compares the three in every state, for every instruction. **`AluProofs`** has the proofs.

**`Decode`** is `fast/parse.go` and what `riscvStep` makes of immediates. A word is the set of
the positions of its ones. The state machine is an assembler: it picks a layout of the manual,
flips bits of the immediate and of the other fields, and puts them together.

**`VMControl`** is everything else in a step: program counter, step counter, heap, reservation,
exit status and the results of system calls. The registers an instruction reads may hold
anything, so their values are inputs. A step that fails stops where it is, with the step counter
already advanced (`Fails`): `failed` is the code it has reverted with, or `"panic"` when it has
ended without one. So ends a read of a pre-image that the oracle does not answer
(`ReadPreimagePanics`), and a write whose range laps the address space, whose stream or server
fails, or whose hint is too long (`WritePanics`). `regions`, `overrun`, `reserved`, `stored` and `told` are history.
**`SlowControl`** is the same part of the slow VM, as
functions of its state, from the text of `slow/vm.go`; **`VMLockstep`** gives both the same
instructions with the same operands. It has neither streams nor a server: where the fast VM panics
it completes the call, or reverts because the part of the pre-image is not on chain.
**`InstructionProofs`** has the proofs about `Decode`,
`VMControl`, `VMLockstep` and `PreimageIO`.

**`PreimageIO`** is the guest's side of the oracle: `writePreimageKey`, `readPreimageValue` and
`readPreimage`, one system call a step, over flat memory. A program asks for one pre-image
after the other, with keys and buffers at any alignment and pieces of any size. The masks and
shifts of `readPreimageValue` are modelled as it computes them, on a word of bytes (`LowBytes`,
`Mask`, `ShiftRight`, `Stored`). `asked` is the
part that the slow VM requests in the same step. `EncodePreimageOracleInput` says which call
puts the witness of that step into the on-chain oracle and under which key it is kept there,
and the VM on chain has to find it under the key it asks for.

**`GuestOutput`** is the other direction: the `write` system call on stdout, stderr and the
hint descriptor. A step is one `Read` of `memReader`, into a buffer of any size, or one turn
of the loop that takes complete hints out of `LastHint`. `wrote` is the history of what the
program has written.

**`Loader`** is the `load-elf` command over `Memory`: the segments with their padding, the
patches, the stack, the witness and the state file, then the start of `run` on that file. A
step is one turn of the loop of `SetMemoryRange`. An ELF file is its program headers and the
symbols that are patched; parsing it is external. **`LoaderProofs`** has the proofs.

**`FastState`**, **`SlowState`** and **`ChainState`** are the VM state in its three forms: the
`VMState` structure with its encodings (witness, hash, snapshot, calldata), the byte array of
the slow VM, and the memory of the on-chain VM, which reads and writes whole EVM words at byte
offsets. They share only **`ByteOrder`**; each has its own getters, setters and offsets, from
its own source. **`StateLockstep`** assigns fields in all three at once.
**`StateLockstepProofs`** has the proofs.

Operators with the comment *Mutant* are deliberately wrong versions of the definition that
follows them. No specification uses them; each shows that a property can fail.

## 3. Runs

| Run | Shows |
|---|---|
| `radix_memory` | The caches stay sound under any order of operations: lookup cache, page roots, trie against page map, "invalid up to the root", coherence of every trie hash with what is below it, no change of the root by reads, roots and proofs; and `RadixMemory` implements `FlatMemory`, with accesses over the ends of pages and of the address space. |
| `step_witness` | In a run that proves every step, or none, the slow VM accepts every witness, reads the same bytes, ends with the same root; the root is that of the bytes; nothing but a fetch off alignment fails. |
| `step_witness_some` (violation) | A run that proves some steps can produce a witness that the slow VM rejects: finding 1. |
| `alu` | Both arithmetics agree with each other and with the manual, for every instruction and every pair of operands. |
| `decode` | Immediates come back as they were assembled, fields share no bit, and shifts separate their type from their amount. |
| `state_lockstep` | The three forms of the state give the same hash and the same fields after any assignments; the calldata of a step serves both slow VMs; a snapshot loses nothing; the on-chain VM leaves the memory behind its state alone. |
| `vm_control` | The program counter stays aligned, regions of `mmap` stay disjoint, `fcntl` and `read`/`write` agree on what a descriptor is good for, SC stores only where LR has reserved, and the slow VM has the same program counter, heap, reservation, exit status, results and revert codes after every instruction, until the host makes the fast VM panic. |
| `preimage_io` | A key is assembled from its pieces, a value is delivered whole and in order, what the witness of a read puts on chain is the part the slow VM asks for, under the key it asks with, nothing outside the buffer changes, and a started request gets to its end. |
| `guest_output` | Output is the bytes of memory in order, hints reach the oracle whole and in order, and a write returns. |
| `loader` | The loaded memory is the image of the file, byte for byte; the root in the pre-state is that of this memory and of the file that `run` reads; the trie obeys the rule later writes rely on; the command returns. |
| `oracle_run` | Run ends, leaves no server behind, writes no half-done step to a file, reads the right pre-images, and hints before it reads. |
| `oracle_restart` (violation) | A run from a snapshot reads a pre-image its server had no hint for: finding 2. |

**Bounds.** The trie has a level of two bits above a level of one (`MCLevelDepths`), enough
for two levels with different widths, siblings within a node and across nodes, and eight
pages. `radix_memory` uses pages of four leaves of two bytes; the last byte of the first
page, where an access goes on in the sibling page, and the last byte of memory, where it goes
on in the first page.
`step_witness` has pages of four leaves, so that a page has inner nodes besides its root, and
both aligned and misaligned fetches; `Accesses` includes the last byte of memory. All these
state spaces are finite without any further bound and are explored in full.

`alu` uses registers of 4 bits with "32-bit" halves of 2, and EVM words of 12. All operand
pairs are reached. The edges, division by zero, the one overflow of signed division, shifts by
the width, sign bits of both halves, exist at every width. `decode` sets at most two bits of
an immediate (`MaxBits`) and one of the other fields (`MaxOthers`), and complements: every
operation of the decoder but the sign extension treats each bit by itself, and the sign is one
of the bits. The theorem needs neither bound. `state_lockstep` has the real sizes, 362 bytes
of state and 60-word proofs, one to four; the values are all ones, which show a byte that
leaks, and all different, which show a byte out of place; two assignments (`MaxWrites`) are
each neighbour of a field after the field. `vm_control` has an address space of 64 with pages
of 8, so that `mmap` rounds, wraps and runs out of it in four steps (`MaxSteps`), and `Values`
off and on alignment, zero and maximal. `preimage_io` has leaves of 4 bytes, keys and buffers
off and on a leaf, a local key and two global ones, values shorter and longer than a leaf and
an empty one, and three requests (`MaxRequests`), so that each meets what another has left in
the caches. `guest_output` has three pages of four bytes, ranges that end with a page, inside
the next, at the end of memory and beyond it, hints with a length of two bytes, each of four
values, and two calls (`MaxCalls`), so that a hint is cut by a call. `loader` has four pages of
four bytes, up to two segments: over two page ends, up to one, overlapping, padded, empty,
around the end of memory, with sizes that do not fit; symbols inside and outside them.

`OracleRun` bounds the program's steps (`MaxSteps`) and the number of runs (`MaxRuns`): seven
steps hold two hints, two key writes, two reads and an exit, two runs hold one restart.
`CheckEvery` is 2 in place of 100, so that some steps look at the context and others do not.

**Deadlock** is not checked in `step_witness` (a panic ends the run), in `vm_control`,
`preimage_io` and `guest_output` (the program stops at its bound), in `loader` (the command ends) and in the `oracle` runs (the command ends;
that it does end is `Terminates`).

**Fairness.** In `OracleRun`, goroutines are scheduled: weak fairness of `RunStep` and
`WaitStep`. The server answers a request it can serve, and exits on an interrupt or on a
request it cannot serve. The code does not enforce the last: `Close` waits without a limit.
The server's exit at any other time is possible and never required. In `PreimageIO` the
program goes on with a key or a value it has begun; `Run` executes step after step until the
program exits, so that nothing in the VM stands in its way.
In `GuestOutput` an instruction, in `Loader` a command goes on until it returns; failures of
files are possible and never required.

## 4. Findings

1. `Memory.Invalidate` tests the page's root before it calls `CachedPage.Invalidate`, and
   returns if the root is invalid. That is right for the trie, which the theorem
   `EarlyReturnSafe` proves, and wrong for the page: a root is computed, one part of a page is
   written (its path up to the page's root is cleared), another part is written (nothing is
   cleared), and the next root uses the second part's old hash. So `MerkleRoot` is not always
   the root of the bytes, and no run claims it of `RadixMemory`. At the level of steps: with
   proofs at some steps of a run, a step between two proven ones that writes two leaves makes
   the second witness unacceptable (`step_witness_some`). A run that proves every step escapes,
   because the proof of a leaf, taken before the write, fills the page's cache again; a run
   that proves none escapes because nothing is cached (`step_witness`).
2. The comment on `LastHint` promises that a run can be resumed by repeating the last hint. The
   code removes every complete hint from `LastHint`, and never repeats one (`oracle_restart`).

Observations without a run:

* `Run` gives `po.cmd.ProcessState` to `Guard` by value before the first step, when it is nil, so
  that the message for a server that has exited is never used.
* `readPreimageValue` has a branch for the end of a value, a part of zero bytes, and so has the
  slow VM. `readPreimage` panics at that offset instead, and the run fails.
* `readPreimage` never returns an error, so that the fast VM's revert with
  `ErrFailToReadPreimage` is not used: it panics without a code where the slow VM reverts with
  that code (`SlowInStep`).
* `memReader.Read` takes a range that comes back, around the address space, to a point before
  its start in the page it starts in for one that ends in that page, and panics; the slow VM
  returns the count, and `SlowInStep` leaves it room for that. `OutputExact` says that no other
  range does.
* `4 + hintLen` wraps at 32 bits: a hint within four bytes of 4 GiB panics (`OutputExact`).
* `SetMemoryRange` takes the end of a truncated ELF file for the end of a segment.
* A local pre-image of more than 32 bytes cannot be put on chain (`EncodePreimageOracleInput`);
  `PreimageAssumption` leaves it out. Nor can a key that is neither local nor a Keccak hash.
* `SetUnaligned` invalidates the nodes over the first of the leaves it writes in a page. The VM
  cuts its writes at the ends of leaves, so that none of them reaches a second one.

## 5. Proofs

All theorems hold for every value of the constants that satisfies the named assumptions:

* `LevelsAssumption` (the levels start at the root, ascend and leave no gap),
  `PageAssumption`, `DataAssumption`, `StepAssumption` (an instruction is no longer than a
  leaf);
* `ControlAssumption`: the address space is a multiple of four and at least a page, the entry
  point is aligned, and a run takes fewer steps than the 64-bit step counter counts, after
  which it would wrap around in one VM as in the other;
* `WidthAssumption`: a register has a power of two of bits, so that a shift amount is a mask, and
  a wide word more than twice as many;
* `RunAssumption`, `LoaderAssumption`; `PatchAssumption`: no patch and no word on the stack is
  longer than memory, so that none writes over its own start;
* `PowersAssumption` of `Loader`, of `GuestOutput` and of `Yul256`: that the powers of two and of the number of
  byte values are positive and follow one another, of which the provers know nothing;
* `OutputAssumption`: pages divide the address space, buffers are not empty;
* `ValuesAssumption`, `RegistersAssumption` and `BoundsAssumption` of `StateLockstep`: values are of
  eight and of 32 bytes, a step has one to four proofs, and the hint a snapshot keeps, of at most
  two bytes a write, has a length of three bytes, the most that `FromInt` gives;
* `PreimageAssumption`: what the oracle gives has its length in front, local data fit into a
  leaf, and no two Keccak keys have the same data, since the key is the hash of the data.

Two theorems have a hypothesis of their own. `AllOrNone`, of those on `StepWitness`: a run
proves every step or none. Without it they are false, by finding 1. `Encodable`, of
`WitnessAlwaysServes`: the program asks for local and Keccak pre-images only;
`EncodePreimageOracleInput` has an error for the rest.

**Memory.** A hash is computed by recursion over the tree. The provers cannot instantiate
induction principles that take an operator, but they can apply one that takes a set:
`MemoryProofs` proves induction up to a bound (`NatInd`) and from the leaves of a tree to its
root (`TreeInd`) for sets, from the library's theorem that `<` is well founded. `Folds` says
of a function that it is computed in this way; two functions that fold alike above the same
values are the same (`FoldAgree`), and all comparisons of hashes go through it.

* `RadixMemoryProofs!Invariance`: `IInv` is inductive. `EarlyReturnSafe`, `TrieComplete`
  and `CachesAlwaysSound` follow. None of them is inductive alone.
  `InvalidUpToRoot` is preserved by `Invalidate` only because a walk to an allocated page
  meets no nil child (`TrieSpansPages`), and by `MerkleizeNode` only because everything above
  an invalid page is recomputed, so that a merkleization that makes a node above such a page
  valid also gets to the page (`VisitsInvalid`). That the lookup cache names
  only allocated pages is what makes `pageLookup` find exactly the allocated pages.
* `TrieStaysCoherent`: with `IInv`, `Coherent` is inductive. A write invalidates the nodes on
  the path to its page, and what is off the path hashes as before; a page whose root was
  invalid already has no valid node above it, so the early return leaves nothing behind.
* `CachingPure`: roots and proofs only add to the caches what would be computed without them
  (`Fills`), and that changes no result (`FillsSame`).
* `ReadsAlwaysFlat` and `RefinesFlatMemory`: a read returns what `Contents` has, a write
  changes `Contents` in the bytes it covers, every other step leaves them.

**Steps.** `StepWitnessProofs` is a simulation between the two VMs.

* `Sound(m)` says that every valid hash is the one of the contents from scratch. A write keeps
  it if the page it writes to is `Clean`: valid to its root, or without any valid slot. That is
  what finding 1 lacks. `WitnessInv`: a memory is sound, and a run that proves no step has
  nothing cached.
* In the fast VM, `Good` says that a step goes well so far in a memory of known contents;
  `Tracked` that the proof at an index is that of a leaf at the time. The proof of a leaf fills
  the caches of its page (`Ready`), so that the write that follows it keeps `Sound`.
* In the slow VM, `OnTrack` says that the root is that of these contents. `FoldProofRoot`: a
  proof leads from a leaf to the root, and from the leaf's new value to the new root.
* `Agree` says of the two sequences of primitives of an instruction that they read the same
  and leave the same contents. It holds for each instruction (`AgreeLoad`, `AgreeStore`,
  `AgreeAmo`, `AgreePatch`), including those that cross two leaves, where the second proof is
  taken after the first leaf is written. `StepAgrees` puts the fetch in front.

`WitnessAlwaysAccepted`, `PostStatesAlwaysAgree`, `AccessesProvable` and `RootAlwaysTrue`
follow.

**Loader.** `LoadInv`: until `SetWitnessAndStateHash` nothing is cached, neither in the trie
nor in a page, so that a write that invalidates nothing above its page leaves nothing stale;
after it no range is open, so that nothing is written, and the root is that of the contents,
which the file preserves. `LoaderKeepsTrie` and `PrestateAlwaysCommits` follow.
`ImageAlwaysLoaded` rests on `ImageInv`: at every moment each byte of memory is the one that the
writes finished so far leave there, in their order, and within the range that is under way the
part that is done has been written over it. A turn of the loop of `SetMemoryRange` writes at most
to the end of a page, and the reader's position is the number of bytes written, across the end
of memory; so the range ends with all of its bytes in place.

**State.** `WitnessByte(s, i)` is the byte that the state `s` has at place `i` of its encoding. The
invariant `StateInv` says that within a step the array of the slow VM and the memory on chain
mirror the state of the fast VM: they have `WitnessByte` at each of the 362 places. It is needed
because the on-chain setters write 32-byte words at byte offsets, so that an assignment first
merges the bytes of the neighbours; that it changes no byte but its own takes the value of all of
them. From the mirrors, the getters return the fields (`FieldsAlwaysRead`), and the hashes, which
are pairs of their input, are equal (`HashesAlwaysAgree`). `BufferInv` bounds the hint and knows
the two lengths a witness has, from which the places of all items in a snapshot follow
(`SnapshotAlwaysLossless`). `InputServesBoth` is inductive by itself, with the invariant: the
encoder puts the 18 words of the head, the state and the proofs where both sides look
(`InputLayout`).

**Output.** `CopyInv`: what has been copied, followed by the bytes of the range that is left, is
what the program has written; a `Read` moves bytes from one to the other (`RangeSplit`), and makes
progress unless the range laps the address space (`ReadFits`). `OutputAlwaysExact` is one of its
parts. `WholeInv`: the hints given, each with its length in front, followed by `LastHint`, are what
has been written, without the range of a call under way; and where the loop has stopped no
complete hint waits. A hint that is cut out of `LastHint` is found again under its length because
the digits of the number that `hintLen` computes are the bytes it was computed from
(`ValueDigits`). `hintLen` and `FlattenSeq` are recursive; `UpTo` is induction up to a bound, for
sets, which gives the functions that satisfy their equations (`ValuesExist`, `FlattensExist`) and
that no others do. `HintsAlwaysWhole` follows.

**Pre-images.** `TransferInv`: while a key is written, all of it is in memory, and the bytes
written are the end of the key in the VM state; while a value is read, the offset of the state
is the number of bytes that have arrived; the pre-image kept between steps is that of its key;
the witness notes what the step has read. `StoredBytes` says which bytes the masked word puts into
memory. `AlwaysDelivered`, `BufferOnly` and `WitnessAlwaysServes` follow.

**Oracle and run.**

* `ServerReaped`: strengthened by "a live server has its `wait` goroutine in
  `cmd.Wait`", so that the send that `Close` receives means the server is gone.
* `CacheCorrect`: strengthened by what `readPreimage` waits for while it has
  replaced the key and not yet the pre-image.
* `FilesHandled`, by `HintInv`: between two steps less than a whole hint is buffered, so that a
  state that is filed has sent every hint that is complete; only a step that is hinting, or has
  failed, may have taken a hint out of `LastHint` that no server has dealt with.
* `ServerHinted`, by `ServedInv`: in the first run, what has been dealt with has been dealt
  with by the server of this run. In a later run it has not: finding 2.

**Instructions.**

* `PcAlwaysAligned`, by `PcInv`: the program counter is also a word; offsets
  may be anything, since jumps to a target off alignment revert.
* `ReservationSound`, by `ReservationInv`: the reservation register is zero or
  the address of the last LR, which the history variable keeps.
* `MmapDisjoint`, by `HeapInv`: all regions are below the heap pointer until
  the program has overrun the address space.
* `ModesAlwaysAgree`, by `ModesInv`: what `fcntl` has last told is what it would tell now.
* `SlowStaysInStep`, by `LockInv`: every handler of the slow VM, applied to the state of the
  fast one, gives the state the fast one goes to, with the same code where both revert. A panic
  of the fast VM ends the run; `SetAhead` says what the slow VM is then: reverted for want of the
  pre-image, or one completed system call ahead, with nothing else changed.
* `DecodingSound`: a bit is in an immediate exactly when the bit at its place is
  in the word, because no two bits share a place and no other field has one (`BitsInPlace`);
  a bit is in a shifted, masked or extended word exactly when another one is in the argument
  (`FieldMoved`, `SignBits`). Each layout compares the two, bit by bit; so do
  the shifts by an immediate (`ShiftsRight`). The only invariant
  needed is that immediates and other fields have bits of their own places.

**Arithmetic.** The inductive invariant `Registers` says only that registers hold words; both
properties of `AluLockstep` hold for whatever words they are (`RegistersAlwaysWords`). The work is
in the operators.

* A word and its ones determine each other (`OnesOf`, `OfOnesOf`). `OfOnes` is recursive; a sum
  that satisfies its equation exists (`SumsExist`, by induction up to a bound, for sets), and its
  first `k` terms are the remainder by the `k`-th power (`SumLow`). So `and` with a row of low ones
  is a remainder (`AndMask`), `or` with a row of high ones a sum (`OrRow`), the two together a write
  of the lower half (`Merge`), and the lower bits of a bitwise operation depend on the lower bits of
  its operands only (`LowOps`).
* `ArithmeticAlwaysAgrees`: the slow VM computes on wide words and cuts, the fast VM cuts at once;
  cutting to the wide size first changes nothing (`CutTwice`). Signed operations of the slow VM are
  those of the EVM on sign-extended registers, which have the same signed reading (`ExtendWide`).
  One lemma an opcode (`OpImmAgrees` to `AmoAgrees`) puts the operations together.
* `ManualAlwaysMatched`: `signExtend64` is two's complement (`SpreadValue`), so that
  `mask32Signed64` is the manual's sign extension of the lower half (`MaskIsSext`); sums,
  differences and products of lower halves are congruent to those of the registers
  (`CongruentSums`, `CongruentProduct`); a product of two sign-extended registers fits a wide word
  as far as its upper half is taken (`UpperExact`); an arithmetic shift of a lower half is a logical
  one extended from the sign's new place (`ShiftSignedManual`); sign extension keeps the unsigned
  order of lower halves, which AMOMINU.W and AMOMAXU.W rest on (`SignedHalf`). One lemma an opcode
  (`MulDivManual` to `AmoManual64`) compares the results.

The proofs made two definitions of the model plainer: `AluISA` chose the function code of a shift
by a `CASE` whose arms overlapped, and the bitwise operations were recursive operators.

**Only model-checked.** Liveness (`Terminates`, `Completes`, `WriteReturns`, `LoadTerminates`)
is out of the prover's reach. All other properties of the passing runs are theorems.

## 6. Plan

Done: memory, step witness, arithmetic, decoding, control flow and system calls in both VMs,
pre-image input and its way on chain, output and hints, state encodings, run and oracle
process, loader; the proofs of section 5. Next:

1. `VMStep`: `Decode`, `Alu`, `VMControl` and `StepWitness` composed into a whole instruction over
   the state of `StateLockstep`. The product is out of reach of TLC; the parts meet in operands,
   memory accesses and results, which each part takes as inputs of any value.

## 7. Not modelled

The instructions of `RISCV.sol` are represented by the slow VM, whose functions have the same
names and order; its access to the state and to calldata is modelled from its own text. `slow/parse.go` differs
from `fast/parse.go` in the package only, and `Decode` stands for both. Flag
parsing, logging, metadata, symbol lookup, the `witness` command (it prints what
`StateLockstep` computes), the dispute-game helpers of `op-e2e`, generated bindings, deployment scripts and profiling have no state
the VM depends on. The JSON form of a state is left out in favour of the binary one. Keccak is
taken as injective.
