----------------------------- MODULE PreimageIO -----------------------------
(***************************************************************************)
(* How a program gets a pre-image through the VM: it writes the key and    *)
(* reads the value with system calls that each touch one leaf of memory    *)
(* and transfer as many bytes as fit (writePreimageKey, readPreimageValue  *)
(* and readPreimage of rvgo/fast, and their counterparts on chain).        *)
(*                                                                         *)
(* Memory is an array of bytes, as FlatMemory promises.  The program is    *)
(* one that asks for pre-images one after the other, puts keys and buffers *)
(* at any alignment, transfers in pieces of any size, and may leave a      *)
(* value before it has read all of it.                                     *)
(***************************************************************************)
EXTENDS Integers, SequencesExt

CONSTANTS
    LeafBytes,    \* bytes of a leaf, and of a key: 32 in the code
    MemBytes,     \* bytes of memory
    Byte,         \* values of a byte
    Keys,         \* the keys the program asks for
    Preimage,     \* of each key: the length prefix and the data, as bytes
    KeyAddrs,     \* where the program puts keys
    BufAddrs,     \* where the program puts values
    Counts,       \* the number of bytes a system call asks for
    MaxRequests   \* bound on the requests of a run

\* The types of keys, in their first byte.
LocalKeyType == 1
Keccak256KeyType == 2

\* A value starts with its length (eight bytes in the code, one here).  What is
\* local to a program is no longer than a leaf: the contract takes no more.  Any
\* other key is the hash of its data, so that no two keys have the same.
ASSUME PreimageAssumption ==
    /\ LeafBytes \in Nat \ {0}
    /\ MemBytes \in Nat
    /\ Keys \subseteq [1..LeafBytes -> Byte]
    /\ \A k \in Keys : Preimage[k] \in Seq(Byte) /\ Head(Preimage[k]) = Len(Tail(Preimage[k]))
    /\ \A k \in Keys : k[1] = LocalKeyType => Len(Tail(Preimage[k])) <= LeafBytes
    /\ \A j, k \in Keys :
          j[1] = Keccak256KeyType /\ k[1] = Keccak256KeyType
          /\ Tail(Preimage[j]) = Tail(Preimage[k]) => j = k
    /\ KeyAddrs \union BufAddrs \subseteq Nat
    /\ \A addr \in KeyAddrs : addr + LeafBytes <= MemBytes
    /\ \A addr \in BufAddrs, k \in Keys : addr + Len(Preimage[k]) <= MemBytes
    /\ Counts \subseteq Nat \ {0}

Nil == << >>           \* lastPreimage before the first read
NoOffset == -1         \* ^uint64(0): nothing is read in this step
NoPart == [key |-> Nil, offset |-> NoOffset]
NoWitness == [key |-> Nil, value |-> Nil, offset |-> NoOffset]

VARIABLES
    mem,                \* the bytes of memory
    PreimageKey,        \* of the VM state
    PreimageOffset,
    lastPreimage,       \* of the instrumented state, kept between steps
    lastPreimageKey,
    witness,            \* the pre-image in the witness of the last step
    asked,              \* the part the slow VM asks its oracle for in that step
    panicked,           \* the last step has panicked
    guest,              \* the program: its phase, key, address, bytes transferred
    requests

preimageVars == <<mem, PreimageKey, PreimageOffset, lastPreimage, lastPreimageKey, witness, asked,
                  panicked, guest, requests>>

Idle == [phase |-> "idle", key |-> Nil, addr |-> 0, done |-> 0]

PreimageInit ==
    /\ mem = [i \in 0..(MemBytes - 1) |-> 0]
    /\ PreimageKey = [i \in 1..LeafBytes |-> 0]
    /\ PreimageOffset = 0
    /\ lastPreimage = Nil
    /\ lastPreimageKey = [i \in 1..LeafBytes |-> 0]
    /\ witness = NoWitness
    /\ asked = NoPart
    /\ panicked = FALSE
    /\ guest = Idle
    /\ requests = 0

-----------------------------------------------------------------------------
(* The system calls.                                                       *)

Least(S) == CHOOSE n \in S : \A m \in S : n <= m

\* Mutant: the last byte of a leaf is left for the next call.
RoomShort(addr) == LeafBytes - 1 - (addr % LeafBytes)

\* The bytes from an address to the end of its leaf.
Room(addr) == LeafBytes - (addr % LeafBytes)

\* The effects of a write to the pre-image descriptor, apart from the key.
KeyWritten(n) ==
    /\ witness' = NoWitness
    /\ asked' = NoPart
    /\ guest' = [guest EXCEPT !.done = @ + n]
    /\ UNCHANGED <<mem, lastPreimage, lastPreimageKey, panicked>>

\* Mutant: the bytes of the leaf after the ones asked for are not shifted out.
writePreimageKeyUncut(addr, count) ==
    LET n == Least({count, Room(addr)})
    IN  /\ PreimageKey' = SubSeq(PreimageKey, n + 1, LeafBytes)
                          \o [i \in 1..n |-> mem[addr + Room(addr) - n + i - 1]]
        /\ PreimageOffset' = 0
        /\ KeyWritten(n)

\* The write to the pre-image descriptor: the key is shifted by as many bytes
\* as the call takes, and reading starts from the beginning.
writePreimageKey(addr, count) ==
    LET n == Least({count, Room(addr)})
    IN  /\ PreimageKey' = SubSeq(PreimageKey, n + 1, LeafBytes)
                          \o [i \in 1..n |-> mem[addr + i - 1]]
        /\ PreimageOffset' = 0
        /\ KeyWritten(n)

\* Mutant: a pre-image that is there is taken for the one asked for.
FetchedAny == lastPreimage # Nil

\* readPreimage keeps the pre-image of the last key.
Fetched == lastPreimage # Nil /\ PreimageKey = lastPreimageKey

\* Where readPreimage panics.
OutOfBounds(value) == PreimageOffset >= Len(value)

\* The bytes a read transfers: no more than are asked for, than fit in the leaf,
\* and than the part holds, which is a leaf of bytes or the end of the value.
Transferred(value, count, addr) ==
    Least({count, Room(addr), LeafBytes, Len(value) - PreimageOffset})

\* A leaf as a big-endian word, and a mask of its bytes, are shifted by whole bytes:
\* the first byte is the highest.
ShiftRight(n, word, zero) == [i \in 1..LeafBytes |-> IF i > n THEN word[i - n] ELSE zero]

\* 2^(8k) - 1, as a mask: the k lowest bytes, all of them when the one is shifted out.
LowBytes(k) == [i \in 1..LeafBytes |-> i > LeafBytes - k]

\* Mutant: the mask is one byte too long.
MaskLong(n, alignment) ==
    ShiftRight(alignment, [i \in 1..LeafBytes |-> ~LowBytes(LeafBytes - 1 - n)[i]], FALSE)

\* The mask of n bytes, left-aligned and then shifted by the alignment.
Mask(n, alignment) ==
    ShiftRight(alignment, [i \in 1..LeafBytes |-> ~LowBytes(LeafBytes - n)[i]], FALSE)

\* The part of a value that readPreimage returns: left-aligned, with zeroes behind
\* the end of the value.
Part(value) ==
    [i \in 1..LeafBytes |->
        IF PreimageOffset + i <= Len(value) THEN value[PreimageOffset + i] ELSE 0]

\* The leaf keeps its bytes outside of the mask, and has those of the part, shifted
\* to the address, inside of it.
Stored(value, n, addr) ==
    LET alignment == addr % LeafBytes
        mask == Mask(n, alignment)
        pdat == ShiftRight(alignment, Part(value), 0)
        At(i) == i - (addr - alignment) + 1
    IN  [i \in DOMAIN mem |->
            IF At(i) \in 1..LeafBytes /\ mask[At(i)] THEN pdat[At(i)] ELSE mem[i]]

\* The part that the slow VM asks its oracle for.
readPreimagePart == [key |-> PreimageKey, offset |-> PreimageOffset]

\* The read from the pre-image descriptor.  The instrumented state notes the
\* key and the offset for the witness; on chain they come from the VM state.  A
\* step that panics has no witness.
readPreimageValue(addr, count) ==
    LET value == IF Fetched THEN lastPreimage ELSE Preimage[PreimageKey]
        key   == IF Fetched THEN lastPreimageKey ELSE PreimageKey
        n     == Transferred(value, count, addr)
    IN  /\ lastPreimageKey' = key
        /\ lastPreimage' = value
        /\ \/ /\ OutOfBounds(value)
              /\ panicked' = TRUE
              /\ witness' = NoWitness
              /\ asked' = NoPart
              /\ UNCHANGED <<mem, PreimageOffset, guest>>
           \/ /\ ~OutOfBounds(value)
              /\ PreimageOffset' = PreimageOffset + n
              /\ mem' = Stored(value, n, addr)
              /\ guest' = [guest EXCEPT !.done = @ + n]
              /\ witness' = [key |-> key, value |-> value, offset |-> PreimageOffset]
              /\ asked' = readPreimagePart
              /\ UNCHANGED panicked
        /\ UNCHANGED PreimageKey

-----------------------------------------------------------------------------
(* The on-chain oracle, which has to hold a part before the slow VM reads  *)
(* it.                                                                     *)

NoInput == [call |-> "none"]

\* The call that brings the part of a witness into the contract; an error for
\* local data that is too long and for other types of keys.
EncodePreimageOracleInput(wit) ==
    LET data == Tail(wit.value)
    IN  IF wit.key[1] = LocalKeyType /\ Len(data) <= LeafBytes
        THEN [call |-> "loadLocalData", ident |-> Tail(wit.key), data |-> data, offset |-> wit.offset]
        ELSE IF wit.key[1] = Keccak256KeyType
        THEN [call |-> "loadKeccak256PreimagePart", data |-> data, offset |-> wit.offset]
        ELSE NoInput

\* The contract keeps local data for each game apart, and has computed the key of
\* any other data itself.
Localize(ident) == [local |-> TRUE, id |-> ident]

KeccakKey(data) ==
    LET keys == {k \in Keys : k[1] = Keccak256KeyType /\ Tail(Preimage[k]) = data}
    IN  [local |-> FALSE, id |-> IF keys = {} THEN Nil ELSE Tail(CHOOSE k \in keys : TRUE)]

\* The part of a value from an offset on: a leaf of bytes or what is left.
PartAt(value, offset) == SubSeq(value, offset + 1, Least({offset + LeafBytes, Len(value)}))

\* What the contract holds after a call.
Loaded(input) ==
    [key    |-> IF input.call = "loadLocalData" THEN Localize(input.ident)
                ELSE KeccakKey(input.data),
     offset |-> input.offset,
     part   |-> PartAt(<<Len(input.data)>> \o input.data, input.offset)]

\* The key by which the VM on chain asks: a local one is localized.
ChainKey(key) ==
    IF key[1] = LocalKeyType THEN Localize(Tail(key)) ELSE [local |-> FALSE, id |-> Tail(key)]

-----------------------------------------------------------------------------
(* The program.                                                            *)

\* Steps of the program that read no pre-image.
NoRead == witness' = NoWitness /\ asked' = NoPart

\* Store a key, and start to write it to the VM; also in the middle of a value.
Request(k, addr) ==
    /\ ~panicked
    /\ guest.phase \in {"idle", "read"}
    /\ requests < MaxRequests
    /\ requests' = requests + 1
    /\ mem' = [i \in DOMAIN mem |->
                  IF i \in addr..(addr + LeafBytes - 1) THEN k[i - addr + 1] ELSE mem[i]]
    /\ guest' = [phase |-> "write", key |-> k, addr |-> addr, done |-> 0]
    /\ NoRead
    /\ UNCHANGED <<PreimageKey, PreimageOffset, lastPreimage, lastPreimageKey, panicked>>

WriteKey(count) ==
    /\ ~panicked
    /\ guest.phase = "write"
    /\ guest.done < LeafBytes
    /\ writePreimageKey(guest.addr + guest.done, Least({count, LeafBytes - guest.done}))
    /\ UNCHANGED requests

StartReading(addr) ==
    /\ ~panicked
    /\ guest.phase = "write"
    /\ guest.done = LeafBytes
    /\ guest' = [guest EXCEPT !.phase = "read", !.addr = addr, !.done = 0]
    /\ NoRead
    /\ UNCHANGED <<mem, PreimageKey, PreimageOffset, lastPreimage, lastPreimageKey, panicked, requests>>

\* The length prefix tells the program where the value ends.
AtEnd == guest.done = Len(Preimage[guest.key])

ReadValue(count) ==
    /\ ~panicked
    /\ guest.phase = "read"
    /\ ~AtEnd
    /\ readPreimageValue(guest.addr + guest.done, count)
    /\ UNCHANGED requests

\* A read at the end of a value.
ReadOn(count) ==
    /\ ~panicked
    /\ guest.phase = "read"
    /\ AtEnd
    /\ readPreimageValue(guest.addr, count)
    /\ UNCHANGED requests

Finish ==
    /\ ~panicked
    /\ guest.phase = "read"
    /\ AtEnd
    /\ guest' = Idle
    /\ NoRead
    /\ UNCHANGED <<mem, PreimageKey, PreimageOffset, lastPreimage, lastPreimageKey, panicked, requests>>

Transfer == \E count \in Counts : WriteKey(count) \/ ReadValue(count)

PreimageNext ==
    \/ \E k \in Keys, addr \in KeyAddrs : Request(k, addr)
    \/ \E addr \in BufAddrs : StartReading(addr)
    \/ Transfer
    \/ \E count \in Counts : ReadOn(count)
    \/ Finish

\* The program goes on with what it has begun.
Fairness ==
    /\ WF_preimageVars(Transfer)
    /\ WF_preimageVars(\E addr \in BufAddrs : StartReading(addr))
    /\ WF_preimageVars(Finish)

PreimageSpec == PreimageInit /\ [][PreimageNext]_preimageVars

FairSpec == PreimageSpec /\ Fairness

-----------------------------------------------------------------------------
(* Properties.                                                             *)

\* However the key lies in memory and whatever pieces it is written in, the VM
\* holds exactly this key once all of it is written, with nothing left of the key
\* before it; and the value arrives complete and in order: what has been
\* transferred so far is the beginning of the pre-image of the key, and the offset
\* points after it.
DeliveredInOrder ==
    guest.phase = "read" =>
        /\ PreimageKey = guest.key
        /\ PreimageOffset = guest.done
        /\ \A i \in 1..guest.done : mem[guest.addr + i - 1] = Preimage[guest.key][i]

\* A read changes no byte outside the buffer, although it writes a whole leaf.
OnlyBufferWritten ==
    [][guest.phase = "read" /\ guest'.phase = "read" =>
         \A i \in DOMAIN mem :
            mem'[i] # mem[i] =>
              i \in guest.addr..(guest.addr + Len(Preimage[guest.key]) - 1)]_preimageVars

\* The witness of a step that reads can be put on chain, and the contract then
\* holds what the VM on chain asks for, with the bytes the fast VM has used:
\* although the witness takes its key from a cache and the slow VM from the state,
\* and keys of the two types get to the contract in different ways.
WitnessServesSlow ==
    asked # NoPart =>
        LET input == EncodePreimageOracleInput(witness)
        IN  /\ input # NoInput
            /\ Loaded(input) = [key    |-> ChainKey(asked.key),
                                offset |-> asked.offset,
                                part   |-> PartAt(lastPreimage, asked.offset)]

\* No transfer stalls, at whatever byte of a leaf it starts, and none runs into
\* the out-of-bounds panic of readPreimage before its end: a program that has
\* begun to write a key comes to the end of a value, the one of this key or, if
\* it gives that up for another key, a later one.
Completes == guest.phase = "write" ~> (guest.phase = "read" /\ AtEnd)

=============================================================================
