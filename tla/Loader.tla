------------------------------- MODULE Loader -------------------------------
(***************************************************************************)
(* The load-elf command: LoadELF and PatchVM of rvgo/fast/elf.go build the *)
(* first state of a program, whose hash is the absolute pre-state of every *)
(* dispute, and a file of it, which another process runs.                  *)
(*                                                                         *)
(* SetMemoryRange takes what a reader gives page by page, and a step here  *)
(* is one turn of its loop.  An ELF file is what LoadELF looks at: the     *)
(* segments and the symbols it patches.                                    *)
(***************************************************************************)
EXTENDS Memory

CONSTANTS
    Files,         \* the ELF files
    RetPatch,      \* the bytes of a ret instruction
    MemProfile,    \* the bytes that switch profiling off: eight zeroes
    StackPointer,  \* 0x10_00_00_00_00_00_00_00
    StackWords,    \* what is stored above the stack pointer, as bytes
    WordBytes      \* 8

\* The addresses and sizes of an ELF file have the width of an address: uint64.
Uint64 == 0..(AddrCount - 1)

\* A program header: PT_LOAD, the RISC-V attributes or another type.
ElfProg ==
    [type : {"load", "attributes", "other"}, vaddr : Uint64, bytes : Seq(Byte), memsz : Uint64]

\* A symbol, and whether its name is one that PatchVM patches.
ElfSymbol == [patch : {"ret", "profile", "none"}, value : Uint64]

ASSUME LoaderAssumption ==
    /\ \A f \in Files : f.progs \in Seq(ElfProg) /\ f.symbols \in Seq(ElfSymbol)
    /\ RetPatch \in Seq(Byte) /\ MemProfile \in Seq(Byte)
    /\ StackPointer \in Nat /\ WordBytes \in Nat
    /\ StackWords \in Seq(Seq(Byte))

\* What is patched in, and a word of the stack, is no longer than memory.
ASSUME PatchAssumption ==
    /\ Len(RetPatch) <= AddrCount /\ Len(MemProfile) <= AddrCount
    /\ \A i \in 1..Len(StackWords) : Len(StackWords[i]) <= AddrCount

\* Powers of two, of which the provers know nothing.
ASSUME PowersAssumption ==
    /\ 2 ^ 0 = 1
    /\ \A n \in 0..AddrSize : 2 ^ n \in Nat \ {0} /\ 2 ^ (n + 1) = 2 * 2 ^ n

VARIABLES
    mem,     \* the memory of the state
    sp,      \* register 2 of the state
    file,    \* the ELF file
    stage,   \* where load-elf is
    next,    \* the next segment, symbol or word of the stack
    range,   \* the call of SetMemoryRange that is under way: its address, and what
             \*   its reader still holds, of the bytes given and of the padding
    root,    \* the memory root in the witness of the state
    out      \* the state file

vars == <<mem, sp, file, stage, next, range, root, out>>

NoRange == [open |-> FALSE, addr |-> 0, bytes |-> << >>, padding |-> << >>]
NoRoot == << >>
NoFile == EmptyFcn

Init ==
    /\ mem = NewMemory
    /\ sp = 0
    /\ file \in Files
    /\ stage = "machine"
    /\ next = 1
    /\ range = NoRange
    /\ root = NoRoot
    /\ out = NoFile

\* An error ends the command, and no state file is written.
Fail == stage' = "failed" /\ range' = NoRange /\ UNCHANGED <<mem, sp, file, next, root, out>>

Enter(to) == stage' = to /\ next' = 1

-----------------------------------------------------------------------------
(* SetMemoryRange.                                                         *)

SetMemoryRange(addr, bytes, padding) ==
    range' = [open |-> TRUE, addr |-> addr, bytes |-> bytes, padding |-> padding]

\* What the reader in use still holds: io.MultiReader goes on to the padding at
\* the end of the bytes.
Left == IF range.bytes # << >> THEN range.bytes ELSE range.padding

\* Mutant: the last byte of a page is never filled.
RoomShort(addr) == PageBytes - 1 - (addr % PageBytes)

\* The length of p.Data[pageAddr:].
Room(addr) == PageBytes - (addr % PageBytes)

Advance(addr, n) == (addr + n) % AddrCount

\* What is left after n bytes are read.
Rest(n) == SubSeq(Left, n + 1, Len(Left))

\* A Read gives as much as the page has room for and the reader in use holds.
ReadPage ==
    /\ range.open
    /\ Left # << >>
    /\ LET n == IF Len(Left) <= Room(range.addr) THEN Len(Left) ELSE Room(range.addr)
       IN  /\ mem' = SetMemoryPage(mem, range.addr, SubSeq(Left, 1, n))
           /\ range' = [open    |-> TRUE,
                        addr    |-> Advance(range.addr, n),
                        bytes   |-> IF range.bytes # << >> THEN Rest(n) ELSE << >>,
                        padding |-> IF range.bytes # << >> THEN range.padding ELSE Rest(n)]
    /\ UNCHANGED <<sp, file, stage, next, root, out>>

\* io.EOF ends the loop after the page has been looked up, or allocated.
ReadEOF ==
    /\ range.open
    /\ Left = << >>
    /\ mem' = SetMemoryPage(mem, range.addr, << >>)
    /\ range' = NoRange
    /\ UNCHANGED <<sp, file, stage, next, root, out>>

\* Any other error; only a segment is read from a file.
ReadFails == range.open /\ stage = "segments" /\ Fail

-----------------------------------------------------------------------------
(* LoadELF.                                                                *)

CheckMachine ==
    /\ stage = "machine"
    /\ \/ /\ file.machine = "riscv"
          /\ Enter("segments")
          /\ UNCHANGED <<mem, sp, file, range, root, out>>
       \/ file.machine # "riscv" /\ Fail

Zeroes(n) == [i \in 1..n |-> ZeroByte]

\* Mutant: a segment is as long as it is in the file.
PaddingNone(prog) == << >>

\* What of a segment is not in the file is zero.
Padding(prog) == Zeroes(prog.memsz - Len(prog.bytes))

\* Less in the file than in memory is for PT_LOAD only, more for none.
SizesFit(prog) ==
    \/ Len(prog.bytes) = prog.memsz
    \/ prog.type = "load" /\ Len(prog.bytes) < prog.memsz

Segment(prog) ==
    \/ /\ prog.type = "attributes"
       /\ next' = next + 1
       /\ UNCHANGED <<mem, sp, file, stage, range, root, out>>
    \/ prog.type # "attributes" /\ ~SizesFit(prog) /\ Fail
    \/ /\ prog.type # "attributes" /\ SizesFit(prog)
       /\ SetMemoryRange(prog.vaddr, prog.bytes, Padding(prog))
       /\ next' = next + 1
       /\ UNCHANGED <<mem, sp, file, stage, root, out>>

LoadSegment ==
    /\ stage = "segments" /\ ~range.open
    /\ next <= Len(file.progs)
    /\ Segment(file.progs[next])

\* Mutant: the hash is computed before the program is patched.
SegmentsDoneHashed ==
    /\ stage = "segments" /\ ~range.open
    /\ next > Len(file.progs)
    /\ mem' = MerkleRoot(mem)
    /\ Enter("symbols")
    /\ UNCHANGED <<sp, file, range, root, out>>

SegmentsDone ==
    /\ stage = "segments" /\ ~range.open
    /\ next > Len(file.progs)
    /\ Enter("symbols")
    /\ UNCHANGED <<mem, sp, file, range, root, out>>

-----------------------------------------------------------------------------
(* PatchVM.                                                                *)

\* Functions are patched to return at once, and the rate of memory profiling is
\* set to zero.
PatchSymbol ==
    /\ stage = "symbols" /\ ~range.open
    /\ file.symtab
    /\ next <= Len(file.symbols)
    /\ LET s == file.symbols[next]
       IN  \/ s.patch = "ret" /\ SetMemoryRange(s.value, RetPatch, << >>)
           \/ s.patch = "profile" /\ SetMemoryRange(s.value, MemProfile, << >>)
           \/ s.patch = "none" /\ UNCHANGED range
    /\ next' = next + 1
    /\ UNCHANGED <<mem, sp, file, stage, root, out>>

NoSymbols == stage = "symbols" /\ ~file.symtab /\ Fail

SetStackPointer ==
    /\ stage = "symbols" /\ ~range.open
    /\ file.symtab
    /\ next > Len(file.symbols)
    /\ sp' = StackPointer
    /\ Enter("stack")
    /\ UNCHANGED <<mem, file, range, root, out>>

\* argc, argv, envp and the auxiliary vector.
StoreWord ==
    /\ stage = "stack" /\ ~range.open
    /\ next <= Len(StackWords)
    /\ SetMemoryRange((sp + WordBytes * next) % AddrCount, StackWords[next], << >>)
    /\ next' = next + 1
    /\ UNCHANGED <<mem, sp, file, stage, root, out>>

-----------------------------------------------------------------------------
(* The end of load-elf, and the start of run.                              *)

SetWitnessAndStateHash ==
    /\ stage = "stack" /\ ~range.open
    /\ next > Len(StackWords)
    /\ mem' = MerkleRoot(mem)
    /\ root' = RootHash(mem)
    /\ Enter("write")
    /\ UNCHANGED <<sp, file, range, out>>

WriteState ==
    /\ stage = "write"
    /\ out' = Serialize(mem)
    /\ Enter("loaded")
    /\ UNCHANGED <<mem, sp, file, range, root>>

\* The metadata or the state cannot be written.
WriteFails == stage = "write" /\ Fail

\* The run command loads the state.
StartRun ==
    /\ stage = "loaded"
    /\ mem' = Deserialize(out)
    /\ Enter("run")
    /\ UNCHANGED <<sp, file, range, root, out>>

Load ==
    \/ CheckMachine \/ LoadSegment \/ SegmentsDone
    \/ ReadPage \/ ReadEOF
    \/ PatchSymbol \/ NoSymbols \/ SetStackPointer \/ StoreWord
    \/ SetWitnessAndStateHash \/ WriteState \/ StartRun

Next == Load \/ ReadFails \/ WriteFails

\* The commands go on until they return.
Spec == Init /\ [][Next]_vars

FairSpec == Spec /\ WF_vars(Load)

-----------------------------------------------------------------------------
(* Properties.                                                             *)

\* What load-elf writes for a segment, with its zeroes, for a symbol and for the
\* i-th word of the stack; nothing for what it passes over.
SegmentWrite(prog) ==
    [addr  |-> prog.vaddr,
     bytes |-> IF prog.type = "attributes" THEN << >>
               ELSE [j \in 1..prog.memsz |->
                        IF j <= Len(prog.bytes) THEN prog.bytes[j] ELSE ZeroByte]]

PatchWrite(s) ==
    [addr  |-> s.value,
     bytes |-> IF s.patch = "ret" THEN RetPatch
               ELSE IF s.patch = "profile" THEN MemProfile ELSE << >>]

StackWrite(i) ==
    [addr  |-> (StackPointer + WordBytes * i) % AddrCount,
     bytes |-> StackWords[i]]

\* All of it, in its order.
Writes ==
    [i \in 1..Len(file.progs) |-> SegmentWrite(file.progs[i])]
    \o [i \in 1..Len(file.symbols) |-> PatchWrite(file.symbols[i])]
    \o [i \in 1..Len(StackWords) |-> StackWrite(i)]

\* How far an address is from the start of a write, which may wrap around.
Reach(w, a) == (a + AddrCount - w.addr) % AddrCount

\* The byte the last of the first k writes leaves at an address.
ImageAfter(writes, k, a) ==
    LET covers == {i \in 1..k : Reach(writes[i], a) < Len(writes[i].bytes)}
    IN  IF covers = {} THEN ZeroByte
        ELSE LET w == writes[CHOOSE i \in covers : \A j \in covers : j <= i]
             IN  w.bytes[Reach(w, a) + 1]

\* The byte of memory at an address.
ByteAt(m, a) == Contents(m)[LeafAt(a)][a % LeafBytes]

\* The program is in memory byte for byte: every segment at its address with
\* zeroes for what the file leaves out, over it the patches and the stack, and
\* nothing else, wherever pages begin and end, segments overlap or a range wraps
\* around; the file that run starts from holds the same.
ImageLoaded ==
    stage \in {"write", "loaded", "run"} =>
        \A a \in Uint64 : ByteAt(mem, a) = ImageAfter(Writes, Len(Writes), a)

\* The root that goes into the absolute pre-state is that of the memory the
\* program starts with: neither a page's cache nor a node of the trie, which range
\* writes leave alone, is older than a byte below it, and run computes the same
\* root from the file.
PrestateCommits ==
    stage \in {"write", "loaded", "run"} =>
        root = TrueHash(mem)[Root] /\ RootHash(mem) = root

\* SetMemoryRange clears the cache of a page and no node above it.  In spite of it
\* "if the page was already invalid, the nodes up to the root are also invalid" in
\* every state of load-elf, so that a memory it has loaded obeys the rule by which
\* later writes invalidate; and every page is reached from the root.
TrieReady == SpansPages(mem) /\ PathInvalid(mem)

\* The loop of SetMemoryRange comes to its end for every segment: load-elf returns.
LoadTerminates == <>(stage \in {"run", "failed"})

=============================================================================
