----------------------------- MODULE VMControl -----------------------------
(***************************************************************************)
(* What an instruction does to the state of the VM other than memory and   *)
(* the values of registers: the program counter, the step counter, the     *)
(* heap, the load reservation and the exit status, and what a system call  *)
(* returns (riscvStep and sysCall of rvgo/fast/vm.go).                     *)
(*                                                                         *)
(* The registers an instruction reads may hold anything the program has    *)
(* computed, so their values are inputs of the actions.                    *)
(***************************************************************************)
EXTENDS Integers

CONSTANTS
    AddrSpace,  \* 2^64: addresses and registers wrap around here
    PageSize,   \* 4096: what mmap rounds to
    HeapStart,  \* 0x7f_00_00_00_00_00
    Break,      \* 1 GiB: what brk returns
    ExitCodes,  \* 256: an exit code is a byte
    Entry,      \* the entry point of the program
    Offsets,    \* the offsets of branches and jumps, sign-extended to 64 bits
    Values,     \* the values of registers
    MaxSteps    \* bound on the steps of a run

ASSUME ControlAssumption ==
    /\ AddrSpace \in Nat /\ AddrSpace > 4 /\ AddrSpace % 4 = 0
    /\ PageSize \in Nat \ {0} /\ PageSize <= AddrSpace
    /\ HeapStart \in 0..(AddrSpace - 1) /\ HeapStart > 0
    /\ Break \in 0..(AddrSpace - 1)
    /\ ExitCodes \in Nat \ {0}
    /\ Entry \in 0..(AddrSpace - 1) /\ Entry % 4 = 0
    /\ Offsets \subseteq 0..(AddrSpace - 1)
    /\ Values \subseteq 0..(AddrSpace - 1)
    /\ MaxSteps \in Nat /\ MaxSteps < AddrSpace

Word == 0..(AddrSpace - 1)

u64Mask == AddrSpace - 1

FD == 0..7             \* 7 stands for the descriptors that are not open

\* The bytes of a memory operation: 2 to the power of funct3.
Sizes == {1, 2, 4, 8, 16, 32, 64, 128}

\* Error numbers.
NoError == 0
EBADF == 77
EINVAL == 22
EACCES == 13

None == -1             \* no reservation, for the history variable

\* What a step that is no system call leaves in ret.
NoCall == [call |-> "none", fd |-> None, a0 |-> 0, a1 |-> 0]

VARIABLES
    pc,
    step,
    Heap,
    LoadReservation,  \* 0 when there is none
    exited,
    exitCode,
    failed,           \* the code the last step has reverted with, "panic" if it has
                      \* ended without a code, or "no"
    ret,              \* the last system call, and the registers a0 and a1 after it
    \* History.
    regions,          \* the memory that mmap has chosen an address for
    overrun,          \* the program has asked for more memory than there is
    reserved,         \* the address of the last LR, until the next SC
    stored,           \* the address of a store that the last step, an SC, has made
    told              \* the descriptor and the access mode fcntl has last answered

control == <<pc, step, exited, exitCode, failed>>
heap == <<Heap, regions, overrun>>
reservation == <<LoadReservation, reserved>>
vars == <<control, heap, reservation, stored, ret, told>>

Init ==
    /\ pc = Entry
    /\ step = 0
    /\ Heap = HeapStart
    /\ LoadReservation = 0
    /\ exited = FALSE
    /\ exitCode = 0
    /\ failed = "no"
    /\ ret = NoCall
    /\ regions = {}
    /\ overrun = FALSE
    /\ reserved = None
    /\ stored = None
    /\ told = [fd |-> None, mode |-> None]

-----------------------------------------------------------------------------
(* Parts of a step.                                                        *)

\* The early exit comes before anything else; the counter is the first to change.
Begin ==
    /\ ~exited
    /\ failed = "no"
    /\ step < MaxSteps
    /\ step' = step + 1

Advance == pc' = (pc + 4) % AddrSpace /\ UNCHANGED failed

\* What the step has written before stays written; the run ends.  A panic that is
\* not raised by revertWithCode leaves no code.
Revert(code) == failed' = code /\ UNCHANGED pc

NoSyscall == ret' = NoCall /\ UNCHANGED told

Return(call, fd, a0, a1) == ret' = [call |-> call, fd |-> fd, a0 |-> a0, a1 |-> a1]

\* Mutant: only the lowest bit of a target is looked at.
JumpToHalf(newPC) ==
    IF newPC % 2 # 0 THEN Revert("NotAlignedAddr") ELSE pc' = newPC /\ UNCHANGED failed

JumpTo(newPC) ==
    IF newPC % 4 # 0 THEN Revert("NotAlignedAddr") ELSE pc' = newPC /\ UNCHANGED failed

-----------------------------------------------------------------------------
(* Instructions.                                                           *)

\* LUI, AUIPC, CSR instructions, EBREAK, fences and the floating-point instructions,
\* which do nothing.
Plain ==
    /\ Begin
    /\ Advance
    /\ stored' = None
    /\ NoSyscall
    /\ UNCHANGED <<heap, reservation, exited, exitCode>>

\* A step that fails before it changes anything but the counter.
Fails(code) ==
    /\ Begin
    /\ Revert(code)
    /\ stored' = None
    /\ NoSyscall
    /\ UNCHANGED <<heap, reservation, exited, exitCode>>

\* One encoding is reserved; the third bit is the sign, so no load is too long.
Load(funct3) == IF funct3 = 7 THEN Fails("IllegalInstruction") ELSE Plain

Store(size) == IF size > 8 THEN Fails("StoreExceeds8Bytes") ELSE Plain

\* Which encodings are legal is Alu's.
Arithmetic(legal) == IF legal THEN Plain ELSE Fails("IllegalInstruction")

UnknownOpCode == Fails("UnknownOpCode")

\* A branch, taken or not, and JAL: the offset is even, and added to pc.
Branch(hit, imm) ==
    /\ Begin
    /\ JumpTo((pc + IF hit THEN imm ELSE 4) % AddrSpace)
    /\ stored' = None
    /\ NoSyscall
    /\ UNCHANGED <<heap, reservation, exited, exitCode>>

\* The lowest bit of the sum is cleared.
JALR(rs1, imm) ==
    LET target == (rs1 + imm) % AddrSpace
    IN  /\ Begin
        /\ JumpTo(target - (target % 2))
        /\ stored' = None
        /\ NoSyscall
        /\ UNCHANGED <<heap, reservation, exited, exitCode>>

LR(addr, size) ==
    /\ Begin
    /\ IF addr % size # 0
       THEN Revert("NotAlignedAddr") /\ UNCHANGED reservation
       ELSE /\ LoadReservation' = addr
            /\ reserved' = addr
            /\ Advance
    /\ stored' = None
    /\ NoSyscall
    /\ UNCHANGED <<heap, exited, exitCode>>

\* Mutant: the reservation outlives an SC that fails.
SCKeeps(addr, size) ==
    /\ Begin
    /\ IF addr % size # 0
       THEN Revert("NotAlignedAddr") /\ stored' = None /\ UNCHANGED reservation
       ELSE /\ stored' = IF addr = LoadReservation THEN addr ELSE None
            /\ LoadReservation' = IF addr = LoadReservation THEN 0 ELSE LoadReservation
            /\ reserved' = None
            /\ Advance
    /\ NoSyscall
    /\ UNCHANGED <<heap, exited, exitCode>>

SC(addr, size) ==
    /\ Begin
    /\ IF addr % size # 0
       THEN Revert("NotAlignedAddr") /\ stored' = None /\ UNCHANGED reservation
       ELSE /\ stored' = IF addr = LoadReservation THEN addr ELSE None
            /\ LoadReservation' = 0
            /\ reserved' = None
            /\ Advance
    /\ NoSyscall
    /\ UNCHANGED <<heap, exited, exitCode>>

\* The size is looked at before the alignment.
BadAMOSize(size) == (size < 4 \/ size > 8) /\ Fails("BadAMOSize")

\* A read-modify-write takes no notice of the reservation.
AMO(addr, size, known) ==
    /\ Begin
    /\ IF addr % size # 0 THEN Revert("NotAlignedAddr")
       ELSE IF ~known THEN Revert("UnknownAtomicOperation")
       ELSE Advance
    /\ stored' = None
    /\ NoSyscall
    /\ UNCHANGED <<heap, reservation, exited, exitCode>>

-----------------------------------------------------------------------------
(* System calls.                                                           *)

\* A system call that changes neither the heap nor the reservation.
Syscall(a0, a1, name, fd) ==
    /\ Begin
    /\ Advance
    /\ stored' = None
    /\ Return(name, fd, a0, a1)
    /\ UNCHANGED <<heap, reservation, exited, exitCode>>

\* exit and exit_group.
SysExit(a0) ==
    /\ Begin
    /\ Advance
    /\ exitCode' = a0 % ExitCodes
    /\ exited' = TRUE
    /\ stored' = None
    /\ NoSyscall
    /\ UNCHANGED <<heap, reservation>>

SysBrk == Syscall(Break, NoError, "brk", None) /\ UNCHANGED told

\* The length, rounded up to pages, in 64 bits.
PagesOf(length) ==
    IF length % PageSize = 0 THEN length
    ELSE (length + (PageSize - (length % PageSize))) % AddrSpace

\* Mutant: the heap grows by one page less than it should.
GrowShort(length) == (Heap + PagesOf(length) - PageSize) % AddrSpace

Grow(length) == (Heap + PagesOf(length)) % AddrSpace

\* Anonymous memory only; the address is chosen when there is no hint.
SysMmap(addr, length, anonymous) ==
    /\ Begin
    /\ Advance
    /\ IF ~anonymous THEN Return("mmap", None, u64Mask, EBADF) /\ UNCHANGED heap
       ELSE IF addr # 0 THEN Return("mmap", None, addr, NoError) /\ UNCHANGED heap
       ELSE /\ Return("mmap", None, Heap, NoError)
            /\ Heap' = Grow(length)
            /\ regions' = regions \union {[start |-> Heap, length |-> length, at |-> step]}
            /\ overrun' = (overrun \/ Heap + length + PageSize > AddrSpace)
    /\ stored' = None
    /\ UNCHANGED <<reservation, exited, exitCode, told>>

\* A read of a pre-image returns what fits (PreimageIO).
SysRead(fd, count) ==
    /\ \/ /\ fd = 0
          /\ Syscall(0, NoError, "read", fd)
       \/ /\ fd = 3
          /\ Syscall(count, NoError, "read", fd)
       \/ /\ fd = 5
          /\ \E n \in {v \in Values : v <= count} : Syscall(n, NoError, "read", fd)
       \/ /\ fd \notin {0, 3, 5}
          /\ Syscall(u64Mask, EBADF, "read", fd)
    /\ UNCHANGED told

\* readPreimage returns no error: the offset is out of bounds, there is no oracle,
\* or its server has failed, and each of these panics.
ReadPreimagePanics == Fails("panic")

SysWrite(fd, count) ==
    /\ \/ /\ fd \in {1, 2, 4}
          /\ Syscall(count, NoError, "write", fd)
       \/ /\ fd = 6
          /\ \E n \in {v \in Values : v <= count} : Syscall(n, NoError, "write", fd)
       \/ /\ fd \notin {1, 2, 4, 6}
          /\ Syscall(u64Mask, EBADF, "write", fd)
    /\ UNCHANGED told

\* Of a write that is not empty: the range laps the address space, a stream of the
\* host fails, a hint is too long or the oracle panics (GuestOutput, OracleRun).
WritePanics(fd, count) == fd \in {1, 2, 4} /\ count > 0 /\ Fails("panic")

\* Mutant: the hint descriptors are taken to be writable both.
AccessModeHints(fd) == IF fd \in {1, 2, 3, 4, 6} THEN 1 ELSE 0

\* O_RDONLY or O_WRONLY.
AccessMode(fd) == IF fd \in {1, 2, 4, 6} THEN 1 ELSE 0

\* fcntl: F_GETFD is 1, F_GETFL is 3, and nothing else is supported.
SysFcntl(fd, cmd) ==
    \/ /\ cmd = 1
       /\ IF fd \in 0..6 THEN Syscall(0, NoError, "getfd", fd)
                         ELSE Syscall(u64Mask, EBADF, "getfd", fd)
       /\ UNCHANGED told
    \/ /\ cmd = 3
       /\ IF fd \in 0..6
          THEN /\ Syscall(AccessMode(fd), NoError, "getfl", fd)
               /\ told' = [fd |-> fd, mode |-> AccessMode(fd)]
          ELSE /\ Syscall(u64Mask, EBADF, "getfl", fd)
               /\ told' = [fd |-> fd, mode |-> None]
    \/ /\ cmd \notin {1, 3}
       /\ Syscall(u64Mask, EINVAL, "fcntl", fd)
       /\ UNCHANGED told

SysOpenat == Syscall(u64Mask, EACCES, "openat", None) /\ UNCHANGED told

\* clock_gettime, and every call that is ignored.
SysZero == Syscall(0, NoError, "zero", None) /\ UNCHANGED told

SysClone == Syscall(1, NoError, "clone", None) /\ UNCHANGED told

SysGetrlimit(res) ==
    IF res = 7 THEN Syscall(0, NoError, "getrlimit", None) /\ UNCHANGED told
    ELSE Fails("UnrecognizedResource")

\* prlimit64, futex and nanosleep.
SysUnsupported == Fails("InvalidSyscall")

-----------------------------------------------------------------------------

\* A step of a program that has exited.
ExitedStep == exited /\ UNCHANGED vars

Basic ==
    \/ Plain
    \/ \E funct3 \in 0..7 : Load(funct3)
    \/ \E size \in Sizes : Store(size)
    \/ \E legal \in BOOLEAN : Arithmetic(legal)
    \/ UnknownOpCode

Jump ==
    \/ \E hit \in BOOLEAN, imm \in Offsets : Branch(hit, imm)
    \/ \E rs1 \in Values, imm \in Offsets : JALR(rs1, imm)

Atomic ==
    \/ \E size \in Sizes : BadAMOSize(size)
    \/ \E addr \in Values, size \in {4, 8} :
          \/ LR(addr, size)
          \/ SC(addr, size)
          \/ \E known \in BOOLEAN : AMO(addr, size, known)

sysCall ==
    \/ \E a0 \in Values : SysExit(a0)
    \/ SysBrk
    \/ \E addr, length \in Values, anonymous \in BOOLEAN : SysMmap(addr, length, anonymous)
    \/ \E fd \in FD, count \in Values : SysRead(fd, count)
    \/ ReadPreimagePanics
    \/ \E fd \in FD, count \in Values : SysWrite(fd, count) \/ WritePanics(fd, count)
    \/ \E fd \in FD, cmd \in {1, 2, 3} : SysFcntl(fd, cmd)
    \/ SysOpenat
    \/ SysZero
    \/ SysClone
    \/ \E res \in {0, 7} : SysGetrlimit(res)
    \/ SysUnsupported

Next == Basic \/ Jump \/ Atomic \/ sysCall \/ ExitedStep

Spec == Init /\ [][Next]_vars

-----------------------------------------------------------------------------
(* Properties.                                                             *)

\* No instruction, and no wrap-around of the address space, makes the program
\* counter leave the multiples of four: the fetch is never split over two
\* leaves, for which the witness has no second proof.
PcAligned == pc % 4 = 0

\* No two regions that mmap has chosen share a byte, and none of them lies below
\* the start of the heap, where the Go runtime puts its hinted regions: as long
\* as the program asks for no more memory than the address space has.
RegionsDisjoint ==
    ~overrun =>
        /\ \A r \in regions : r.start >= HeapStart /\ r.start + r.length <= Heap
        /\ \A r, t \in regions :
              r.at < t.at => r.start + r.length <= t.start

\* An SC stores only to the address of the last LR, with no other SC in between;
\* except at address zero, which stands for no reservation.
StoresReserved ==
    [][stored' # None => stored' \in {reserved, 0}]_vars

\* read and write accept a descriptor exactly when fcntl has reported it open in
\* the mode they need.
ModesAgree ==
    ret.fd = told.fd =>
        /\ ret.call = "read"  => (ret.a1 = NoError <=> told.mode = 0)
        /\ ret.call = "write" => (ret.a1 = NoError <=> told.mode = 1)

=============================================================================
