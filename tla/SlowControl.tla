---------------------------- MODULE SlowControl ----------------------------
(***************************************************************************)
(* Control flow and system calls of the slow VM (Step of rvgo/slow/vm.go), *)
(* as functions of its state: the counterpart of VMControl.                *)
(*                                                                         *)
(* A state s has the fields of the VM state, the code of a revert and, of  *)
(* the last step, the registers a0 and a1 that a system call has set and   *)
(* the address at which an SC has stored.                                  *)
(***************************************************************************)
EXTENDS Integers

CONSTANTS
    AddrSpace,  \* 2^64
    PageSize,   \* 4096
    Break,      \* 1 GiB
    ExitCodes   \* 256

None == -1
u64Mask == AddrSpace - 1

\* A 64-bit value is a longer word here: every operation masks its result.
add64(x, y) == (x + y) % AddrSpace
sub64(x, y) == ((x - y) + AddrSpace) % AddrSpace
mod64(x, y) == x % y

-----------------------------------------------------------------------------
(* Parts of a step.                                                        *)

\* The counter is the first to change.
setStep(s) == [s EXCEPT !.step = add64(@, 1), !.a0 = 0, !.a1 = 0, !.stored = None]

revertWithCode(s, code) == [s EXCEPT !.failed = code]

nextPC(s) == [s EXCEPT !.pc = add64(@, 4)]

\* Mutant: a jump register instruction is not checked for alignment.
jumpToUnchecked(s, newPC) == [s EXCEPT !.pc = newPC]

jumpTo(s, newPC) ==
    IF mod64(newPC, 4) # 0 THEN revertWithCode(s, "NotAlignedAddr") ELSE [s EXCEPT !.pc = newPC]

return(s, a0, a1) == [s EXCEPT !.a0 = a0, !.a1 = a1]

-----------------------------------------------------------------------------
(* Instructions.                                                           *)

exitedStep(s) == s

\* LUI, AUIPC, EBREAK, CSR instructions, fences, floating point.
plain(s) == nextPC(setStep(s))

unknownOpCode(s) == revertWithCode(setStep(s), "UnknownOpCode")

\* One encoding is reserved.
load(s, funct3) ==
    IF funct3 = 7 THEN revertWithCode(setStep(s), "IllegalInstruction") ELSE plain(s)

store(s, size) ==
    IF size > 8 THEN revertWithCode(setStep(s), "StoreExceeds8Bytes") ELSE plain(s)

\* Which encodings are legal is AluLockstep's.
arithmetic(s, legal) ==
    IF legal THEN plain(s) ELSE revertWithCode(setStep(s), "IllegalInstruction")

branch(s, branchHit, imm) == jumpTo(setStep(s), add64(s.pc, IF branchHit THEN imm ELSE 4))

JAL(s, imm) == jumpTo(setStep(s), add64(s.pc, imm))

JALR(s, rs1Value, imm) ==
    LET target == add64(rs1Value, imm)
    IN  jumpTo(setStep(s), target - mod64(target, 2))

LR(s, addr) == [nextPC(s) EXCEPT !.LoadReservation = addr]

SC(s, addr) ==
    [nextPC(s) EXCEPT !.stored = IF addr = s.LoadReservation THEN addr ELSE None,
                      !.LoadReservation = 0]

AMO(s, known) == IF known THEN nextPC(s) ELSE revertWithCode(s, "UnknownAtomicOperation")

\* The size is 2 to the power of funct3, and comes before the alignment.
atomic(s, op, size, addr) ==
    LET t == setStep(s)
    IN  IF size < 4 \/ size > 8 THEN revertWithCode(t, "BadAMOSize")
        ELSE IF mod64(addr, size) # 0 THEN revertWithCode(t, "NotAlignedAddr")
        ELSE IF op = "LR" THEN LR(t, addr)
        ELSE IF op = "SC" THEN SC(t, addr)
        ELSE AMO(t, op = "AMO")

-----------------------------------------------------------------------------
(* System calls: sysCall, and the step over ECALL that follows it.         *)

ecall(s) == nextPC(setStep(s))

sysExit(s, a0) == [ecall(s) EXCEPT !.exitCode = mod64(a0, ExitCodes), !.exited = TRUE]

sysBrk(s) == return(ecall(s), Break, 0)

\* The length of an anonymous region is rounded up to whole pages.
mmapLength(length) ==
    LET align == mod64(length, PageSize)
    IN  IF align # 0 THEN add64(length, sub64(PageSize, align)) ELSE length

sysMmap(s, addr, length, anonymous) ==
    IF ~anonymous THEN return(ecall(s), u64Mask, 77)
    ELSE IF addr # 0 THEN return(ecall(s), addr, 0)
    ELSE [return(ecall(s), s.Heap, 0) EXCEPT !.Heap = add64(s.Heap, mmapLength(length))]

\* n is what readPreimageValue returns.
sysRead(s, fd, count, n) ==
    IF fd = 0 THEN return(ecall(s), 0, 0)
    ELSE IF fd = 3 THEN return(ecall(s), count, 0)
    ELSE IF fd = 5 THEN return(ecall(s), n, 0)
    ELSE return(ecall(s), u64Mask, 77)

readPreimageFails(s) == revertWithCode(setStep(s), "FailToReadPreimage")

\* n is what writePreimageKey returns.
sysWrite(s, fd, count, n) ==
    IF fd \in {1, 2, 4} THEN return(ecall(s), count, 0)
    ELSE IF fd = 6 THEN return(ecall(s), n, 0)
    ELSE return(ecall(s), u64Mask, 77)

\* F_GETFD and F_GETFL.
sysFcntl(s, fd, cmd) ==
    IF cmd \notin {1, 3} THEN return(ecall(s), u64Mask, 22)
    ELSE IF fd > 6 THEN return(ecall(s), u64Mask, 77)
    ELSE return(ecall(s), IF cmd = 3 /\ fd \in {1, 2, 4, 6} THEN 1 ELSE 0, 0)

sysOpenat(s) == return(ecall(s), u64Mask, 13)

\* clock_gettime, whose store is StepWitness's, and every call that is ignored.
sysZero(s) == return(ecall(s), 0, 0)

sysClone(s) == return(ecall(s), 1, 0)

sysGetrlimit(s, res) ==
    IF res = 7 THEN return(ecall(s), 0, 0)
    ELSE revertWithCode(setStep(s), "UnrecognizedResource")

\* prlimit64, futex, nanosleep.
sysUnsupported(s) == revertWithCode(setStep(s), "InvalidSyscall")
=============================================================================
