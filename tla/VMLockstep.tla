----------------------------- MODULE VMLockstep -----------------------------
(***************************************************************************)
(* The fast VM and the slow VM execute the same instructions with the same *)
(* operands, side by side.                                                 *)
(***************************************************************************)
EXTENDS VMControl

VARIABLE slow    \* the state of the slow VM

Slow == INSTANCE SlowControl

\* The state of the fast VM, as SlowControl has it.
Fast ==
    [pc |-> pc, step |-> step, Heap |-> Heap, LoadReservation |-> LoadReservation,
     exited |-> exited, exitCode |-> exitCode, failed |-> failed,
     a0 |-> ret.a0, a1 |-> ret.a1, stored |-> stored]

LockInit == Init /\ slow = Fast

LockInstruction ==
    \/ Plain /\ slow' = Slow!plain(slow)
    \/ \E funct3 \in 0..7 : Load(funct3) /\ slow' = Slow!load(slow, funct3)
    \/ \E size \in Sizes : Store(size) /\ slow' = Slow!store(slow, size)
    \/ \E legal \in BOOLEAN : Arithmetic(legal) /\ slow' = Slow!arithmetic(slow, legal)
    \/ UnknownOpCode /\ slow' = Slow!unknownOpCode(slow)
    \/ ExitedStep /\ slow' = Slow!exitedStep(slow)

LockJump ==
    \/ \E hit \in BOOLEAN, imm \in Offsets :
          Branch(hit, imm) /\ slow' = Slow!branch(slow, hit, imm)
    \/ \E imm \in Offsets : Branch(TRUE, imm) /\ slow' = Slow!JAL(slow, imm)
    \/ \E rs1 \in Values, imm \in Offsets : JALR(rs1, imm) /\ slow' = Slow!JALR(slow, rs1, imm)

LockAtomic ==
    \/ \E addr \in Values, size \in Sizes :
          BadAMOSize(size) /\ slow' = Slow!atomic(slow, "AMO", size, addr)
    \/ \E addr \in Values, size \in {4, 8} :
          \/ LR(addr, size) /\ slow' = Slow!atomic(slow, "LR", size, addr)
          \/ SC(addr, size) /\ slow' = Slow!atomic(slow, "SC", size, addr)
          \/ \E known \in BOOLEAN :
                /\ AMO(addr, size, known)
                /\ slow' = Slow!atomic(slow, IF known THEN "AMO" ELSE "unknown", size, addr)

\* How many bytes of a pre-image or of its key a call transfers is the same in
\* both VMs (PreimageIO).  Where the fast VM panics, the slow VM, which has neither
\* streams nor a server, may go on: a write returns its count, and a read finds the
\* part on chain or reverts.
LockSyscall ==
    \/ \E a0 \in Values : SysExit(a0) /\ slow' = Slow!sysExit(slow, a0)
    \/ SysBrk /\ slow' = Slow!sysBrk(slow)
    \/ \E addr, length \in Values, anonymous \in BOOLEAN :
          SysMmap(addr, length, anonymous) /\ slow' = Slow!sysMmap(slow, addr, length, anonymous)
    \/ \E fd \in FD, count \in Values :
          SysRead(fd, count) /\ slow' = Slow!sysRead(slow, fd, count, ret'.a0)
    \/ /\ ReadPreimagePanics
       /\ \/ slow' = Slow!readPreimageFails(slow)
          \/ \E count, n \in Values : n <= count /\ slow' = Slow!sysRead(slow, 5, count, n)
    \/ \E fd \in FD, count \in Values :
          \/ SysWrite(fd, count) /\ slow' = Slow!sysWrite(slow, fd, count, ret'.a0)
          \/ WritePanics(fd, count) /\ slow' = Slow!sysWrite(slow, fd, count, 0)
    \/ \E fd \in FD, cmd \in {1, 2, 3} : SysFcntl(fd, cmd) /\ slow' = Slow!sysFcntl(slow, fd, cmd)
    \/ SysOpenat /\ slow' = Slow!sysOpenat(slow)
    \/ SysZero /\ slow' = Slow!sysZero(slow)
    \/ SysClone /\ slow' = Slow!sysClone(slow)
    \/ \E res \in {0, 7} : SysGetrlimit(res) /\ slow' = Slow!sysGetrlimit(slow, res)
    \/ SysUnsupported /\ slow' = Slow!sysUnsupported(slow)

LockNext == LockInstruction \/ LockJump \/ LockAtomic \/ LockSyscall

LockSpec == LockInit /\ [][LockNext]_<<vars, slow>>

-----------------------------------------------------------------------------

\* The slow VM has gone on where the fast VM has panicked in a system call, which
\* has returned n: it is one instruction ahead, with nothing else changed.
Ahead(n) ==
    slow = [Fast EXCEPT !.pc = (@ + 4) % AddrSpace, !.failed = "no", !.a0 = n]

\* The two VMs stay in step: after every sequence of instructions they have the
\* same program counter, heap, reservation and exit status, have returned the
\* same from system calls, and revert in the same steps with the same code.  One
\* difference, and the claim of an honest player about that step fails on chain.
\* Only where the host lets the fast VM down, and it panics without a code and has
\* no state to claim, may the slow VM end otherwise: it then reverts because it
\* has no pre-image either, or has completed the system call.
SlowInStep ==
    IF failed # "panic" THEN slow = Fast
    ELSE \/ slow = [Fast EXCEPT !.failed = "FailToReadPreimage"]
         \/ \E n \in Values : Ahead(n)
=============================================================================
