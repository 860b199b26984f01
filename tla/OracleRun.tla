----------------------------- MODULE OracleRun -----------------------------
(***************************************************************************)
(* The run command (rvgo/cmd/run.go) and its pre-image server              *)
(* (process_preimage_oracle.go): the goroutine of Run, the goroutine of    *)
(* ProcessPreimageOracle.wait, the server process, and the state files     *)
(* that a later run starts from.                                           *)
(*                                                                         *)
(* Of the VM only its dealings with the oracle remain.  The program it     *)
(* runs is well behaved: it writes a hint for every key, in order, and     *)
(* reads a pre-image only after it has written the hint.  A hint is two    *)
(* tokens on the hint channel, its length prefix and its text; one write   *)
(* system call carries any number of the tokens that are left.             *)
(***************************************************************************)
EXTENDS Integers, Sequences

CONSTANTS
    KeyCount,    \* the program hints and reads the keys 1..KeyCount
    MaxSteps,    \* bound: the program exits no later than at this step
    MaxRuns,     \* bound: runs of the command, each from the last file
    CheckEvery,  \* steps between two looks at the context: 100 in the code
    SnapshotAt,  \* the steps that --snapshot-at matches
    StopAt,      \* the steps that --stop-at matches
    StopKeys,    \* the keys that --stop-at-preimage and its like match
    WithServer   \* whether the command line names a server: both, or one of the two

Keys == 1..KeyCount

ASSUME RunAssumption ==
    /\ KeyCount \in Nat
    /\ MaxSteps \in Nat
    /\ MaxRuns \in Nat \ {0}
    /\ CheckEvery \in Nat \ {0}
    /\ StopKeys \subseteq Keys
    /\ WithServer \subseteq BOOLEAN

\* The key of the i-th token on the hint channel: odd tokens are prefixes.
TokenKey(i) == (i + 1) \div 2

NoKey == 0

NoPreimage == [key |-> NoKey, value |-> NoKey]

NoRequest == [kind |-> "none", key |-> NoKey, answered |-> FALSE]

Request(kind, key) == [kind |-> kind, key |-> key, answered |-> FALSE]

\* VMState, as far as it is written to files: `written' counts the tokens the
\* program has written, LastHint counts those of them still buffered.
NewVMState ==
    [Step |-> 0, Exited |-> FALSE, written |-> 0, LastHint |-> 0, PreimageKey |-> NoKey]

NoFile == [Step |-> -1]

VARIABLES
    main,         \* where the goroutine of Run is
    result,       \* what Run returns: "none", "ok", "error" or "server exited"
    vm,           \* VMState
    lastPreimage, \* [key, value] of InstrumentedState; the value by its key
    readOffset,   \* lastPreimageOffset says that this step has read
    request,      \* what the client has asked the server, and if it is answered
    waiter,       \* where the goroutine of wait is; "none" without a server
    ProcessState, \* cmd.ProcessState is not nil
    proc,         \* the value of it that Guard was given
    cancelled,    \* cancelIO has been called
    server,       \* the server process: "none", "running" or "exited"
    interrupted,  \* Close has sent the server its signal
    served,       \* the hints this server has handled
    handled,      \* the hints for which Hint has returned, in any run
    ctxDone,      \* the context of the command is cancelled
    file,         \* the last state file written: a snapshot or the output
    run           \* the number of this run

clientVars == <<result, vm, lastPreimage, readOffset>>
oracleVars == <<waiter, ProcessState, cancelled>>
serverVars == <<server, served>>
vars == <<main, result, vm, lastPreimage, readOffset, request, waiter, ProcessState, proc,
          cancelled, server, interrupted, served, handled, ctxDone, file, run>>

\* A server was given on the command line.
HasCmd == waiter # "none"

Init ==
    /\ main = "start" /\ result = "none"
    /\ lastPreimage = NoPreimage /\ readOffset = FALSE /\ request = NoRequest
    /\ waiter = "none" /\ ProcessState = FALSE /\ proc = FALSE /\ cancelled = FALSE
    /\ server = "none" /\ interrupted = FALSE /\ served = {}
    /\ ctxDone = FALSE
    /\ vm = NewVMState
    /\ handled = {}
    /\ file = NoFile
    /\ run = 1

-----------------------------------------------------------------------------
(* Run: setting up.                                                        *)

\* NewProcessPreimageOracle with an empty name: no server, Start does nothing.
StartWithout ==
    /\ main = "start" /\ FALSE \in WithServer
    /\ main' = "guard"
    /\ UNCHANGED <<clientVars, request, oracleVars, proc, serverVars, interrupted, handled, ctxDone, file, run>>

\* Start launches the process and, whatever comes of it, the wait goroutine.
Start ==
    /\ main = "start" /\ TRUE \in WithServer
    /\ waiter' = "wait"
    /\ server' = "running"
    /\ main' = "guard"
    /\ UNCHANGED <<clientVars, request, ProcessState, cancelled, proc, served, interrupted, handled, ctxDone, file, run>>

\* The process does not start; Run returns before Close has been deferred.
StartFails ==
    /\ main = "start" /\ TRUE \in WithServer
    /\ waiter' = "wait"
    /\ result' = "error"
    /\ main' = "done"
    /\ UNCHANGED <<vm, lastPreimage, readOffset, request, ProcessState, cancelled, proc, serverVars,
                   interrupted, handled, ctxDone, file, run>>

\* Guard is given the ProcessState of this moment.
MakeGuard ==
    /\ main = "guard"
    /\ proc' = ProcessState
    /\ main' = "loop"
    /\ UNCHANGED <<clientVars, request, oracleVars, serverVars, interrupted, handled, ctxDone, file, run>>

-----------------------------------------------------------------------------
(* Run: the loop.                                                          *)

ContextStops == vm.Step % CheckEvery = 0 /\ ctxDone

\* The context is cancelled: Run returns its error, through the deferred Close.
LoopCancelled ==
    /\ main = "loop" /\ ~vm.Exited
    /\ ContextStops
    /\ result' = "error"
    /\ main' = "close"
    /\ UNCHANGED <<vm, lastPreimage, readOffset, request, oracleVars, proc, serverVars, interrupted,
                   handled, ctxDone, file, run>>

LoopEnds ==
    /\ main = "loop"
    /\ vm.Exited \/ (~ContextStops /\ vm.Step \in StopAt)
    /\ main' = "output"
    /\ UNCHANGED <<clientVars, request, oracleVars, proc, serverVars, interrupted, handled, ctxDone, file, run>>

\* The next iteration gets to its step.
StepDue == main = "loop" /\ ~vm.Exited /\ ~ContextStops /\ vm.Step \notin StopAt

\* The snapshot cannot be written.
SnapshotFails ==
    /\ StepDue
    /\ vm.Step \in SnapshotAt
    /\ result' = "error"
    /\ main' = "close"
    /\ UNCHANGED <<vm, lastPreimage, readOffset, request, oracleVars, proc, serverVars, interrupted,
                   handled, ctxDone, file, run>>

\* The start of every step: the snapshot before it, and the reset of the offset.
BeginStep ==
    /\ StepDue
    /\ file' = IF vm.Step \in SnapshotAt THEN vm ELSE file
    /\ readOffset' = FALSE

\* A step that does not concern the oracle, or the exit system call.
PlainStep ==
    /\ BeginStep
    /\ \E exit \in BOOLEAN :
          /\ vm.Step + 1 < MaxSteps \/ exit
          /\ vm' = [vm EXCEPT !.Step = @ + 1, !.Exited = exit]
    /\ main' = "stepped"
    /\ UNCHANGED <<result, lastPreimage, request, oracleVars, proc, serverVars, interrupted, handled, ctxDone, run>>

\* The write system call on the hint channel buffers its n tokens.
WriteHint ==
    /\ BeginStep
    /\ vm.Step + 1 < MaxSteps
    /\ \E n \in 1..(2 * KeyCount - vm.written) :
          vm' = [vm EXCEPT !.Step = @ + 1, !.written = @ + n, !.LastHint = @ + n]
    /\ main' = "hint"
    /\ UNCHANGED <<result, lastPreimage, request, oracleVars, proc, serverVars, interrupted, handled, ctxDone, run>>

\* The loop of that system call: a complete hint leaves the buffer, then goes to
\* the oracle; what is incomplete stays.
HintLoop ==
    /\ main = "hint"
    /\ IF vm.LastHint < 2
       THEN /\ main' = "stepped"
            /\ UNCHANGED <<vm, request, handled>>
       ELSE LET hint == TokenKey(vm.written - vm.LastHint + 1)
            IN  /\ vm' = [vm EXCEPT !.LastHint = @ - 2]
                /\ IF HasCmd
                   THEN /\ request' = Request("hint", hint)
                        /\ main' = "hinting"
                        /\ UNCHANGED handled
                   ELSE /\ handled' = handled \union {hint}
                        /\ UNCHANGED <<main, request>>
    /\ UNCHANGED <<result, lastPreimage, readOffset, oracleVars, proc, serverVars, interrupted, ctxDone, file, run>>

\* The write system call on the pre-image channel: the key of a later read.
WritePreimageKey ==
    /\ BeginStep
    /\ vm.Step + 1 < MaxSteps
    /\ \E key \in {k \in Keys : 2 * k <= vm.written} :
          vm' = [vm EXCEPT !.Step = @ + 1, !.PreimageKey = key]
    /\ main' = "stepped"
    /\ UNCHANGED <<result, lastPreimage, request, oracleVars, proc, serverVars, interrupted, handled, ctxDone, run>>

\* Mutant: any pre-image that is there will do.
ReadPreimageAny ==
    /\ BeginStep
    /\ vm.Step + 1 < MaxSteps /\ vm.PreimageKey # NoKey
    /\ IF lastPreimage.value # NoKey
       THEN /\ main' = "read"
            /\ UNCHANGED <<lastPreimage, request>>
       ELSE /\ lastPreimage' = [lastPreimage EXCEPT !.key = vm.PreimageKey]
            /\ request' = IF HasCmd THEN Request("get", vm.PreimageKey) ELSE NoRequest
            /\ main' = "getting"
    /\ vm' = [vm EXCEPT !.Step = @ + 1]
    /\ UNCHANGED <<result, oracleVars, proc, serverVars, interrupted, handled, ctxDone, run>>

\* The read system call on it.  readPreimage keeps the last pre-image and asks
\* the oracle for any other; the key is replaced before the oracle has answered.
ReadPreimage ==
    /\ BeginStep
    /\ vm.Step + 1 < MaxSteps /\ vm.PreimageKey # NoKey
    /\ IF lastPreimage.value # NoKey /\ lastPreimage.key = vm.PreimageKey
       THEN /\ main' = "read"
            /\ UNCHANGED <<lastPreimage, request>>
       ELSE /\ lastPreimage' = [lastPreimage EXCEPT !.key = vm.PreimageKey]
            /\ request' = IF HasCmd THEN Request("get", vm.PreimageKey) ELSE NoRequest
            /\ main' = "getting"
    /\ vm' = [vm EXCEPT !.Step = @ + 1]
    /\ UNCHANGED <<result, oracleVars, proc, serverVars, interrupted, handled, ctxDone, run>>

\* Mutant: one hint per write is enough.
HintReturnsOnce ==
    /\ main = "hinting" /\ request.answered
    /\ handled' = handled \union {request.key}
    /\ request' = NoRequest
    /\ main' = "stepped"
    /\ UNCHANGED <<clientVars, oracleVars, proc, serverVars, interrupted, ctxDone, file, run>>

\* The answer reaches the client.
HintReturns ==
    /\ main = "hinting" /\ request.answered
    /\ handled' = handled \union {request.key}
    /\ request' = NoRequest
    /\ main' = "hint"
    /\ UNCHANGED <<clientVars, oracleVars, proc, serverVars, interrupted, ctxDone, file, run>>

GetReturns ==
    /\ main = "getting" /\ request.answered
    /\ lastPreimage' = [lastPreimage EXCEPT !.value = request.key]
    /\ request' = NoRequest
    /\ main' = "read"
    /\ UNCHANGED <<result, vm, readOffset, oracleVars, proc, serverVars, interrupted, handled, ctxDone, file, run>>

\* The rest of readPreimage, once lastPreimage is there.
PreimageRead ==
    /\ main = "read"
    /\ readOffset' = TRUE
    /\ main' = "stepped"
    /\ UNCHANGED <<result, vm, lastPreimage, request, oracleVars, proc, serverVars, interrupted, handled,
                   ctxDone, file, run>>

\* Mutant: Run leaves the loop where it should return the error.
GuardedStepFailsBreak ==
    /\ \/ main \in {"hinting", "getting"} /\ cancelled
       \/ main = "getting" /\ ~HasCmd
       \/ main = "read"
    /\ readOffset' = (main = "read")
    /\ request' = NoRequest
    /\ main' = "output"
    /\ UNCHANGED <<result, vm, lastPreimage, oracleVars, proc, serverVars, interrupted, handled,
                   ctxDone, file, run>>

\* The step panics: the client's IO is cancelled, there is no server, or the
\* program reads past the end of the pre-image.  The VM makes an error of the
\* panic, and Guard explains it if it can.
GuardedStepFails ==
    /\ \/ main \in {"hinting", "getting"} /\ cancelled
       \/ main = "getting" /\ ~HasCmd
       \/ main = "read"
    /\ result' = IF proc THEN "server exited" ELSE "error"
    /\ readOffset' = (main = "read")
    /\ request' = NoRequest
    /\ main' = "close"
    /\ UNCHANGED <<vm, lastPreimage, oracleVars, proc, serverVars, interrupted, handled,
                   ctxDone, file, run>>

\* The end of an iteration: stop if the step has read a pre-image to stop at.
EndStep ==
    /\ main = "stepped"
    /\ main' = IF readOffset /\ lastPreimage.key \in StopKeys THEN "output" ELSE "loop"
    /\ UNCHANGED <<clientVars, request, oracleVars, proc, serverVars, interrupted, handled, ctxDone, file, run>>

\* The state is written, or cannot be, and Run returns.
Output ==
    /\ main = "output"
    /\ \/ result' = "ok" /\ file' = vm
       \/ result' = "error" /\ UNCHANGED file
    /\ main' = "close"
    /\ UNCHANGED <<vm, lastPreimage, readOffset, request, oracleVars, proc, serverVars, interrupted,
                   handled, ctxDone, run>>

-----------------------------------------------------------------------------
(* ProcessPreimageOracle.                                                  *)

\* Mutant: Close sends the signal and does not wait.
CloseAtOnce ==
    /\ main = "close"
    /\ interrupted' = HasCmd
    /\ main' = "done"
    /\ UNCHANGED <<clientVars, request, oracleVars, proc, serverVars, handled, ctxDone, file, run>>

\* Close, after a second of sleep: the signal goes to the server, dead or alive.
Close ==
    /\ main = "close"
    /\ IF HasCmd
       THEN interrupted' = TRUE /\ main' = "closing"
       ELSE main' = "done" /\ UNCHANGED interrupted
    /\ UNCHANGED <<clientVars, request, oracleVars, proc, serverVars, handled, ctxDone, file, run>>

\* Close receives on waitErr what wait sends: the channel has no buffer.
CloseReceives ==
    /\ main = "closing" /\ waiter = "send"
    /\ main' = "done"
    /\ waiter' = "done"
    /\ UNCHANGED <<clientVars, request, ProcessState, cancelled, proc, serverVars, interrupted, handled,
                   ctxDone, file, run>>

\* Mutant: wait sends on waitErr before it cancels the client's IO.
WaitSendsFirst ==
    /\ waiter = "wait" /\ server # "running"
    /\ ProcessState' = (server = "exited")
    /\ waiter' = "send"
    /\ UNCHANGED <<main, clientVars, request, proc, cancelled, serverVars, interrupted, handled, ctxDone, file, run>>

\* cmd.Wait returns when the process is gone or never was, and sets ProcessState.
WaitReturns ==
    /\ waiter = "wait" /\ server # "running"
    /\ ProcessState' = (server = "exited")
    /\ waiter' = "cancel"
    /\ UNCHANGED <<main, clientVars, request, proc, cancelled, serverVars, interrupted, handled, ctxDone, file, run>>

\* Then cancelIO, then the send.
CancelIO ==
    /\ waiter = "cancel"
    /\ cancelled' = TRUE
    /\ waiter' = "send"
    /\ UNCHANGED <<main, clientVars, request, proc, ProcessState, serverVars, interrupted, handled, ctxDone, file, run>>

-----------------------------------------------------------------------------
(* The server, which is not part of the repository.                        *)

\* It can serve the pre-images it had a hint for.
Servable == request.kind = "hint" \/ request.key \in served

ServerAnswers ==
    /\ server = "running"
    /\ request.kind # "none" /\ ~request.answered
    /\ Servable
    /\ request' = [request EXCEPT !.answered = TRUE]
    /\ served' = served \union {request.key}
    /\ UNCHANGED <<main, clientVars, oracleVars, proc, server, interrupted, handled, ctxDone, file, run>>

\* It may exit at any time.
ServerExits ==
    /\ server = "running"
    /\ server' = "exited"
    /\ UNCHANGED <<main, clientVars, request, oracleVars, proc, served, interrupted, handled, ctxDone, file, run>>

\* It does exit on a signal, and on a request it cannot serve.
MustExit == interrupted \/ (request.kind = "get" /\ ~Servable)

-----------------------------------------------------------------------------
(* The user.                                                               *)

ContextCancelled ==
    /\ main # "done" /\ ~ctxDone
    /\ ctxDone' = TRUE
    /\ UNCHANGED <<main, clientVars, request, oracleVars, proc, serverVars, interrupted, handled, file, run>>

\* The command is run again on the last file.
Rerun ==
    /\ main = "done"
    /\ run < MaxRuns /\ file # NoFile
    /\ run' = run + 1
    /\ vm' = file
    /\ main' = "start" /\ result' = "none"
    /\ lastPreimage' = NoPreimage /\ readOffset' = FALSE /\ request' = NoRequest
    /\ waiter' = "none" /\ ProcessState' = FALSE /\ proc' = FALSE /\ cancelled' = FALSE
    /\ server' = "none" /\ interrupted' = FALSE /\ served' = {}
    /\ ctxDone' = FALSE
    /\ UNCHANGED <<handled, file>>

-----------------------------------------------------------------------------
RunStep ==
    \/ StartWithout \/ Start \/ StartFails \/ MakeGuard
    \/ LoopCancelled \/ LoopEnds \/ SnapshotFails
    \/ PlainStep \/ WriteHint \/ WritePreimageKey \/ ReadPreimage
    \/ HintLoop \/ HintReturns \/ GetReturns \/ PreimageRead
    \/ GuardedStepFails \/ EndStep \/ Output
    \/ Close \/ CloseReceives

WaitStep == WaitReturns \/ CancelIO

Next == RunStep \/ WaitStep \/ ServerAnswers \/ ServerExits \/ ContextCancelled \/ Rerun

\* Goroutines are scheduled; the server answers what it can and exits when it must.
Fairness ==
    /\ WF_vars(RunStep)
    /\ WF_vars(WaitStep)
    /\ WF_vars(ServerAnswers)
    /\ WF_vars(MustExit /\ ServerExits)

Spec == Init /\ [][Next]_vars

FairSpec == Spec /\ Fairness

-----------------------------------------------------------------------------
(* Properties.                                                             *)

\* Run does not return while its server is alive: every way out of Run goes
\* through Close, and Close waits until the process has been reaped.
NoOrphanServer == main = "done" => server # "running"

\* A snapshot or an output never counts a hint as dealt with unless Hint has
\* returned for it: a step that failed half way through its hints, with some of
\* them already out of LastHint, is in no file.
FiledHintsHandled ==
    file # NoFile => \A k \in Keys : 2 * k <= file.written - file.LastHint => k \in handled

\* A step that has read a pre-image has read the one of the key in the VM's
\* state, although readPreimage serves it from a cache that outlives the step and
\* replaces the cache's key before it has the pre-image.
ReadsItsKey ==
    main = "stepped" /\ readOffset =>
        lastPreimage.key = vm.PreimageKey /\ lastPreimage.value = vm.PreimageKey

\* In a run from the start of the program, the server has handled the hint for
\* every pre-image it is asked for, however the hints were cut into writes.
HintedBeforeGet ==
    run = 1 /\ request.kind = "get" => request.key \in served

\* The server's exit always wakes a client that waits for it, and Run returns.
Terminates == main # "done" ~> main = "done"

\* "a VM can start from any state without fetching prior pre-images, and instead
\* just repeat the last hint on setup, to make sure pre-image requests can be
\* served" (VMState.LastHint).
RestartServable == request.kind = "get" => request.key \in served

=============================================================================
