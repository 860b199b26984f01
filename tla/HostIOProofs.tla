---------------------------- MODULE HostIOProofs ----------------------------
(***************************************************************************)
(* Theorems about what a run has to do with the world outside the VM: the  *)
(* run command and its pre-image server (OracleRun), for any number of     *)
(* keys, steps and runs; and the bytes and hints that the program writes   *)
(* (GuestOutput), for any memory, any sizes of address space, pages,       *)
(* buffers and lengths, and any number of calls.                           *)
(***************************************************************************)
EXTENDS OracleRun, GuestOutput, SequenceTheorems, WellFoundedInduction, TLAPS

-----------------------------------------------------------------------------
(* OracleRun: the run command and its server.                              *)

\* The inductive strengthening of NoOrphanServer: a live server always has a wait
\* goroutine in cmd.Wait, so a send on waitErr means that the server is gone.
OrphanInv ==
    /\ main = "start" => server = "none" /\ waiter = "none"
    /\ server = "running" => waiter = "wait"
    /\ NoOrphanServer

\* Run never returns, on any of its paths, while its pre-image server is alive.
THEOREM ServerReaped == Spec => []NoOrphanServer
  <1> USE DEF OrphanInv, NoOrphanServer
  <1>1. Init => OrphanInv
    BY DEF Init
  <1>2. OrphanInv /\ [Next]_vars => OrphanInv'
    <2> SUFFICES ASSUME OrphanInv, [Next]_vars PROVE OrphanInv'
      OBVIOUS
    <2> USE DEF oracleVars, serverVars
    \* The steps of Run before its deferred Close leave the server and its waiter.
    <2>1. CASE StartWithout
      BY <2>1 DEF StartWithout
    <2>2. CASE Start
      BY <2>2 DEF Start
    <2>3. CASE StartFails
      BY <2>3 DEF StartFails
    <2>4. CASE MakeGuard
      BY <2>4 DEF MakeGuard
    <2>5. CASE LoopCancelled \/ LoopEnds \/ SnapshotFails \/ EndStep \/ Output
      BY <2>5 DEF LoopCancelled, LoopEnds, SnapshotFails, EndStep, Output, StepDue
    <2>6. CASE PlainStep \/ WriteHint \/ WritePreimageKey \/ ReadPreimage
      BY <2>6 DEF PlainStep, WriteHint, WritePreimageKey, ReadPreimage, BeginStep, StepDue
    <2>7. CASE HintLoop
      BY <2>7 DEF HintLoop
    <2>8. CASE HintReturns \/ GetReturns \/ PreimageRead \/ GuardedStepFails
      BY <2>8 DEF HintReturns, GetReturns, PreimageRead, GuardedStepFails
    \* Close returns at once only if there is no server, else after the send.
    <2>9. CASE Close
      BY <2>9 DEF Close, HasCmd
    <2>10. CASE CloseReceives
      BY <2>10 DEF CloseReceives
    <2>11. CASE WaitReturns
      BY <2>11 DEF WaitReturns
    <2>12. CASE CancelIO
      BY <2>12 DEF CancelIO
    <2>13. CASE ServerAnswers \/ ServerExits
      BY <2>13 DEF ServerAnswers, ServerExits
    <2>14. CASE ContextCancelled
      BY <2>14 DEF ContextCancelled
    <2>15. CASE Rerun
      BY <2>15 DEF Rerun
    <2>16. CASE UNCHANGED vars
      BY <2>16 DEF vars
    <2> QED
      BY <2>1, <2>2, <2>3, <2>4, <2>5, <2>6, <2>7, <2>8, <2>9, <2>10, <2>11, <2>12, <2>13,
         <2>14, <2>15, <2>16 DEF Next, RunStep, WaitStep
  <1> QED BY <1>1, <1>2, PTL DEF Spec

-----------------------------------------------------------------------------
(* The pre-image cache.                                                    *)

\* The inductive strengthening of ReadsItsKey: the cached pair matches except
\* while readPreimage waits for the oracle, and while a failed run winds down;
\* what it waits for is the pre-image of the VM's key.
CacheInv ==
    /\ DOMAIN lastPreimage = {"key", "value"}
    /\ DOMAIN request = {"kind", "key", "answered"}
    /\ "PreimageKey" \in DOMAIN vm
    /\ file # NoFile => "PreimageKey" \in DOMAIN file
    /\ request.answered => request.kind # "none"
    /\ main \notin {"getting", "close", "closing", "done"} /\ lastPreimage.value # NoKey =>
          lastPreimage.value = lastPreimage.key
    /\ main \in {"hint", "hinting"} => readOffset = FALSE
    /\ main = "getting" =>
          /\ lastPreimage.key = vm.PreimageKey
          /\ request.kind # "none" => request.key = vm.PreimageKey
    /\ main = "read" =>
          lastPreimage.key = vm.PreimageKey /\ lastPreimage.value = vm.PreimageKey
    /\ ReadsItsKey

\* A step that reads a pre-image reads the one of the key in the VM's state,
\* whatever the cache of InstrumentedState has kept from earlier steps.
THEOREM CacheCorrect == Spec => []ReadsItsKey
  <1> USE DEF CacheInv, ReadsItsKey
  <1>1. Init => CacheInv
    BY DEF Init, NoPreimage, NoRequest, NewVMState, NoFile
  <1>2. CacheInv /\ [Next]_vars => CacheInv'
    <2> SUFFICES ASSUME CacheInv, [Next]_vars PROVE CacheInv'
      OBVIOUS
    <2> USE DEF clientVars
    <2>1. CASE StartWithout \/ Start \/ StartFails \/ MakeGuard
      BY <2>1 DEF StartWithout, Start, StartFails, MakeGuard
    <2>2. CASE LoopCancelled \/ LoopEnds \/ SnapshotFails
      BY <2>2 DEF LoopCancelled, LoopEnds, SnapshotFails, StepDue
    <2>3. CASE EndStep \/ Output
      BY <2>3 DEF EndStep, Output
    <2>4. ASSUME BeginStep
          PROVE  main = "loop" /\ readOffset' = FALSE /\ (file' = vm \/ file' = file)
      BY <2>4 DEF BeginStep, StepDue
    <2>5. CASE PlainStep
      BY <2>4, <2>5 DEF PlainStep
    <2>6. CASE WriteHint
      BY <2>4, <2>6 DEF WriteHint
    <2>7. CASE WritePreimageKey
      BY <2>4, <2>7 DEF WritePreimageKey
    \* A hit leaves a pair that matches; a miss asks for the VM's key.
    <2>8. CASE ReadPreimage
      BY <2>4, <2>8 DEF ReadPreimage, Request, NoRequest
    <2>9. CASE HintLoop
      BY <2>9 DEF HintLoop, Request
    <2>10. CASE HintReturns
      BY <2>10 DEF HintReturns, NoRequest
    <2>11. CASE GetReturns
      BY <2>11 DEF GetReturns, NoRequest
    <2>12. CASE PreimageRead
      BY <2>12 DEF PreimageRead
    <2>13. CASE GuardedStepFails
      BY <2>13 DEF GuardedStepFails, NoRequest
    <2>14. CASE Close \/ CloseReceives
      BY <2>14 DEF Close, CloseReceives
    <2>15. CASE WaitReturns \/ CancelIO
      BY <2>15 DEF WaitReturns, CancelIO
    <2>16. CASE ServerAnswers
      BY <2>16 DEF ServerAnswers
    <2>17. CASE ServerExits \/ ContextCancelled
      BY <2>17 DEF ServerExits, ContextCancelled
    <2>18. CASE Rerun
      BY <2>18 DEF Rerun, NoPreimage, NoRequest
    <2>19. CASE UNCHANGED vars
      BY <2>19 DEF vars
    <2> QED
      BY <2>1, <2>2, <2>3, <2>5, <2>6, <2>7, <2>8, <2>9, <2>10, <2>11, <2>12, <2>13, <2>14,
         <2>15, <2>16, <2>17, <2>18, <2>19 DEF Next, RunStep, WaitStep
  <1> QED BY <1>1, <1>2, PTL DEF Spec

-----------------------------------------------------------------------------
(* Hints.                                                                  *)

VMStates ==
    [Step : Nat, Exited : BOOLEAN, written : Nat, LastHint : Nat, PreimageKey : Keys \union {NoKey}]

\* The tokens of a state that are no longer buffered.
Sent(v) == v.written - v.LastHint

\* They are whole hints, and the program has written the hint of the key it has
\* last asked for.
Whole(v) ==
    /\ v.LastHint <= v.written
    /\ Sent(v) % 2 = 0
    /\ 2 * v.PreimageKey <= v.written

\* Where a hint that has left the buffer may not have been dealt with: while the
\* server has it, and when that step has failed.
Unsure == {"hinting", "close", "closing", "done"}

\* The inductive strengthening of FiledHintsHandled.  Between two steps less than
\* a hint is buffered, so a state that is filed, or restarted from, has sent every
\* hint that the program has completed.
HintInv ==
    /\ vm \in VMStates /\ Whole(vm)
    /\ file # NoFile => file \in VMStates /\ Whole(file) /\ file.LastHint < 2
    /\ DOMAIN request = {"kind", "key", "answered"}
    /\ main \notin Unsure \union {"hint"} => vm.LastHint < 2
    /\ main \notin Unsure => \A k \in Keys : 2 * k <= Sent(vm) => k \in handled
    /\ main = "hinting" =>
          \A k \in Keys : 2 * k <= Sent(vm) => k \in handled \union {request.key}
    /\ FiledHintsHandled

\* The inductive strengthening of HintedBeforeGet: in the first run a hint that is
\* dealt with has been dealt with by this run's server, if there is one.
ServedInv ==
    /\ HintInv
    /\ run = 1 /\ main = "start" => handled = {}
    /\ run = 1 /\ HasCmd => handled \subseteq served
    /\ run \in Nat \ {0}
    /\ main = "start" => ~HasCmd
    /\ request.answered => request.key \in served
    /\ request.kind = "get" => main = "getting"
    /\ request.kind # "none" => HasCmd
    /\ HintedBeforeGet

\* A state with less than a hint in its buffer has sent the hint of its key.
LEMMA KeySent ==
    ASSUME NEW v \in VMStates, Whole(v), v.LastHint < 2
    PROVE  2 * v.PreimageKey <= Sent(v)
  BY RunAssumption DEF VMStates, Whole, Sent, Keys, NoKey

\* The step counter of a state.
LEMMA Ticked ==
    ASSUME NEW v \in VMStates PROVE [v EXCEPT !.Step = @ + 1] \in VMStates
  BY DEF VMStates

\* The VM state after a step that sends and buffers nothing.
LEMMA StepOnly ==
    ASSUME NEW v \in VMStates, Whole(v), NEW w,
           \/ \E exit \in BOOLEAN : w = [v EXCEPT !.Step = @ + 1, !.Exited = exit]
           \/ w = [v EXCEPT !.Step = @ + 1]
           \/ \E key \in {k \in Keys : 2 * k <= v.written} :
                 w = [v EXCEPT !.Step = @ + 1, !.PreimageKey = key]
    PROVE  w \in VMStates /\ Whole(w) /\ w.LastHint = v.LastHint /\ Sent(w) = Sent(v)
  <1>1. ASSUME NEW exit \in BOOLEAN, w = [v EXCEPT !.Step = @ + 1, !.Exited = exit]
        PROVE  w \in VMStates /\ Whole(w) /\ w.LastHint = v.LastHint /\ Sent(w) = Sent(v)
    <2> DEFINE u == [v EXCEPT !.Step = @ + 1]
    <2>a. u \in VMStates
      BY Ticked
    <2>b. w = [u EXCEPT !.Exited = exit]
      BY <1>1 DEF VMStates
    <2> HIDE DEF u
    <2>1. w \in VMStates
      BY <2>a, <2>b, <1>1 DEF VMStates
    <2>2. w.LastHint = v.LastHint /\ w.written = v.written /\ w.PreimageKey = v.PreimageKey
      BY <1>1 DEF VMStates
    <2> QED BY <2>1, <2>2 DEF Whole, Sent
  <1>2. CASE w = [v EXCEPT !.Step = @ + 1]
    BY <1>2 DEF VMStates, Whole, Sent
  <1>3. ASSUME NEW key \in Keys, 2 * key <= v.written,
               w = [v EXCEPT !.Step = @ + 1, !.PreimageKey = key]
        PROVE  w \in VMStates /\ Whole(w) /\ w.LastHint = v.LastHint /\ Sent(w) = Sent(v)
    <2> DEFINE u == [v EXCEPT !.Step = @ + 1]
    <2>a. u \in VMStates
      BY Ticked
    <2>b. w = [u EXCEPT !.PreimageKey = key]
      BY <1>3 DEF VMStates
    <2> HIDE DEF u
    <2>1. w \in VMStates
      BY <2>a, <2>b DEF VMStates
    <2>2. w.LastHint = v.LastHint /\ w.written = v.written /\ w.PreimageKey = key
      BY <1>3 DEF VMStates
    <2> QED BY <1>3, <2>1, <2>2 DEF Whole, Sent
  <1> QED BY <1>1, <1>2, <1>3

\* The hint at the head of a buffer that holds one: its key is the first that is
\* not sent, and once it has left, its tokens are sent.
LEMMA HeadHint ==
    ASSUME NEW v \in VMStates, Whole(v), v.LastHint >= 2, NEW w,
           w = [v EXCEPT !.LastHint = @ - 2]
    PROVE  /\ w \in VMStates /\ Whole(w)
           /\ Sent(w) = Sent(v) + 2
           /\ 2 * TokenKey(v.written - v.LastHint + 1) = Sent(w)
           /\ TokenKey(v.written - v.LastHint + 1) \in Nat
  <1>1. v.LastHint \in Nat /\ v.written \in Nat /\ v.PreimageKey \in Nat
    BY RunAssumption DEF VMStates, Keys, NoKey
  <1>2. w \in VMStates /\ w.LastHint = v.LastHint - 2 /\ w.written = v.written
          /\ w.PreimageKey = v.PreimageKey
    BY <1>1 DEF VMStates
  <1>3. Sent(w) = Sent(v) + 2 /\ Sent(v) \in Nat /\ Sent(v) % 2 = 0
    BY <1>1, <1>2 DEF Whole, Sent
  <1>4. Whole(w)
    BY <1>1, <1>2, <1>3 DEF Whole
  <1>5. TokenKey(v.written - v.LastHint + 1) = (Sent(v) + 2) \div 2
    BY <1>1 DEF TokenKey, Sent
  <1>6. 2 * ((Sent(v) + 2) \div 2) = Sent(v) + 2 /\ (Sent(v) + 2) \div 2 \in Nat
    BY <1>3
  <1> QED BY <1>2, <1>3, <1>4, <1>5, <1>6

\* Every step keeps HintInv.
LEMMA HintStep == HintInv /\ [Next]_vars => HintInv'
  <1> SUFFICES ASSUME HintInv, [Next]_vars PROVE HintInv'
    OBVIOUS
  <1> USE DEF HintInv, FiledHintsHandled, Unsure, clientVars
  \* The steps that leave the state of the VM, the files and the hints.
  <1>1. CASE StartWithout \/ Start \/ StartFails \/ MakeGuard
    BY <1>1 DEF StartWithout, Start, StartFails, MakeGuard
  <1>2. CASE LoopCancelled \/ LoopEnds \/ SnapshotFails \/ EndStep
    BY <1>2 DEF LoopCancelled, LoopEnds, SnapshotFails, StepDue, EndStep
  <1>3. CASE PreimageRead
    BY <1>3 DEF PreimageRead
  <1>4. CASE GetReturns
    BY <1>4 DEF GetReturns, NoRequest
  <1>5. CASE GuardedStepFails
    BY <1>5 DEF GuardedStepFails, NoRequest
  <1>6. CASE Close \/ CloseReceives
    BY <1>6 DEF Close, CloseReceives
  <1>7. CASE WaitReturns \/ CancelIO \/ ServerExits \/ ContextCancelled
    BY <1>7 DEF WaitReturns, CancelIO, ServerExits, ContextCancelled
  <1>8. CASE ServerAnswers
    BY <1>8 DEF ServerAnswers
  \* The steps of the VM that write no hint: a snapshot, then the step.
  <1>b. ASSUME BeginStep
        PROVE  /\ main = "loop" /\ vm.LastHint < 2
               /\ file' # NoFile =>
                     /\ file' \in VMStates /\ Whole(file') /\ file'.LastHint < 2
                     /\ \A k \in Keys : 2 * k <= Sent(file') => k \in handled
    BY <1>b DEF BeginStep, StepDue, Sent
  <1>9. CASE PlainStep
    <2>1. vm' \in VMStates /\ Whole(vm') /\ vm'.LastHint = vm.LastHint /\ Sent(vm') = Sent(vm)
      BY <1>9, StepOnly DEF PlainStep
    <2>2. BeginStep /\ handled' = handled /\ main' = "stepped" /\ request' = request
      BY <1>9 DEF PlainStep
    <2> QED BY <1>b, <2>1, <2>2 DEF Sent
  <1>10. CASE WritePreimageKey
    BY <1>b, <1>10, StepOnly DEF WritePreimageKey, Sent
  <1>11. CASE ReadPreimage
    <2>1. vm' \in VMStates /\ Whole(vm') /\ vm'.LastHint = vm.LastHint /\ Sent(vm') = Sent(vm)
      BY <1>11, StepOnly DEF ReadPreimage
    <2>2. BeginStep /\ handled' = handled /\ main' \in {"read", "getting"}
      BY <1>11 DEF ReadPreimage
    <2>3. DOMAIN request' = {"kind", "key", "answered"}
      BY <1>11 DEF ReadPreimage, Request, NoRequest
    <2> QED BY <1>b, <2>1, <2>2, <2>3 DEF Sent
  \* A write of hint tokens sends nothing yet.
  <1>12. CASE WriteHint
    <2>1. PICK n \in 1..(2 * KeyCount - vm.written) :
             vm' = [vm EXCEPT !.Step = @ + 1, !.written = @ + n, !.LastHint = @ + n]
      BY <1>12 DEF WriteHint
    <2>2. n \in Nat
      BY RunAssumption DEF VMStates
    <2>3. vm' \in VMStates
      <3> DEFINE u == [vm EXCEPT !.Step = @ + 1]
                 w == [u EXCEPT !.written = @ + n]
      <3>1. u \in VMStates
        BY DEF VMStates
      <3>2. vm' = [w EXCEPT !.LastHint = @ + n]
        BY <2>1 DEF VMStates
      <3> HIDE DEF u
      <3>3. w \in VMStates
        BY <2>2, <3>1 DEF VMStates
      <3> HIDE DEF w
      <3> QED BY <2>2, <3>2, <3>3 DEF VMStates
    <2>4. vm'.written = vm.written + n /\ vm'.LastHint = vm.LastHint + n
            /\ vm'.PreimageKey = vm.PreimageKey
      BY <2>1, <2>2 DEF VMStates
    <2>5. Sent(vm') = Sent(vm)
      BY <2>2, <2>4 DEF VMStates, Sent
    <2>6. Whole(vm')
      BY <2>2, <2>4, <2>5, RunAssumption DEF VMStates, Whole, Keys, NoKey
    <2> QED BY <1>b, <1>12, <2>3, <2>5, <2>6 DEF WriteHint, Sent
  \* The head of the buffer goes to the server, or is dealt with at once.
  <1>13. CASE HintLoop
    <2>1. CASE vm.LastHint < 2
      BY <1>13, <2>1 DEF HintLoop
    <2>2. CASE ~(vm.LastHint < 2)
      <3> DEFINE hint == TokenKey(vm.written - vm.LastHint + 1)
      <3>1. main = "hint" /\ vm' = [vm EXCEPT !.LastHint = @ - 2] /\ UNCHANGED file
        BY <1>13, <2>2 DEF HintLoop
      <3>2. vm.LastHint >= 2
        BY <2>2 DEF VMStates
      <3>3. /\ vm' \in VMStates /\ Whole(vm')
            /\ Sent(vm') = Sent(vm) + 2
            /\ 2 * hint = Sent(vm') /\ hint \in Nat
        BY <3>1, <3>2, HeadHint
      <3>4. Sent(vm) \in Nat
        BY DEF VMStates, Whole, Sent
      <3> HIDE DEF hint
      <3>5. \A k \in Keys : 2 * k <= Sent(vm') => k = hint \/ 2 * k <= Sent(vm)
        <4> SUFFICES ASSUME NEW k \in Keys, 2 * k <= Sent(vm'), ~(2 * k <= Sent(vm))
                     PROVE  k = hint
          OBVIOUS
        <4>1. k \in Nat
          BY RunAssumption DEF Keys
        <4>2. Sent(vm) % 2 = 0
          BY DEF Whole
        <4> QED BY <3>3, <3>4, <4>1, <4>2
      <3>6. \A k \in Keys : 2 * k <= Sent(vm') => k \in handled \union {hint}
        BY <3>1, <3>5
      <3>7. CASE HasCmd
        <4>1. request' = Request("hint", hint) /\ main' = "hinting" /\ handled' = handled
          BY <1>13, <2>2, <3>7 DEF HintLoop, hint
        <4>2. request'.key = hint /\ DOMAIN request' = {"kind", "key", "answered"}
          BY <4>1 DEF Request
        <4> QED BY <3>1, <3>3, <3>6, <4>1, <4>2
      <3>8. CASE ~HasCmd
        <4>1. handled' = handled \union {hint} /\ main' = main /\ request' = request
          BY <1>13, <2>2, <3>8 DEF HintLoop, hint
        <4> QED BY <3>1, <3>3, <3>6, <4>1
      <3> QED BY <3>7, <3>8
    <2> QED BY <2>1, <2>2
  <1>14. CASE HintReturns
    BY <1>14 DEF HintReturns, NoRequest
  <1>15. CASE Output
    BY <1>15 DEF Output, Sent
  <1>16. CASE Rerun
    BY <1>16 DEF Rerun, NoRequest, Sent
  <1>17. CASE UNCHANGED vars
    BY <1>17 DEF vars
  <1> QED
    BY <1>1, <1>2, <1>3, <1>4, <1>5, <1>6, <1>7, <1>8, <1>9, <1>10, <1>11, <1>12, <1>13,
       <1>14, <1>15, <1>16, <1>17 DEF Next, RunStep, WaitStep

\* HintInv holds at the start.
LEMMA HintInit == Init => HintInv
  <1> SUFFICES ASSUME Init PROVE HintInv
    OBVIOUS
  <1>1. vm \in VMStates /\ vm.LastHint = 0 /\ vm.written = 0 /\ vm.PreimageKey = 0
    BY DEF Init, VMStates, NewVMState, NoKey
  <1>2. Whole(vm) /\ Sent(vm) = 0
    BY <1>1 DEF Whole, Sent
  <1>3. \A k \in Keys : ~(2 * k <= 0)
    BY RunAssumption DEF Keys
  <1>4. file = NoFile /\ main = "start" /\ DOMAIN request = {"kind", "key", "answered"}
    BY DEF Init, NoRequest
  <1> QED BY <1>1, <1>2, <1>3, <1>4 DEF HintInv, FiledHintsHandled, Unsure

\* No file, snapshot or output, of any run, counts a hint as dealt with for which
\* Hint has not returned, however the program cuts its hints into writes and
\* wherever a step fails.
THEOREM FilesHandled == Spec => []FiledHintsHandled
  <1>1. HintInv => FiledHintsHandled
    BY DEF HintInv
  <1> QED BY <1>1, HintInit, HintStep, PTL DEF Spec

\* Every step keeps ServedInv.
LEMMA ServedStep == ServedInv /\ [Next]_vars => ServedInv'
  <1> SUFFICES ASSUME ServedInv, [Next]_vars PROVE ServedInv'
    OBVIOUS
  <1>h. HintInv /\ HintInv'
    BY HintStep DEF ServedInv
  <1>d. DOMAIN request = {"kind", "key", "answered"}
    BY <1>h DEF HintInv
  <1> USE DEF ServedInv, HintedBeforeGet, HasCmd, clientVars, oracleVars, serverVars
  <1> HIDE DEF HintInv
  <1>1. CASE StartWithout \/ MakeGuard
    BY <1>1, <1>h DEF StartWithout, MakeGuard
  <1>2. CASE Start \/ StartFails
    BY <1>2, <1>h DEF Start, StartFails
  <1>3. CASE LoopCancelled \/ LoopEnds \/ SnapshotFails \/ EndStep
    BY <1>3, <1>h DEF LoopCancelled, LoopEnds, SnapshotFails, StepDue, EndStep
  <1>4. CASE PreimageRead \/ Output
    BY <1>4, <1>h DEF PreimageRead, Output
  <1>5. CASE GetReturns
    BY <1>5, <1>h DEF GetReturns, NoRequest
  <1>6. CASE GuardedStepFails
    BY <1>6, <1>h DEF GuardedStepFails, NoRequest
  <1>7. CASE Close \/ CloseReceives
    BY <1>7, <1>h DEF Close, CloseReceives
  <1>8. CASE WaitReturns \/ CancelIO
    BY <1>8, <1>h DEF WaitReturns, CancelIO
  <1>9. CASE ServerExits \/ ContextCancelled
    BY <1>9, <1>h DEF ServerExits, ContextCancelled
  \* An answer adds to what the server has served; a hint that has returned has
  \* been answered.
  <1>10. CASE ServerAnswers
    BY <1>10, <1>h, <1>d DEF ServerAnswers
  <1>11. CASE HintReturns
    BY <1>11, <1>h DEF HintReturns, NoRequest
  <1>12. CASE PlainStep \/ WriteHint \/ WritePreimageKey
    BY <1>12, <1>h DEF PlainStep, WriteHint, WritePreimageKey, BeginStep, StepDue
  <1>13. CASE HintLoop
    BY <1>13, <1>h DEF HintLoop, Request
  \* A request for a pre-image goes out between two steps' worth of hints, when the
  \* hint of the key has been sent and is dealt with.
  <1>14. CASE ReadPreimage
    <2>1. main = "loop" /\ handled' = handled /\ served' = served /\ run' = run
            /\ waiter' = waiter
      BY <1>14 DEF ReadPreimage, BeginStep, StepDue
    <2>2. CASE request' = request /\ main' = "read"
      BY <1>h, <2>1, <2>2
    <2>3. CASE request' = NoRequest /\ main' = "getting"
      BY <1>h, <2>1, <2>3 DEF NoRequest
    <2>4. CASE HasCmd /\ request' = Request("get", vm.PreimageKey) /\ main' = "getting"
      <3>1. vm \in VMStates /\ Whole(vm) /\ vm.LastHint < 2
        BY <1>h, <2>1 DEF HintInv, Unsure
      <3>2. vm.PreimageKey \in Keys /\ 2 * vm.PreimageKey <= Sent(vm)
        BY <1>14, <3>1, KeySent DEF ReadPreimage, VMStates
      <3>3. vm.PreimageKey \in handled
        BY <1>h, <2>1, <3>2 DEF HintInv, Unsure
      <3> QED BY <1>h, <2>1, <2>4, <3>3 DEF Request
    <2> QED BY <1>14, <2>2, <2>3, <2>4 DEF ReadPreimage
  <1>15. CASE Rerun
    BY <1>15, <1>h DEF Rerun, NoRequest
  <1>16. CASE UNCHANGED vars
    BY <1>16, <1>h DEF vars
  <1> QED
    BY <1>1, <1>2, <1>3, <1>4, <1>5, <1>6, <1>7, <1>8, <1>9, <1>10, <1>11, <1>12, <1>13,
       <1>14, <1>15, <1>16 DEF Next, RunStep, WaitStep

\* In a run from the start of the program the server is never asked for a
\* pre-image whose hint it has not handled.
THEOREM ServerHinted == Spec => []HintedBeforeGet
  <1>1. Init => ServedInv
    BY HintInit DEF Init, ServedInv, HintedBeforeGet, HasCmd, NoRequest
  <1>2. ServedInv => HintedBeforeGet
    BY DEF ServedInv
  <1> QED BY <1>1, <1>2, ServedStep, PTL DEF Spec


-----------------------------------------------------------------------------
(* GuestOutput: the bytes a program writes.  Division first.               *)

\* Quotient and remainder are unique.
LEMMA QuotientUnique ==
    ASSUME NEW a \in Nat, NEW d \in Nat \ {0}, NEW q \in Nat, NEW r \in Nat, r < d,
           a = d * q + r
    PROVE  a \div d = q /\ a % d = r
  OBVIOUS

\* A number is its quotient times the divisor and the remainder.
LEMMA QuotientParts ==
    ASSUME NEW a \in Nat, NEW d \in Nat \ {0}
    PROVE  /\ a \div d \in Nat /\ a % d \in Nat /\ a % d < d
           /\ a = d * (a \div d) + (a % d)
  <1>1. a % d \in Nat /\ a % d < d
    OBVIOUS
  <1>2. a \div d \in Nat
    OBVIOUS
  <1>3. a = d * (a \div d) + (a % d)
    OBVIOUS
  <1> QED BY <1>1, <1>2, <1>3

\* A number that has wrapped around once at most.
LEMMA OnceAround ==
    ASSUME NEW x \in Nat, NEW d \in Nat \ {0}, x < 2 * d
    PROVE  x % d = IF x < d THEN x ELSE x - d
  <1>1. CASE x < d
    BY <1>1
  <1>2. CASE x >= d
    <2>1. x = d * 1 + (x - d) /\ x - d \in Nat /\ x - d < d
      BY <1>2
    <2>2. x % d = x - d
      BY <2>1, QuotientUnique
    <2> QED BY <1>2, <2>2
  <1> QED BY <1>1, <1>2

\* A remainder that is added to.
LEMMA AddToRemainder ==
    ASSUME NEW x \in Nat, NEW y \in Nat, NEW d \in Nat \ {0}
    PROVE  ((x % d) + y) % d = (x + y) % d
  <1> DEFINE q == x \div d
             r == x % d
             z == r + y
             k == z \div d
             t == z % d
  <1>1. q \in Nat /\ r \in Nat /\ x = d * q + r
    BY QuotientParts
  <1> HIDE DEF q, r
  <1>2. z \in Nat
    BY <1>1
  <1> HIDE DEF z
  <1>3. k \in Nat /\ t \in Nat /\ t < d /\ z = d * k + t
    BY <1>2, QuotientParts
  <1> HIDE DEF k, t
  <1>4. x + y = d * (q + k) + t
    <2>1. d * (q + k) = d * q + d * k
      BY <1>1, <1>3
    <2>2. x + y = d * q + z
      BY <1>1 DEF z
    <2> DEFINE a == d * q
               b == d * k
    <2>3. a \in Nat /\ b \in Nat
      BY <1>1, <1>3
    <2> HIDE DEF a, b
    <2> QED BY <1>3, <2>1, <2>2, <2>3 DEF a, b
  <1> DEFINE n == q + k
             s == x + y
  <1>5. n \in Nat /\ s \in Nat /\ s = d * n + t
    BY <1>1, <1>3, <1>4
  <1> HIDE DEF n, s
  <1>6. s % d = t
    BY <1>3, <1>5, QuotientUnique
  <1> QED BY <1>6 DEF s, t, z, r

-----------------------------------------------------------------------------
(* Ranges of memory.                                                       *)

\* The bytes of a range are a sequence.
LEMMA RangeSeq ==
    ASSUME NEW addr \in Addr, NEW count \in Nat
    PROVE  /\ RangeBytes(addr, count) \in Seq(Byte)
           /\ Len(RangeBytes(addr, count)) = count
           /\ \A i \in 1..count : RangeBytes(addr, count)[i] = Ram[(addr + i - 1) % AddrSpace]
  <1> DEFINE r == RangeBytes(addr, count)
  <1>1. r = [i \in 1..count |-> Ram[(addr + i - 1) % AddrSpace]]
    BY DEF RangeBytes
  <1>2. ASSUME NEW i \in 1..count PROVE Ram[(addr + i - 1) % AddrSpace] \in Byte
    <2> DEFINE x == addr + i - 1
    <2>1. x \in Nat /\ AddrSpace \in Nat \ {0}
      BY OutputAssumption DEF Addr
    <2> HIDE DEF x
    <2>2. x % AddrSpace \in Addr
      BY <2>1 DEF Addr
    <2>3. Ram[x % AddrSpace] \in Byte
      BY <2>2, OutputAssumption
    <2> QED BY <2>3 DEF x
  <1>3. r \in [1..count -> Byte]
    BY <1>1, <1>2
  <1>4. r \in Seq(Byte) /\ Len(r) = count
    BY <1>3
  <1> QED BY <1>1, <1>4 DEF r

\* Two sequences with the same items.
LEMMA SameBytes ==
    ASSUME NEW S, NEW s \in Seq(S), NEW t \in Seq(S), NEW n \in Nat,
           Len(s) = n, Len(t) = n, \A i \in 1..n : s[i] = t[i]
    PROVE  s = t
  <1>1. s \in [1..n -> S] /\ t \in [1..n -> S]
    OBVIOUS
  <1> QED BY <1>1

\* Two sequences and their lengths, with the sum of these.
Lengths(S, s, t, m, k, n) ==
    /\ s \in Seq(S) /\ t \in Seq(S)
    /\ m \in Nat /\ k \in Nat /\ n \in Nat
    /\ Len(s) = m /\ Len(t) = k /\ n = m + k

\* A sequence behind another one.
LEMMA JoinBytes ==
    ASSUME NEW S, NEW s, NEW t, NEW m, NEW k, NEW n, Lengths(S, s, t, m, k, n)
    PROVE  /\ s \o t \in Seq(S) /\ Len(s \o t) = n
           /\ \A i \in 1..n : (s \o t)[i] = IF i <= m THEN s[i] ELSE t[i - m]
  BY DEF Lengths

\* It does not matter which two of three sequences are put together first.
LEMMA JoinThree ==
    ASSUME NEW S, NEW s \in Seq(S), NEW t \in Seq(S), NEW u \in Seq(S)
    PROVE  (s \o t) \o u = s \o (t \o u) /\ s \o t \in Seq(S) /\ t \o u \in Seq(S)
  <1>1. s \o t \in Seq(S) /\ t \o u \in Seq(S)
    OBVIOUS
  <1>2. (s \o t) \o u = s \o (t \o u)
    BY ConcatAssociative
  <1> QED BY <1>1, <1>2

\* A range is the first part of it, and then the rest.
LEMMA RangeSplit ==
    ASSUME NEW addr \in Addr, NEW count \in Nat, NEW n \in 0..count
    PROVE  /\ (addr + n) % AddrSpace \in Addr
           /\ RangeBytes(addr, n) \o RangeBytes((addr + n) % AddrSpace, count - n)
                = RangeBytes(addr, count)
  <1> DEFINE x == addr + n
             next == x % AddrSpace
             a == RangeBytes(addr, n)
             m == count - n
             b == RangeBytes(next, m)
             c == RangeBytes(addr, count)
  <1>1. x \in Nat /\ AddrSpace \in Nat \ {0} /\ addr \in Nat /\ n \in Nat /\ m \in Nat
    BY OutputAssumption DEF Addr
  <1>2. next \in Addr
    <2> HIDE DEF x
    <2> QED BY <1>1 DEF Addr
  <1> HIDE DEF next
  <1>3. /\ a \in Seq(Byte) /\ Len(a) = n
        /\ \A i \in 1..n : a[i] = Ram[(addr + i - 1) % AddrSpace]
    BY <1>1, RangeSeq
  <1>4. /\ b \in Seq(Byte) /\ Len(b) = m
        /\ \A i \in 1..m : b[i] = Ram[(next + i - 1) % AddrSpace]
    <2> HIDE DEF m
    <2> QED BY <1>1, <1>2, RangeSeq
  <1>5. /\ c \in Seq(Byte) /\ Len(c) = count
        /\ \A i \in 1..count : c[i] = Ram[(addr + i - 1) % AddrSpace]
    BY <1>1, RangeSeq
  <1> HIDE DEF a, b, c
  <1> DEFINE ab == a \o b
  <1>6. /\ ab \in Seq(Byte) /\ Len(ab) = count
        /\ \A i \in 1..count : ab[i] = IF i <= n THEN a[i] ELSE b[i - n]
    <2>1. count = n + m
      BY <1>1
    <2>2. a \in Seq(Byte) /\ Len(a) = n /\ b \in Seq(Byte) /\ Len(b) = m
      BY <1>3, <1>4
    <2>3. n \in Nat /\ m \in Nat /\ count \in Nat
      BY <1>1
    <2>4. Lengths(Byte, a, b, n, m, count)
      BY <2>1, <2>2, <2>3, <1>1 DEF Lengths
    <2> QED BY <2>4, JoinBytes
  <1> HIDE DEF ab
  <1>7. ASSUME NEW i \in 1..count PROVE ab[i] = c[i]
    <2>1. CASE i <= n
      <3>1. i \in 1..n
        BY <1>1, <2>1
      <3>2. ab[i] = a[i]
        BY <1>6, <2>1
      <3> QED BY <1>3, <1>5, <3>1, <3>2
    <2>2. CASE ~(i <= n)
      <3> DEFINE j == i - n
                 y == j - 1
      <3>1. /\ j \in 1..m /\ y \in Nat /\ next + j - 1 = next + y /\ x + y = addr + i - 1
        BY <1>1, <1>2, <2>2 DEF Addr
      <3>2. ab[i] = b[j]
        BY <1>6, <2>2
      <3> HIDE DEF j, y
      <3>3. b[j] = Ram[(next + y) % AddrSpace]
        BY <1>4, <3>1
      <3>4. c[i] = Ram[(x + y) % AddrSpace]
        BY <1>5, <3>1
      <3> HIDE DEF x
      <3>5. (next + y) % AddrSpace = (x + y) % AddrSpace
        BY <1>1, <3>1, AddToRemainder DEF next
      <3>6. b[j] = c[i]
        BY <3>3, <3>4, <3>5, Zenon
      <3> QED BY <3>2, <3>6, Zenon
    <2> QED BY <2>1, <2>2
  <1>8. ab = c
    BY <1>5, <1>6, <1>7, SameBytes
  <1> QED BY <1>2, <1>8 DEF next, a, b, c, ab

-----------------------------------------------------------------------------
(* How far a Read goes.                                                    *)

\* An address is its page and its place in it.
LEMMA PagePlace ==
    ASSUME NEW a \in Nat
    PROVE  /\ Page(a) \in Nat /\ a % PageSize \in 0..(PageSize - 1)
           /\ a = PageSize * Page(a) + (a % PageSize)
  BY OutputAssumption, QuotientParts DEF Page

\* A Read stays in the range, unless the range comes back to its page.
LEMMA ReadFits ==
    ASSUME reader.addr \in Addr, reader.count \in Addr, reader.count # 0
    PROVE  /\ ~OutOfBounds => PageEnd - PageStart \in 1..reader.count
           /\ OutOfBounds => reader.count > AddrSpace - PageSize
  <1> DEFINE a == reader.addr
             n == reader.count
             x == a + n
             e == EndAddr
             A == AddrSpace
             P == PageSize
             pa == P * Page(a)
             pe == P * Page(e)
             ra == a % P
             re == e % P
  <1>0. /\ A \in Nat \ {0} /\ P \in Nat \ {0} /\ a \in Nat /\ n \in Nat /\ n # 0 /\ a < A
        /\ n < A /\ x \in Nat /\ x < 2 * A
    BY OutputAssumption DEF Addr
  <1>1. e = IF x < A THEN x ELSE x - A
    <2> HIDE DEF x
    <2>1. x % A = IF x < A THEN x ELSE x - A
      BY <1>0, OnceAround
    <2> QED BY <2>1 DEF EndAddr, x
  <1>2. e \in Nat
    BY <1>0, <1>1
  <1>3. Page(a) \in Nat /\ ra \in 0..(P - 1) /\ a = pa + ra
    BY <1>0, PagePlace
  <1>4. Page(e) \in Nat /\ re \in 0..(P - 1) /\ e = pe + re
    BY <1>2, PagePlace
  <1>5. PageStart = ra /\ PageEnd = IF Page(a) = Page(e) THEN re ELSE P
    BY DEF PageStart, PageEnd
  <1>6. /\ pa \in Nat /\ pe \in Nat
        /\ Page(a) = Page(e) => pa = pe
        /\ Page(a) < Page(e) => pa + P <= pe
        /\ Page(a) > Page(e) => pe + P <= pa
    <2> DEFINE i == Page(a)
               j == Page(e)
    <2> HIDE DEF i, j
    <2>1. i \in Nat /\ j \in Nat
      BY <1>3, <1>4 DEF i, j
    <2>2. P * i \in Nat /\ P * j \in Nat
      BY <1>0, <2>1
    <2>3. ASSUME i < j PROVE P * i + P <= P * j
      <3>1. PICK k \in Nat : j = i + 1 + k
        <4>1. j - i - 1 \in Nat /\ j = i + 1 + (j - i - 1)
          BY <2>1, <2>3
        <4> QED BY <4>1
      <3>2. P * j = P * i + P + P * k /\ P * k >= 0
        BY <1>0, <2>1, <3>1
      <3> QED BY <3>2, <2>2, <1>0
    <2>4. ASSUME j < i PROVE P * j + P <= P * i
      <3>1. PICK k \in Nat : i = j + 1 + k
        <4>1. i - j - 1 \in Nat /\ i = j + 1 + (i - j - 1)
          BY <2>1, <2>4
        <4> QED BY <4>1
      <3>2. P * i = P * j + P + P * k /\ P * k >= 0
        BY <1>0, <2>1, <3>1
      <3> QED BY <3>2, <2>2, <1>0
    <2>5. /\ i = j => P * i = P * j
          /\ i < j => P * i + P <= P * j
          /\ i > j => P * j + P <= P * i
      BY <2>1, <2>3, <2>4
    <2> QED BY <2>2, <2>5 DEF i, j
  <1> HIDE DEF pa, pe, ra, re, e, a, n
  <1>7. CASE Page(a) = Page(e)
    <2>1. PageStart = ra /\ PageEnd = re /\ pa = pe
      BY <1>5, <1>6, <1>7
    <2>2. /\ re >= ra => re - ra \in 1..n
          /\ re < ra => n > A - P
      BY <1>0, <1>1, <1>2, <1>3, <1>4, <1>6, <2>1
    <2> QED BY <2>1, <2>2, <1>3, <1>4, <1>0 DEF OutOfBounds, n
  <1>8. CASE Page(a) # Page(e)
    <2>1. PageStart = ra /\ PageEnd = P
      BY <1>5, <1>8
    <2>2. pa + P <= A
      <3> DEFINE k == A \div P
                 i == Page(a)
      <3>1. k \in Nat /\ A = P * k
        BY <1>0, OutputAssumption, QuotientParts
      <3> HIDE DEF k, i
      <3>2. i \in Nat /\ P * i < P * k
        <4>1. i \in Nat /\ pa = P * i
          BY <1>3 DEF pa, i
        <4> QED BY <1>0, <1>3, <3>1, <4>1
      <3>3. i < k
        BY <1>0, <3>1, <3>2
      <3>4. PICK d \in Nat : k = i + 1 + d
        <4>1. k - i - 1 \in Nat /\ k = i + 1 + (k - i - 1)
          BY <3>1, <3>2, <3>3
        <4> QED BY <4>1
      <3>5. P * k = P * i + P + P * d /\ P * d >= 0
        BY <1>0, <3>1, <3>2, <3>4
      <3>6. P * i \in Nat /\ P * d \in Nat
        BY <1>0, <3>2, <3>4
      <3> QED BY <3>1, <3>5, <3>6, <1>0 DEF pa, i
    <2>3. P - ra \in 1..n
      <3>1. CASE x < A
        <4>1. e = a + n
          BY <1>1, <3>1
        <4>2. Page(a) < Page(e) \/ Page(a) > Page(e)
          BY <1>3, <1>4, <1>8
        <4>3. CASE Page(a) < Page(e)
          BY <1>0, <1>3, <1>4, <1>6, <4>1, <4>3
        <4>4. CASE Page(a) > Page(e)
          BY <1>0, <1>3, <1>4, <1>6, <4>1, <4>4
        <4> QED BY <4>2, <4>3, <4>4
      <3>2. CASE ~(x < A)
        <4>1. e = a + n - A
          BY <1>0, <1>1, <3>2
        <4>2. pa \in Nat /\ ra \in 0..(P - 1) /\ a = pa + ra
          BY <1>3, <1>6
        <4> QED BY <1>0, <1>2, <4>1, <4>2, <2>2
      <3> QED BY <3>1, <3>2
    <2> QED BY <2>1, <2>3, <1>3, <1>0 DEF OutOfBounds, n
  <1> QED BY <1>7, <1>8

-----------------------------------------------------------------------------
(* Induction, for a set.                                                   *)

\* A set of natural numbers has a least one.
LEMMA LeastNumber ==
    ASSUME NEW T, T \subseteq Nat, T # {}
    PROVE  \E x \in T : \A y \in T : x <= y
  <1> DEFINE R == OpToRel(<, Nat)
  <1>1. IsWellFoundedOn(R, Nat)
    BY NatLessThanWellFounded
  <1>2. PICK x \in T : \A y \in T : <<y, x>> \notin R
    <2> HIDE DEF R
    <2> QED BY <1>1, WFMin
  <1>3. R = {p \in Nat \X Nat : p[1] < p[2]}
    BY DEF OpToRel
  <1>4. \A y \in T : ~(y < x)
    BY <1>2, <1>3
  <1> HIDE DEF R
  <1>5. \A y \in T : x <= y
    BY <1>4
  <1> QED BY <1>5

\* What holds of a number and of the one after each holds up to a bound.
LEMMA UpTo ==
    ASSUME NEW T, NEW m \in Nat, NEW N \in Nat, m \in T,
           \A j \in m..(N - 1) : j \in T => j + 1 \in T
    PROVE  m..N \subseteq T
  <1> DEFINE Bad == m..N \ T
  <1>1. ASSUME Bad # {} PROVE FALSE
    <2>1. PICK j \in Bad : \A y \in Bad : j <= y
      <3>1. Bad \subseteq Nat
        OBVIOUS
      <3> HIDE DEF Bad
      <3> QED BY <1>1, <3>1, LeastNumber
    <2>2. j \in m..N /\ j # m /\ j \notin T
      OBVIOUS
    <2>3. j - 1 \in m..(N - 1) /\ j - 1 \notin Bad
      BY <2>1, <2>2
    <2>4. j - 1 \in T /\ (j - 1) + 1 = j
      BY <2>3
    <2> QED BY <2>2, <2>3, <2>4
  <1> QED BY <1>1

-----------------------------------------------------------------------------
(* The length in front of a hint.                                          *)

\* The numbers that the first bytes of h stand for.
Value(h) ==
    CHOOSE f : f = [i \in 0..PrefixBytes |->
                       IF i = 0 THEN 0 ELSE f[i - 1] * ByteCount + h[i]]

\* The length of the buffered hint is the last of these numbers.
LEMMA HintLenValue == hintLen = Value(LastHint)[PrefixBytes]
  BY DEF hintLen, Value

\* f has the numbers of the first n bytes of h.
Values(f, n, h) ==
    /\ f \in [0..n -> Nat]
    /\ f[0] = 0
    /\ \A i \in 1..n : f[i] = f[i - 1] * ByteCount + h[i]

\* There are such numbers.
LEMMA ValuesExist ==
    ASSUME NEW h \in Seq(Byte), Len(h) >= PrefixBytes
    PROVE  \E f : Values(f, PrefixBytes, h)
  <1> DEFINE T == {n \in Nat : \E f : Values(f, n, h)}
             P == PrefixBytes
             z == 0
  <1>0. P \in Nat /\ ByteCount \in Nat /\ z \in Nat
    BY OutputAssumption
  <1>1. z \in T
    <2> DEFINE f == [i \in 0..0 |-> 0]
    <2>1. Values(f, 0, h)
      BY DEF Values
    <2> QED BY <2>1
  <1>2. ASSUME NEW j \in z..(P - 1), j \in T PROVE j + 1 \in T
    <2>1. PICK f : Values(f, j, h)
      BY <1>2
    <2> DEFINE x == f[j] * ByteCount + h[j + 1]
               g == [i \in 0..(j + 1) |-> IF i = j + 1 THEN x ELSE f[i]]
    <2>2. j \in Nat /\ j + 1 \in 1..P
      BY <1>0
    <2>3. f[j] \in Nat /\ h[j + 1] \in Nat
      <3>1. j \in 0..j /\ j + 1 \in 1..Len(h)
        BY <1>0, <2>2
      <3>2. f[j] \in Nat
        BY <2>1, <3>1 DEF Values
      <3>3. h[j + 1] \in Byte
        BY <3>1
      <3> QED BY <3>2, <3>3, <1>0 DEF Byte
    <2>4. x \in Nat
      <3> DEFINE y == f[j]
                 b == h[j + 1]
      <3>1. y \in Nat /\ b \in Nat
        BY <2>3
      <3> HIDE DEF y, b
      <3>2. y * ByteCount + b \in Nat
        BY <3>1, <1>0
      <3> QED BY <3>2 DEF y, b
    <2> HIDE DEF x
    <2>5. g \in [0..(j + 1) -> Nat]
      BY <2>1, <2>2, <2>4 DEF Values
    <2>6. g[0] = 0
      BY <2>1, <2>2 DEF Values
    <2>7. ASSUME NEW i \in 1..(j + 1) PROVE g[i] = g[i - 1] * ByteCount + h[i]
      <3>1. CASE i = j + 1
        <4>1. g[i] = x /\ g[i - 1] = f[j]
          BY <2>2, <3>1
        <4> QED BY <4>1, <3>1 DEF x
      <3>2. CASE i # j + 1
        <4>1. i \in 1..j /\ g[i] = f[i] /\ g[i - 1] = f[i - 1]
          BY <2>2, <3>2
        <4>2. f[i] = f[i - 1] * ByteCount + h[i]
          BY <2>1, <4>1 DEF Values
        <4> QED BY <4>1, <4>2
      <3> QED BY <3>1, <3>2
    <2>8. Values(g, j + 1, h)
      BY <2>5, <2>6, <2>7 DEF Values
    <2>9. j + 1 \in Nat
      BY <2>2
    <2> HIDE DEF g
    <2> QED BY <2>8, <2>9
  <1> HIDE DEF T, z
  <1>3. z..P \subseteq T
    BY <1>0, <1>1, <1>2, UpTo
  <1>4. P \in T
    BY <1>0, <1>3 DEF z
  <1> QED BY <1>4 DEF T

\* The recursion defines them.
LEMMA ValueOf ==
    ASSUME NEW h \in Seq(Byte), Len(h) >= PrefixBytes
    PROVE  Values(Value(h), PrefixBytes, h)
  <1> DEFINE P == PrefixBytes
             G(f) == [i \in 0..P |-> IF i = 0 THEN 0 ELSE f[i - 1] * ByteCount + h[i]]
             v == Value(h)
  <1>0. P \in Nat /\ ByteCount \in Nat
    BY OutputAssumption
  <1>1. PICK g : Values(g, P, h)
    BY ValuesExist
  <1>2. g = G(g)
    <2>1. g = [i \in 0..P |-> g[i]]
      BY <1>1 DEF Values
    <2>2. ASSUME NEW i \in 0..P PROVE g[i] = IF i = 0 THEN 0 ELSE g[i - 1] * ByteCount + h[i]
      <3>1. CASE i = 0
        BY <1>1, <3>1 DEF Values
      <3>2. CASE i # 0
        <4>1. i \in 1..P
          BY <1>0, <3>2
        <4> QED BY <1>1, <3>2, <4>1 DEF Values
      <3> QED BY <3>1, <3>2
    <2> QED BY <2>1, <2>2
  <1>3. v = G(v)
    BY <1>2 DEF Value
  <1> HIDE DEF v
  <1>4. v[0] = 0 /\ \A i \in 1..P : v[i] = v[i - 1] * ByteCount + h[i]
    <2>1. v[0] = 0
      BY <1>0, <1>3
    <2>2. ASSUME NEW i \in 1..P PROVE v[i] = v[i - 1] * ByteCount + h[i]
      <3>1. i \in 0..P /\ i # 0
        BY <1>0
      <3> QED BY <1>3, <3>1
    <2> QED BY <2>1, <2>2
  <1> DEFINE T == {n \in Nat : n \in 0..P => v[n] = g[n]}
             z == 0
  <1>5. z \in T /\ z \in Nat
    BY <1>1, <1>4 DEF Values
  <1>6. ASSUME NEW j \in z..(P - 1), j \in T PROVE j + 1 \in T
    <2>1. j \in 0..P /\ j + 1 \in 1..P /\ j + 1 \in Nat /\ (j + 1) - 1 = j
      BY <1>0
    <2>2. v[j + 1] = v[j] * ByteCount + h[j + 1]
      BY <1>4, <2>1
    <2>3. g[j + 1] = g[j] * ByteCount + h[j + 1]
      BY <1>1, <2>1 DEF Values
    <2>4. v[j] = g[j]
      BY <1>6, <2>1
    <2> QED BY <2>1, <2>2, <2>3, <2>4
  <1> HIDE DEF T, z
  <1>7. z..P \subseteq T
    BY <1>0, <1>5, <1>6, UpTo
  <1>8. ASSUME NEW n \in 0..P PROVE v[n] \in Nat
    <2>1. n \in T
      BY <1>7 DEF z
    <2>2. g[n] \in Nat
      BY <1>1 DEF Values
    <2> QED BY <2>1, <2>2 DEF T
  <1>9. v \in [0..P -> Nat]
    <2>1. v = [n \in 0..P |-> v[n]]
      BY <1>3
    <2> QED BY <1>8, <2>1
  <1> QED BY <1>4, <1>9 DEF Values, v

\* Dividing twice is dividing by the product.
LEMMA DivideTwice ==
    ASSUME NEW a \in Nat, NEW d \in Nat \ {0}, NEW e \in Nat \ {0}
    PROVE  a \div (d * e) = (a \div d) \div e
  <1> DEFINE q == a \div d
             r == a % d
             s == q \div e
             t == q % e
             m == d * e
             u == d * t + r
  <1>1. q \in Nat /\ r \in Nat /\ r < d /\ a = d * q + r
    BY QuotientParts
  <1> HIDE DEF q, r
  <1>2. s \in Nat /\ t \in Nat /\ t < e /\ q = e * s + t
    BY <1>1, QuotientParts
  <1> HIDE DEF s, t
  <1>3. m \in Nat \ {0}
    BY Z3
  <1>4. u \in Nat /\ u < m
    <2>1. PICK k \in Nat : e = t + 1 + k
      <3>1. e - t - 1 \in Nat /\ e = t + 1 + (e - t - 1)
        BY <1>2
      <3> QED BY <3>1
    <2> DEFINE x == d * t
               y == d * k
    <2>2. m = x + d + y /\ x \in Nat /\ y \in Nat
      BY <1>2, <2>1
    <2> HIDE DEF x, y, m
    <2> QED BY <1>1, <2>2 DEF x
  <1>5. a = m * s + u
    <2>1. d * (e * s + t) = m * s + d * t
      BY <1>2
    <2> DEFINE x == m * s
               y == d * t
    <2>2. x \in Nat /\ y \in Nat /\ d * q = x + y
      BY <1>2, <1>3, <2>1
    <2> QED BY <1>1, <2>2
  <1> HIDE DEF m, u
  <1>6. a \div m = s
    BY <1>2, <1>3, <1>4, <1>5, QuotientUnique
  <1> QED BY <1>6 DEF m, s, q

\* A power of the number of bytes.
LEMMA PowerStep ==
    ASSUME NEW n \in 0..PrefixBytes
    PROVE  /\ ByteCount ^ n \in Nat \ {0}
           /\ ByteCount ^ (n + 1) = ByteCount * ByteCount ^ n
           /\ ByteCount ^ 0 = 1
  BY PowersAssumption

\* A length fits its bytes, and they are its digits.
LEMMA ValueDigits ==
    ASSUME NEW h \in Seq(Byte), Len(h) >= PrefixBytes, NEW v, Values(v, PrefixBytes, h)
    PROVE  /\ v[PrefixBytes] \in 0..(LenCount - 1)
           /\ \A i \in 1..PrefixBytes :
                 (v[PrefixBytes] \div ByteCount ^ (PrefixBytes - i)) % ByteCount = h[i]
  <1> DEFINE P == PrefixBytes
             B == ByteCount
             T == {n \in Nat : n <= P =>
                     /\ v[n] < B ^ n
                     /\ \A i \in 1..n : (v[n] \div B ^ (n - i)) % B = h[i]}
             z == 0
  <1>0. P \in Nat /\ B \in Nat \ {0}
    BY OutputAssumption
  <1>1. /\ \A n \in 0..P : v[n] \in Nat
        /\ v[0] = 0
        /\ \A n \in 0..(P - 1) : v[n + 1] = v[n] * B + h[n + 1]
    BY <1>0 DEF Values
  <1>2. \A n \in 1..P : h[n] \in Nat /\ h[n] < B
    BY <1>0 DEF Byte
  <1>3. z \in T /\ z \in Nat
    BY <1>0, <1>1, PowerStep
  <1>4. ASSUME NEW j \in z..(P - 1), j \in T PROVE j + 1 \in T
    <2> DEFINE x == v[j]
               b == h[j + 1]
               y == v[j + 1]
               p == B ^ j
    <2>1. j \in 0..P /\ j \in 0..(P - 1) /\ j + 1 \in 1..P /\ j <= P /\ j + 1 \in Nat
      BY <1>0
    <2>2. /\ x \in Nat /\ b \in Nat /\ b < B /\ y = x * B + b
      BY <1>1, <1>2, <2>1
    <2>3. x < p /\ \A i \in 1..j : (x \div B ^ (j - i)) % B = h[i]
      BY <1>4, <2>1
    <2>4. p \in Nat \ {0} /\ B ^ (j + 1) = B * p
      BY <2>1, PowerStep
    <2>5. y \in Nat
      <3> HIDE DEF x, b, y
      <3> QED BY <2>2, <1>0
    <2>6. y < B ^ (j + 1)
      <3> HIDE DEF x, b, y, p
      <3>1. PICK k \in Nat : p = x + 1 + k
        <4>1. p - x - 1 \in Nat /\ p = x + 1 + (p - x - 1)
          BY <2>2, <2>3, <2>4
        <4> QED BY <4>1
      <3> DEFINE c == x * B
                 d == B * k
      <3>2. B * p = c + B + d /\ c \in Nat /\ d \in Nat
        BY <1>0, <2>2, <3>1
      <3> HIDE DEF c, d
      <3>3. y = c + b
        BY <2>2 DEF c
      <3> QED BY <1>0, <2>2, <2>4, <3>2, <3>3
    <2>7. y \div B = x /\ y % B = b
      <3> HIDE DEF x, b, y
      <3>1. y = B * x + b
        BY <1>0, <2>2
      <3> QED BY <1>0, <2>2, <2>5, <3>1, QuotientUnique
    <2>8. ASSUME NEW i \in 1..(j + 1) PROVE (y \div B ^ (j + 1 - i)) % B = h[i]
      <3>1. CASE i = j + 1
        <4>1. B ^ (j + 1 - i) = 1
          <5>1. j + 1 - i = 0
            BY <2>1, <3>1
          <5>2. B ^ 0 = 1
            BY <2>1, PowerStep
          <5> QED BY <5>1, <5>2
        <4>2. y \div 1 = y
          <5> HIDE DEF y
          <5> QED BY <2>5
        <4> QED BY <2>7, <3>1, <4>1, <4>2
      <3>2. CASE i # j + 1
        <4> DEFINE k == j - i
                   e == B ^ k
        <4>1. i \in 1..j /\ k \in 0..P /\ j + 1 - i = k + 1
          BY <1>0, <2>1, <3>2
        <4> HIDE DEF k
        <4>2. e \in Nat \ {0} /\ B ^ (k + 1) = B * e
          BY <4>1, PowerStep
        <4> HIDE DEF e, x, b, y
        <4>3. y \div (B * e) = (y \div B) \div e
          BY <1>0, <2>5, <4>2, DivideTwice
        <4>4. y \div B ^ (k + 1) = x \div e
          BY <2>7, <4>2, <4>3
        <4>5. (x \div e) % B = h[i]
          BY <2>3, <4>1 DEF e, k
        <4> QED BY <4>1, <4>4, <4>5
      <3> QED BY <3>1, <3>2
    <2> HIDE DEF p, x, b
    <2>9. j + 1 <= P =>
             /\ v[j + 1] < B ^ (j + 1)
             /\ \A i \in 1..(j + 1) : (v[j + 1] \div B ^ (j + 1 - i)) % B = h[i]
      BY <2>6, <2>8
    <2> QED BY <2>1, <2>9
  <1> HIDE DEF T, z
  <1>5. z..P \subseteq T
    BY <1>0, <1>3, <1>4, UpTo
  <1>6. P \in T
    BY <1>0, <1>5 DEF z
  <1>7. /\ v[P] < B ^ P
        /\ \A i \in 1..P : (v[P] \div B ^ (P - i)) % B = h[i]
    BY <1>0, <1>6 DEF T
  <1>8. v[P] \in Nat /\ B ^ P \in Nat
    BY <1>0, <1>1, PowerStep
  <1> QED BY <1>7, <1>8 DEF LenCount

-----------------------------------------------------------------------------
(* Hints, put back together.                                               *)

\* g has the first items of s joined, up to each of the first n.
Flattens(g, n, s) ==
    /\ g \in [1..n -> Seq(Byte)]
    /\ g[1] = s[1]
    /\ \A i \in 2..n : g[i] = g[i - 1] \o s[i]

\* Every sequence of sequences has such partial results.
LEMMA FlattensExist ==
    ASSUME NEW s \in Seq(Seq(Byte)), NEW N \in Nat, Len(s) = N, N # 0
    PROVE  \E g : Flattens(g, N, s)
  <1> DEFINE T == {n \in Nat : \E g : Flattens(g, n, s)}
             one == 1
  <1>0. one \in Nat /\ \A i \in 1..N : s[i] \in Seq(Byte)
    OBVIOUS
  <1>1. one \in T
    <2> DEFINE g == [i \in 1..1 |-> s[1]]
    <2>1. s[1] \in Seq(Byte)
      BY <1>0
    <2>2. Flattens(g, 1, s)
      BY <2>1 DEF Flattens
    <2> HIDE DEF g
    <2> QED BY <2>2
  <1>2. ASSUME NEW j \in one..(N - 1), j \in T PROVE j + 1 \in T
    <2>1. PICK f : Flattens(f, j, s)
      BY <1>2
    <2> DEFINE x == f[j] \o s[j + 1]
               g == [i \in 1..(j + 1) |-> IF i = j + 1 THEN x ELSE f[i]]
    <2>2. j \in Nat /\ j >= 1 /\ j + 1 \in 1..N /\ j + 1 \in Nat
      OBVIOUS
    <2>3. f[j] \in Seq(Byte) /\ s[j + 1] \in Seq(Byte)
      BY <1>0, <2>1, <2>2 DEF Flattens
    <2>4. x \in Seq(Byte)
      <3> DEFINE a == f[j]
                 b == s[j + 1]
      <3>1. a \in Seq(Byte) /\ b \in Seq(Byte)
        BY <2>3
      <3> HIDE DEF a, b
      <3>2. a \o b \in Seq(Byte)
        BY <3>1
      <3> QED BY <3>2 DEF a, b
    <2> HIDE DEF x
    <2>5. g \in [1..(j + 1) -> Seq(Byte)]
      BY <2>1, <2>2, <2>4 DEF Flattens
    <2>6. g[1] = s[1]
      BY <2>1, <2>2 DEF Flattens
    <2>7. ASSUME NEW i \in 2..(j + 1) PROVE g[i] = g[i - 1] \o s[i]
      <3>1. CASE i = j + 1
        <4>1. g[i] = x /\ g[i - 1] = f[j]
          BY <2>2, <3>1
        <4> QED BY <4>1, <3>1, Zenon DEF x
      <3>2. CASE i # j + 1
        <4>1. i \in 2..j /\ g[i] = f[i] /\ g[i - 1] = f[i - 1]
          BY <2>2, <3>2
        <4>2. f[i] = f[i - 1] \o s[i]
          BY <2>1, <4>1 DEF Flattens
        <4> QED BY <4>1, <4>2, Zenon
      <3> QED BY <3>1, <3>2
    <2>8. Flattens(g, j + 1, s)
      BY <2>5, <2>6, <2>7, Zenon DEF Flattens
    <2> HIDE DEF g
    <2> QED BY <2>2, <2>8
  <1> HIDE DEF T, one
  <1>3. one..N \subseteq T
    BY <1>0, <1>1, <1>2, UpTo
  <1>4. N \in T
    BY <1>3 DEF one
  <1> QED BY <1>4 DEF T

\* FlattenSeq is the last of them.
LEMMA FlattenIs ==
    ASSUME NEW s \in Seq(Seq(Byte)), NEW N \in Nat, Len(s) = N, N # 0,
           NEW g, Flattens(g, N, s)
    PROVE  FlattenSeq(s) = g[N]
  <1> DEFINE G(f) == [i \in 1..N |-> IF i = 1 THEN s[i] ELSE f[i - 1] \o s[i]]
             v == CHOOSE f : f = G(f)
  <1>1. FlattenSeq(s) = v[N]
    BY Zenon DEF FlattenSeq
  <1>2. g = G(g)
    <2>1. g = [i \in 1..N |-> g[i]]
      BY DEF Flattens
    <2>2. ASSUME NEW i \in 1..N PROVE g[i] = IF i = 1 THEN s[i] ELSE g[i - 1] \o s[i]
      <3>1. CASE i = 1
        BY <3>1 DEF Flattens
      <3>2. CASE i # 1
        <4>1. i \in 2..N
          BY <3>2
        <4>2. g[i] = g[i - 1] \o s[i]
          BY <4>1 DEF Flattens
        <4> QED BY <3>2, <4>2, Zenon
      <3> QED BY <3>1, <3>2
    <2> QED BY <2>1, <2>2, Zenon
  <1>3. v = G(v)
    BY <1>2, Zenon
  <1> HIDE DEF v
  <1>4. v[1] = s[1] /\ \A i \in 2..N : v[i] = v[i - 1] \o s[i]
    <2>1. 1 \in 1..N
      OBVIOUS
    <2>2. v[1] = s[1]
      BY <1>3, <2>1, Zenon
    <2>3. ASSUME NEW i \in 2..N PROVE v[i] = v[i - 1] \o s[i]
      <3>1. i \in 1..N /\ i # 1
        OBVIOUS
      <3> QED BY <1>3, <3>1, Zenon
    <2> QED BY <2>2, <2>3
  <1> DEFINE T == {n \in Nat : n \in 1..N => v[n] = g[n]}
             one == 1
  <1>5. one \in T /\ one \in Nat
    BY <1>4 DEF Flattens
  <1>6. ASSUME NEW j \in one..(N - 1), j \in T PROVE j + 1 \in T
    <2>1. j \in 1..N /\ j + 1 \in 2..N /\ j + 1 \in Nat /\ (j + 1) - 1 = j
      OBVIOUS
    <2>2. v[j] = g[j]
      BY <1>6, <2>1
    <2> DEFINE k == j + 1
    <2>3. k \in 2..N /\ k - 1 = j
      BY <2>1
    <2> HIDE DEF k
    <2>4. v[k] = v[k - 1] \o s[k] /\ g[k] = g[k - 1] \o s[k]
      BY <1>4, <2>3 DEF Flattens
    <2>5. v[k] = g[k]
      BY <2>2, <2>3, <2>4, Zenon
    <2> QED BY <2>1, <2>5 DEF k
  <1> HIDE DEF T, one
  <1>7. one..N \subseteq T
    BY <1>5, <1>6, UpTo
  <1>8. N \in T /\ N \in 1..N
    BY <1>7 DEF one
  <1>9. v[N] = g[N]
    BY <1>8 DEF T
  <1> QED BY <1>1, <1>9, Zenon

\* One more sequence is put behind the others.
LEMMA FlattenAppend ==
    ASSUME NEW s \in Seq(Seq(Byte)), NEW x \in Seq(Byte)
    PROVE  /\ FlattenSeq(s) \in Seq(Byte)
           /\ FlattenSeq(Append(s, x)) = FlattenSeq(s) \o x
  <1> DEFINE n == Len(s)
             m == n + 1
             t == Append(s, x)
  <1>1. n \in Nat /\ m \in Nat /\ m # 0 /\ t \in Seq(Seq(Byte)) /\ Len(t) = m
    OBVIOUS
  <1>2. t[m] = x /\ \A i \in 1..n : t[i] = s[i]
    OBVIOUS
  <1> HIDE DEF t
  <1>3. PICK g : Flattens(g, m, t)
    <2> HIDE DEF m
    <2> QED BY <1>1, FlattensExist
  <1>4. FlattenSeq(t) = g[m]
    <2> HIDE DEF m
    <2> QED BY <1>1, <1>3, FlattenIs
  <1>5. CASE n = 0
    <2>1. s = << >>
      BY <1>5
    <2>2. FlattenSeq(s) = s
      BY <1>5 DEF FlattenSeq
    <2>3. << >> \o x = x /\ << >> \in Seq(Byte)
      OBVIOUS
    <2>4. g[m] = x
      <3>1. m = 1
        BY <1>5
      <3>2. g[1] = t[1]
        BY <1>3 DEF Flattens
      <3> QED BY <1>2, <3>1, <3>2
    <2>5. FlattenSeq(t) = FlattenSeq(s) \o x
      BY <1>4, <2>1, <2>2, <2>3, <2>4, Zenon
    <2>6. FlattenSeq(s) \in Seq(Byte)
      BY <2>1, <2>2, <2>3, Zenon
    <2> QED BY <2>5, <2>6 DEF t
  <1>6. CASE n # 0
    <2> DEFINE f == [i \in 1..n |-> g[i]]
    <2>1. f \in [1..n -> Seq(Byte)]
      BY <1>1, <1>3 DEF Flattens
    <2>2. f[1] = s[1]
      <3>1. 1 \in 1..n
        BY <1>1, <1>6
      <3>2. g[1] = t[1]
        BY <1>3 DEF Flattens
      <3> QED BY <1>2, <3>1, <3>2
    <2>3. ASSUME NEW i \in 2..n PROVE f[i] = f[i - 1] \o s[i]
      <3>1. i \in 1..n /\ i - 1 \in 1..n /\ i \in 2..m
        BY <1>1
      <3>2. g[i] = g[i - 1] \o t[i]
        BY <1>3, <3>1 DEF Flattens
      <3>3. f[i] = g[i] /\ f[i - 1] = g[i - 1] /\ t[i] = s[i]
        BY <1>2, <3>1
      <3> QED BY <3>2, <3>3, Zenon
    <2>4. Flattens(f, n, s)
      BY <2>1, <2>2, <2>3, Zenon DEF Flattens
    <2>5. f[n] = g[n] /\ f[n] \in Seq(Byte)
      <3>1. n \in 1..n
        BY <1>1, <1>6
      <3> QED BY <2>1, <3>1, Zenon
    <2> HIDE DEF f
    <2>6. FlattenSeq(s) = f[n]
      BY <1>1, <1>6, <2>4, FlattenIs
    <2>7. g[m] = g[n] \o x
      <3>1. m \in 2..m /\ m - 1 = n
        BY <1>1, <1>6
      <3>2. g[m] = g[m - 1] \o t[m]
        BY <1>3, <3>1 DEF Flattens
      <3> QED BY <1>2, <3>1, <3>2, Zenon
    <2>8. FlattenSeq(t) = FlattenSeq(s) \o x
      BY <1>4, <2>5, <2>6, <2>7, Zenon
    <2>9. FlattenSeq(s) \in Seq(Byte)
      BY <2>5, <2>6, Zenon
    <2> QED BY <2>8, <2>9 DEF t
  <1> QED BY <1>5, <1>6

-----------------------------------------------------------------------------
(* The invariants.                                                         *)

\* What the copying keeps: the types, the range that is left, and the streams.
CopyInv ==
    /\ at \in {"program", "copy", "hints"} /\ fd \in FD
    /\ reader \in [addr : Addr, count : Addr] /\ range \in [addr : Addr, count : Addr]
    /\ copied \in [FD -> Seq(Byte)] /\ wrote \in [FD -> Seq(Byte)]
    /\ LastHint \in Seq(Byte) /\ hints \in Seq(Seq(Byte))
    /\ at # "program" => failed = "no"
    /\ at = "copy" => reader.count <= range.count /\ range.count <= Len(wrote[fd])
    /\ OutputExact

\* The bytes of the hints given and of the one that is buffered.
Received == FlattenSeq(Framed) \o LastHint

\* No complete hint is buffered, unless its length has wrapped around.
NoneWaits ==
    Len(LastHint) \in PrefixBytes..(LenCount - 1) => hintLen > Len(LastHint) - PrefixBytes

\* What the hints keep: a call that is under way has not reached them.
WholeInv ==
    /\ IF at = "copy" /\ fd = HintWrite
       THEN Received \o RangeBytes(range.addr, range.count) = wrote[HintWrite]
       ELSE failed = "no" => Received = wrote[HintWrite]
    /\ at = "copy" \/ (at = "program" /\ failed = "no") => NoneWaits

\* Where a part of n items of a sequence starts and ends.
Places(S, s, a, b, n) ==
    /\ s \in Seq(S) /\ a \in Nat \ {0} /\ b \in Nat /\ n \in Nat
    /\ b <= Len(s) /\ b - a + 1 = n

\* The part of a sequence from its a-th item to its b-th.
LEMMA Cut ==
    ASSUME NEW S, NEW s, NEW a, NEW b, NEW n, Places(S, s, a, b, n)
    PROVE  /\ SubSeq(s, a, b) \in Seq(S) /\ Len(SubSeq(s, a, b)) = n
           /\ \A i \in 1..n : SubSeq(s, a, b)[i] = s[a + i - 1]
  <1> DEFINE r == SubSeq(s, a, b)
  <1>1. /\ a \in Int /\ b \in Int
        /\ \A i \in a..b : s[i] \in S
    BY DEF Places
  <1>2. (IF a <= b THEN b - a + 1 ELSE 0) = n /\ b - a + 1 = n
    BY DEF Places
  <1>3. /\ r \in Seq(S)
        /\ Len(r) = IF a <= b THEN b - a + 1 ELSE 0
        /\ \A i \in 1..(b - a + 1) : r[i] = s[a + i - 1]
    BY <1>1, SubSeqProperties
  <1> HIDE DEF r
  <1>4. r \in Seq(S) /\ Len(r) = n /\ \A i \in 1..n : r[i] = s[a + i - 1]
    BY <1>2, <1>3
  <1> QED BY <1>4 DEF r

\* The bytes of a length.
LEMMA PrefixSeq ==
    ASSUME NEW n \in Nat
    PROVE  /\ Prefix(n) \in Seq(Byte) /\ Len(Prefix(n)) = PrefixBytes
           /\ \A i \in 1..PrefixBytes :
                 Prefix(n)[i] = (n \div ByteCount ^ (PrefixBytes - i)) % ByteCount
  <1> DEFINE p == Prefix(n)
             P == PrefixBytes
  <1>0. P \in Nat /\ ByteCount \in Nat \ {0}
    BY OutputAssumption
  <1>1. p = [i \in 1..P |-> (n \div ByteCount ^ (P - i)) % ByteCount]
    BY DEF Prefix
  <1>2. ASSUME NEW i \in 1..P PROVE (n \div ByteCount ^ (P - i)) % ByteCount \in Byte
    <2> DEFINE e == ByteCount ^ (P - i)
               q == n \div e
    <2>1. e \in Nat \ {0}
      <3>1. P - i \in 0..P
        BY <1>0
      <3> QED BY <3>1, PowerStep
    <2> HIDE DEF e
    <2>2. q \in Nat
      BY <2>1, QuotientParts
    <2> HIDE DEF q
    <2>3. q % ByteCount \in Byte
      BY <1>0, <2>2 DEF Byte
    <2> QED BY <2>3 DEF q, e
  <1>3. p \in [1..P -> Byte]
    BY <1>1, <1>2
  <1> HIDE DEF p
  <1>4. p \in Seq(Byte) /\ Len(p) = P
    BY <1>0, <1>3
  <1> QED BY <1>1, <1>4 DEF p

\* A complete hint: where it ends, and what its length says.
LEMMA HintParts ==
    ASSUME LastHint \in Seq(Byte), Complete
    PROVE  /\ hintLen \in Nat /\ PrefixBytes + hintLen <= Len(LastHint)
           /\ HintEnd \in Nat
           /\ HintEnd >= PrefixBytes => HintEnd = PrefixBytes + hintLen
           /\ HintEnd < PrefixBytes => Len(LastHint) >= LenCount
           /\ \A i \in 1..PrefixBytes : Prefix(hintLen)[i] = LastHint[i]
  <1> DEFINE P == PrefixBytes
             L == Len(LastHint)
             n == hintLen
             M == LenCount
             x == L - P
             y == P + n
             v == Value(LastHint)
  <1>0. P \in Nat \ {0} /\ L \in Nat /\ L >= P /\ n <= x % M
    BY OutputAssumption DEF Complete
  <1>1. M \in Nat \ {0}
    <2>1. P \in 0..P
      BY <1>0
    <2> QED BY <2>1, PowerStep DEF LenCount
  <1>2. n \in 0..(M - 1) /\ \A i \in 1..P : (n \div ByteCount ^ (P - i)) % ByteCount = LastHint[i]
    <2>1. Values(v, P, LastHint)
      BY <1>0, ValueOf
    <2>2. n = v[P]
      BY HintLenValue
    <2> HIDE DEF v
    <2>3. /\ v[P] \in 0..(M - 1)
          /\ \A i \in 1..P : (v[P] \div ByteCount ^ (P - i)) % ByteCount = LastHint[i]
      BY <1>0, <2>1, ValueDigits
    <2> QED BY <2>2, <2>3
  <1>3. x \in Nat /\ n \in Nat /\ y \in Nat /\ n < M
    BY <1>0, <1>1, <1>2
  <1>4. \A i \in 1..P : Prefix(n)[i] = LastHint[i]
    <2> HIDE DEF n
    <2> QED BY <1>2, <1>3, PrefixSeq
  <1>5. HintEnd = y % M
    BY DEF HintEnd
  <1>6. y = P + n /\ x = L - P
    OBVIOUS
  <1> HIDE DEF n, M, x, y, L
  <1>7. x % M <= x
    <2> DEFINE q == x \div M
               r == x % M
    <2>1. q \in Nat /\ r \in Nat /\ x = M * q + r
      BY <1>1, <1>3, QuotientParts
    <2> HIDE DEF q, r
    <2>2. M * q \in Nat
      BY <1>1, <2>1
    <2>3. r <= x
      <3> DEFINE w == M * q
      <3>1. w \in Nat /\ x = w + r
        BY <2>1, <2>2
      <3> HIDE DEF w
      <3> QED BY <2>1, <3>1
    <2> QED BY <2>3 DEF r
  <1>8. P + n <= L
    <2>1. x % M \in Nat
      BY <1>1, <1>3
    <2> QED BY <1>0, <1>3, <1>6, <1>7, <2>1
  <1>9. y % M \in Nat /\ (y < M => y % M = y) /\ (y >= M => y % M <= y - M)
    <2>1. y % M \in Nat
      BY <1>1, <1>3
    <2>2. y < M => y % M = y
      BY <1>1, <1>3
    <2>3. ASSUME y >= M PROVE y % M <= y - M
      <3> DEFINE q == y \div M
                 r == y % M
      <3>1. q \in Nat /\ r \in Nat /\ r < M /\ y = M * q + r
        BY <1>1, <1>3, QuotientParts
      <3> HIDE DEF q, r
      <3>2. q # 0
        BY <1>1, <2>3, <3>1
      <3>3. PICK k \in Nat : q = 1 + k
        <4>1. q - 1 \in Nat /\ q = 1 + (q - 1)
          BY <3>1, <3>2
        <4> QED BY <4>1
      <3> DEFINE w == M * k
      <3>4. M * q = M + w /\ w \in Nat
        BY <1>1, <3>3
      <3> HIDE DEF w
      <3>5. r <= y - M
        BY <1>1, <3>1, <3>4
      <3> QED BY <3>5 DEF r
    <2> QED BY <2>1, <2>2, <2>3
  <1>10. y % M >= P => y % M = y
    BY <1>0, <1>1, <1>3, <1>6, <1>9
  <1>11. y % M < P => L >= M
    BY <1>0, <1>1, <1>3, <1>6, <1>8, <1>9
  <1> QED BY <1>3, <1>4, <1>5, <1>6, <1>8, <1>9, <1>10, <1>11 DEF n, M, L

-----------------------------------------------------------------------------
(* The copying.                                                            *)

\* What CopyInv says of a stream.
Exact(f) ==
    IF at = "copy" /\ f = fd
    THEN copied[f] \o RangeBytes(reader.addr, reader.count) = wrote[f]
    ELSE failed \in {"range", "output"} \/ copied[f] = wrote[f]

\* OutputExact says this of every stream.
LEMMA ExactStreams ==
    OutputExact <=>
        /\ \A f \in FD : Exact(f)
        /\ failed = "range" => Laps
        /\ failed = "hint" => Len(LastHint) >= LenCount
  BY DEF OutputExact, Exact

\* CopyInv holds before the first instruction.
LEMMA CopyInit == OutputInit => CopyInv
  <1> SUFFICES ASSUME OutputInit PROVE CopyInv
    OBVIOUS
  <1>1. NoRange \in [addr : Addr, count : Addr]
    BY OutputAssumption DEF NoRange, Addr
  <1>2. Stdout \in FD /\ << >> \in Seq(Byte) /\ << >> \in Seq(Seq(Byte))
    BY DEF FD
  <1>3. [f \in FD |-> << >>] \in [FD -> Seq(Byte)]
    BY <1>2
  <1>4. OutputExact
    BY DEF OutputInit, OutputExact
  <1> QED BY <1>1, <1>2, <1>3, <1>4 DEF OutputInit, CopyInv

\* A call starts with all of its range left.
LEMMA SysWriteCopies ==
    ASSUME CopyInv, NEW f \in FD, NEW addr \in Addrs, NEW count \in Counts,
           SysWrite(f, addr, count)
    PROVE  CopyInv'
  <1> DEFINE r == RangeBytes(addr, count)
             w == wrote[f]
  <1>1. addr \in Addr /\ count \in Addr /\ count \in Nat
    BY OutputAssumption DEF Addr
  <1>2. r \in Seq(Byte) /\ Len(r) = count
    BY <1>1, RangeSeq
  <1>3. w \in Seq(Byte) /\ copied[f] = w /\ failed = "no" /\ at = "program"
    <2>1. failed = "no" /\ at = "program" /\ Exact(f)
      BY ExactStreams DEF SysWrite, CopyInv
    <2> QED BY <2>1 DEF Exact, CopyInv
  <1>4. /\ at' = "copy" /\ fd' = f /\ copied' = copied /\ LastHint' = LastHint
        /\ hints' = hints /\ failed' = failed
        /\ reader' = [addr |-> addr, count |-> count]
        /\ range' = [addr |-> addr, count |-> count]
        /\ wrote' = [wrote EXCEPT ![f] = w \o r]
    BY DEF SysWrite
  <1> HIDE DEF r, w
  <1>5. w \o r \in Seq(Byte) /\ Len(w \o r) >= count
    BY <1>1, <1>2, <1>3
  <1> DEFINE wr == w \o r
  <1>6. wr \in Seq(Byte) /\ Len(wr) >= count /\ wrote' = [wrote EXCEPT ![f] = wr]
    BY <1>4, <1>5
  <1>7. copied[f] \o r = wr
    BY <1>3
  <1> HIDE DEF wr
  <1>8. wrote' \in [FD -> Seq(Byte)] /\ wrote'[f] = wr
        /\ \A g \in FD \ {f} : wrote'[g] = wrote[g]
    BY <1>6 DEF CopyInv
  <1>9. ASSUME NEW g \in FD PROVE Exact(g)'
    <2>1. CASE g = f
      <3>1. reader'.addr = addr /\ reader'.count = count
        BY <1>4
      <3>2. copied'[g] \o RangeBytes(reader'.addr, reader'.count) = wrote'[g]
        BY <1>4, <1>7, <1>8, <2>1, <3>1, Zenon DEF r
      <3> QED BY <1>4, <2>1, <3>2 DEF Exact
    <2>2. CASE g # f
      <3>1. copied[g] = wrote[g]
        BY <1>3, ExactStreams DEF CopyInv, Exact
      <3> QED BY <1>4, <1>8, <2>2, <3>1 DEF Exact
    <2> QED BY <2>1, <2>2
  <1>10. OutputExact'
    <2>1. failed' # "range" /\ failed' # "hint"
      BY <1>3, <1>4
    <2> QED BY <1>9, <2>1 DEF OutputExact, Exact
  <1>11. reader'.count <= range'.count /\ range'.count <= Len(wrote'[fd'])
    BY <1>1, <1>4, <1>6, <1>8
  <1>12. reader' \in [addr : Addr, count : Addr] /\ range' \in [addr : Addr, count : Addr]
    BY <1>1, <1>4
  <1> QED BY <1>3, <1>4, <1>8, <1>10, <1>11, <1>12 DEF CopyInv

\* A Read that fails.
LEMMA ReadFails ==
    ASSUME CopyInv, at = "copy", reader.count # 0, OutOfBounds, failed' = "range",
           at' = "program", UNCHANGED <<reader, copied, fd, LastHint, hints, range, wrote, calls>>
    PROVE  CopyInv'
  <1>1. reader.addr \in Addr /\ reader.count \in Addr /\ range.count \in Addr
        /\ reader.count <= range.count
    BY DEF CopyInv
  <1>2. reader.count > AddrSpace - PageSize
    BY <1>1, ReadFits
  <1>3. range.count > AddrSpace - PageSize
    BY <1>1, <1>2, OutputAssumption DEF Addr
  <1>4. Laps'
    BY <1>3 DEF Laps
  <1>5. OutputExact'
    BY <1>4 DEF OutputExact
  <1> QED BY <1>5 DEF CopyInv

\* The end of the range: the whole of it has been copied.
LEMMA CopyDone ==
    ASSUME CopyInv, at = "copy", reader.count = 0
    PROVE  copied[fd] = wrote[fd]
  <1>1. copied[fd] \o RangeBytes(reader.addr, reader.count) = wrote[fd]
    BY ExactStreams DEF CopyInv, Exact
  <1> DEFINE r == RangeBytes(reader.addr, reader.count)
             c == copied[fd]
  <1>2. reader.addr \in Addr /\ reader.count \in Nat /\ c \in Seq(Byte)
    BY DEF CopyInv, Addr
  <1>3. r \in Seq(Byte) /\ Len(r) = 0
    BY <1>2, RangeSeq
  <1> HIDE DEF r, c
  <1>4. r = << >>
    BY <1>3
  <1>5. c \o << >> = c
    BY <1>2
  <1>6. c = wrote[fd]
    BY <1>1, <1>4, <1>5, Zenon DEF r, c
  <1> QED BY <1>6 DEF c

\* A Read that copies n bytes.
LEMMA ReadCopies ==
    ASSUME CopyInv, at = "copy", NEW n \in 1..reader.count,
           copied' = [copied EXCEPT ![fd] = copied[fd] \o RangeBytes(reader.addr, n)],
           reader' = Consume(n),
           UNCHANGED <<at, failed, fd, LastHint, hints, range, wrote, calls>>
    PROVE  CopyInv'
  <1> DEFINE a == reader.addr
             k == reader.count
             b == (a + n) % AddrSpace
             m == k - n
             c == copied[fd]
             r == RangeBytes(a, n)
             t == RangeBytes(b, m)
             w == RangeBytes(a, k)
             cr == c \o r
  <1>1. /\ a \in Addr /\ k \in Addr /\ k \in Nat /\ range.count \in Addr /\ range.count \in Nat
        /\ k <= range.count /\ range.count <= Len(wrote[fd]) /\ c \in Seq(Byte) /\ fd \in FD
        /\ AddrSpace \in Nat /\ failed = "no"
    BY OutputAssumption DEF CopyInv, Addr
  <1>2. n \in 0..k /\ n \in Nat /\ m \in Nat
    BY <1>1
  <1>3. b \in Addr /\ r \o t = w
    <2> HIDE DEF a, k
    <2> QED BY <1>1, <1>2, RangeSplit
  <1>4. reader' = [addr |-> b, count |-> m]
    BY DEF Consume
  <1>5. m \in Addr
    BY <1>1, <1>2 DEF Addr
  <1>6. copied' = [copied EXCEPT ![fd] = cr]
    OBVIOUS
  <1> HIDE DEF a, b, k, m
  <1>7. r \in Seq(Byte) /\ t \in Seq(Byte)
    BY <1>1, <1>2, <1>3, RangeSeq
  <1>8. c \o w = wrote[fd]
    BY ExactStreams DEF CopyInv, Exact, a, k
  <1> HIDE DEF c, r, t, w
  <1>9. (c \o r) \o t = c \o (r \o t) /\ c \o r \in Seq(Byte)
    <2>1. c \in Seq(Byte) /\ r \in Seq(Byte) /\ t \in Seq(Byte)
      BY <1>1, <1>7
    <2> QED BY <2>1, JoinThree
  <1>10. cr \o t = wrote[fd] /\ cr \in Seq(Byte)
    BY <1>3, <1>8, <1>9, Zenon
  <1> HIDE DEF cr
  <1>11. /\ copied' \in [FD -> Seq(Byte)] /\ copied'[fd] = cr
         /\ \A g \in FD \ {fd} : copied'[g] = copied[g]
    BY <1>1, <1>6, <1>10 DEF CopyInv
  <1>12. ASSUME NEW g \in FD PROVE Exact(g)'
    <2>1. CASE g = fd
      <3>1. reader'.addr = b /\ reader'.count = m
        BY <1>4
      <3>2. copied'[g] \o RangeBytes(reader'.addr, reader'.count) = wrote'[g]
        BY <1>10, <1>11, <2>1, <3>1, Zenon DEF t
      <3> QED BY <2>1, <3>2 DEF Exact
    <2>2. CASE g # fd
      <3>1. copied[g] = wrote[g]
        BY <1>1, <2>2, ExactStreams DEF CopyInv, Exact
      <3> QED BY <1>11, <2>2, <3>1 DEF Exact
    <2> QED BY <2>1, <2>2
  <1>13. OutputExact'
    BY <1>1, <1>12 DEF OutputExact, Exact
  <1>14. reader'.count <= range.count
    BY <1>1, <1>2, <1>4 DEF m
  <1>15. reader' \in [addr : Addr, count : Addr]
    BY <1>3, <1>4, <1>5
  <1> QED BY <1>11, <1>13, <1>14, <1>15 DEF CopyInv

\* A Read fails or copies: a failing one needs a range that laps the address space.
LEMMA ReadStep ==
    ASSUME CopyInv, NEW size \in DestSizes, Read(size)
    PROVE  CopyInv'
  <1>1. at = "copy" /\ reader.count # 0 /\ reader.addr \in Addr /\ reader.count \in Addr
    BY DEF Read, CopyInv
  <1>2. UNCHANGED <<fd, LastHint, hints, range, wrote, calls>>
    BY DEF Read
  <1>3. CASE OutOfBounds
    <2>1. failed' = "range" /\ at' = "program" /\ UNCHANGED <<reader, copied>>
      BY <1>3 DEF Read
    <2> QED BY <1>1, <1>2, <1>3, <2>1, ReadFails
  <1>4. CASE ~OutOfBounds
    <2> DEFINE e == PageEnd - PageStart
               n == IF size <= e THEN size ELSE e
    <2>1. /\ copied' = [copied EXCEPT ![fd] = copied[fd] \o RangeBytes(reader.addr, n)]
          /\ reader' = Consume(n) /\ UNCHANGED <<at, failed>>
      BY <1>4 DEF Read
    <2>2. e \in 1..reader.count
      BY <1>1, <1>4, ReadFits
    <2>3. size \in Nat \ {0} /\ reader.count \in Nat
      BY <1>1, OutputAssumption DEF Addr
    <2> HIDE DEF e
    <2>4. n \in 1..reader.count
      BY <2>2, <2>3
    <2> HIDE DEF n
    <2> QED BY <1>1, <1>2, <2>1, <2>4, ReadCopies
  <1> QED BY <1>3, <1>4

\* The bytes of a call that have come in.
LEMMA CallBytes ==
    ASSUME CopyInv, at = "copy", reader.count = 0, NEW n, n = range.count, NEW c, c = copied[fd]
    PROVE  SubSeq(c, Len(c) - n + 1, Len(c)) \in Seq(Byte)
  <1> DEFINE l == Len(c)
             a == l - n + 1
  <1>1. c \in Seq(Byte) /\ l \in Nat /\ n \in Nat /\ n <= l
    <2>1. c = wrote[fd]
      BY CopyDone
    <2>2. wrote[fd] \in Seq(Byte) /\ range.count <= Len(wrote[fd]) /\ range.count \in Nat
      BY DEF CopyInv, Addr
    <2> QED BY <2>1, <2>2
  <1>2. a \in Nat \ {0} /\ l - a + 1 = n /\ l <= Len(c)
    BY <1>1
  <1>3. SubSeq(c, a, l) \in Seq(Byte)
    <2>1. Places(Byte, c, a, l, n)
      BY <1>1, <1>2 DEF Places
    <2> QED BY <2>1, Cut
  <1> QED BY <1>2, <1>3

\* The end of a range leaves every stream complete.
LEMMA EOFStep ==
    ASSUME CopyInv, ReadEOF
    PROVE  CopyInv'
  <1>1. at = "copy" /\ reader.count = 0 /\ failed = "no"
    BY DEF ReadEOF, CopyInv
  <1>2. UNCHANGED <<fd, reader, copied, hints, failed, range, wrote, calls>>
    BY DEF ReadEOF
  <1>3. at' \in {"program", "hints"}
    BY DEF ReadEOF
  <1>4. LastHint' \in Seq(Byte)
    <2>1. CASE fd = HintWrite
      <3> DEFINE c == copied[fd]
                 p == SubSeq(c, Len(c) - range.count + 1, Len(c))
      <3>1. p \in Seq(Byte)
        BY <1>1, CallBytes
      <3>2. LastHint' = LastHint \o p /\ LastHint \in Seq(Byte)
        BY <2>1 DEF ReadEOF, CopyInv
      <3> HIDE DEF p
      <3> QED BY <3>1, <3>2
    <2>2. CASE fd # HintWrite
      BY <2>2 DEF ReadEOF, CopyInv
    <2> QED BY <2>1, <2>2
  <1>5. ASSUME NEW g \in FD PROVE copied[g] = wrote[g]
    <2>1. CASE g = fd
      BY <1>1, <2>1, CopyDone
    <2>2. CASE g # fd
      BY <1>1, <2>2, ExactStreams DEF CopyInv, Exact
    <2> QED BY <2>1, <2>2
  <1>6. OutputExact'
    BY <1>1, <1>2, <1>3, <1>5 DEF OutputExact
  <1> QED BY <1>1, <1>2, <1>3, <1>4, <1>6 DEF CopyInv

\* The sequence s begins with the k items of x, and has n more at least.
Begins(S, s, x, k, n) ==
    /\ s \in Seq(S) /\ x \in Seq(S) /\ k \in Nat /\ n \in Nat
    /\ Len(x) = k /\ k + n <= Len(s)
    /\ \A i \in 1..k : x[i] = s[i]

\* The sequence s is x, of k items, the next n items, and the rest.
Parted(S, s, x, k, n) ==
    /\ SubSeq(s, k + 1, k + n) \in Seq(S) /\ Len(SubSeq(s, k + 1, k + n)) = n
    /\ SubSeq(s, k + n + 1, Len(s)) \in Seq(S)
    /\ (x \o SubSeq(s, k + 1, k + n)) \o SubSeq(s, k + n + 1, Len(s)) = s

\* What begins so is its first part, the next n items, and the rest.
LEMMA ThreeParts ==
    ASSUME NEW S, NEW s, NEW x, NEW k, NEW n, Begins(S, s, x, k, n)
    PROVE  Parted(S, s, x, k, n)
  <1> DEFINE L == Len(s)
             e == k + n
             f == k + 1
             g == e + 1
             m == L - e
             a == SubSeq(s, f, e)
             b == SubSeq(s, g, L)
             q == x \o a
             t == q \o b
  <1>0. /\ s \in Seq(S) /\ x \in Seq(S) /\ k \in Nat /\ n \in Nat /\ Len(x) = k
        /\ k + n <= Len(s) /\ \A i \in 1..k : x[i] = s[i]
    BY DEF Begins
  <1>1. L \in Nat /\ e \in Nat /\ f \in Nat \ {0} /\ g \in Nat \ {0} /\ m \in Nat
    BY <1>0
  <1>2. e - f + 1 = n /\ L - g + 1 = m /\ e <= L /\ e = k + n /\ L = e + m
    BY <1>0
  <1>3. (\A i \in 1..n : f + i - 1 = k + i) /\ (\A i \in 1..m : g + i - 1 = e + i)
    BY <1>0, <1>1, <1>2
  <1> HIDE DEF e, f, g, m
  <1>4. a \in Seq(S) /\ Len(a) = n /\ \A i \in 1..n : a[i] = s[f + i - 1]
    <2>1. Places(S, s, f, e, n)
      BY <1>0, <1>1, <1>2 DEF Places
    <2> QED BY <2>1, Cut
  <1>5. b \in Seq(S) /\ Len(b) = m /\ \A i \in 1..m : b[i] = s[g + i - 1]
    <2>1. Places(S, s, g, L, m)
      BY <1>0, <1>1, <1>2 DEF Places
    <2> QED BY <2>1, Cut
  <1> HIDE DEF a, b
  <1>6. q \in Seq(S) /\ Len(q) = e /\ \A i \in 1..e : q[i] = IF i <= k THEN x[i] ELSE a[i - k]
    <2>1. Lengths(S, x, a, k, n, e)
      BY <1>0, <1>1, <1>2, <1>4 DEF Lengths
    <2> QED BY <2>1, JoinBytes
  <1> HIDE DEF q, L
  <1>7. t \in Seq(S) /\ Len(t) = L /\ \A i \in 1..L : t[i] = IF i <= e THEN q[i] ELSE b[i - e]
    <2>1. Lengths(S, q, b, e, m, L)
      BY <1>1, <1>2, <1>5, <1>6 DEF Lengths
    <2> QED BY <2>1, JoinBytes
  <1> HIDE DEF t
  <1>8. ASSUME NEW i \in 1..L PROVE t[i] = s[i]
    <2>1. CASE i <= k
      <3>1. i <= e /\ i \in 1..e /\ i \in 1..k
        BY <1>0, <1>1, <1>2, <2>1
      <3>2. t[i] = q[i] /\ q[i] = x[i]
        BY <1>6, <1>7, <2>1, <3>1
      <3> QED BY <1>0, <3>1, <3>2
    <2>2. CASE ~(i <= k) /\ i <= e
      <3> DEFINE j == i - k
      <3>1. i \in 1..e /\ j \in 1..n /\ k + j = i
        BY <1>0, <1>1, <1>2, <2>2
      <3>2. t[i] = q[i] /\ q[i] = a[j]
        BY <1>6, <1>7, <2>2, <3>1
      <3> HIDE DEF j
      <3>3. a[j] = s[f + j - 1] /\ f + j - 1 = k + j
        BY <1>3, <1>4, <3>1
      <3> QED BY <3>1, <3>2, <3>3
    <2>3. CASE ~(i <= e)
      <3> DEFINE j == i - e
      <3>1. j \in 1..m /\ e + j = i
        BY <1>0, <1>1, <1>2, <2>3
      <3>2. t[i] = b[j]
        BY <1>7, <2>3
      <3> HIDE DEF j
      <3>3. b[j] = s[g + j - 1] /\ g + j - 1 = e + j
        BY <1>3, <1>5, <3>1
      <3> QED BY <3>1, <3>2, <3>3
    <2> QED BY <2>1, <2>2, <2>3
  <1>9. t = s
    <2>1. t \in Seq(S) /\ s \in Seq(S) /\ Len(t) = L /\ Len(s) = L /\ L \in Nat
      BY <1>0, <1>1, <1>7 DEF L
    <2> QED BY <1>8, <2>1, SameBytes
  <1> QED BY <1>4, <1>5, <1>9 DEF a, b, t, q, e, f, g, L, Parted

\* The last items of two sequences put together are the second one.
LEMMA LastPart ==
    ASSUME NEW S, NEW s, NEW t, NEW k, NEW n, NEW l, Lengths(S, s, t, k, n, l)
    PROVE  Len(s \o t) = l /\ SubSeq(s \o t, l - n + 1, l) = t
  <1> DEFINE c == s \o t
             a == k + 1
             p == SubSeq(c, a, l)
  <1>1. /\ k \in Nat /\ n \in Nat /\ l \in Nat /\ a \in Nat \ {0} /\ l - a + 1 = n
        /\ l - n + 1 = a /\ l = k + n /\ t \in Seq(S) /\ Len(t) = n
    BY DEF Lengths
  <1>2. \A i \in 1..n : /\ a + i - 1 \in 1..l /\ ~(a + i - 1 <= k)
                        /\ (a + i - 1) - k = i
    BY <1>1
  <1> HIDE DEF a
  <1>4. c \in Seq(S) /\ Len(c) = l /\ \A i \in 1..l : c[i] = IF i <= k THEN s[i] ELSE t[i - k]
    BY JoinBytes
  <1> HIDE DEF c
  <1>5. p \in Seq(S) /\ Len(p) = n /\ \A i \in 1..n : p[i] = c[a + i - 1]
    <2>1. Places(S, c, a, l, n)
      BY <1>1, <1>4 DEF Places
    <2> QED BY <2>1, Cut
  <1> HIDE DEF p
  <1>6. ASSUME NEW i \in 1..n PROVE p[i] = t[i]
    <2> DEFINE j == a + i - 1
    <2>1. j \in 1..l /\ ~(j <= k) /\ j - k = i
      BY <1>2
    <2>2. p[i] = c[j]
      BY <1>5
    <2> HIDE DEF j
    <2>3. c[j] = t[j - k]
      BY <1>4, <2>1
    <2> QED BY <2>1, <2>2, <2>3
  <1>7. p = t
    BY <1>1, <1>5, <1>6, SameBytes
  <1> QED BY <1>1, <1>4, <1>7 DEF p, c

\* A hint that is given, with its length, and what stays, are what was buffered.
LEMMA HintCut ==
    ASSUME LastHint \in Seq(Byte), Complete, HintEnd >= PrefixBytes,
           NEW a, a = SubSeq(LastHint, PrefixBytes + 1, HintEnd),
           NEW b, b = SubSeq(LastHint, HintEnd + 1, Len(LastHint))
    PROVE  a \in Seq(Byte) /\ b \in Seq(Byte) /\ (Prefix(Len(a)) \o a) \o b = LastHint
  <1> DEFINE k == PrefixBytes
             n == hintLen
             x == Prefix(n)
             A == SubSeq(LastHint, k + 1, k + n)
             B == SubSeq(LastHint, k + n + 1, Len(LastHint))
  <1>1. k \in Nat /\ n \in Nat /\ k + n <= Len(LastHint) /\ HintEnd = k + n
    BY OutputAssumption, HintParts
  <1>2. \A i \in 1..k : x[i] = LastHint[i]
    BY HintParts
  <1>3. a = A /\ b = B
    BY <1>1
  <1> HIDE DEF n
  <1>4. x \in Seq(Byte) /\ Len(x) = k
    BY <1>1, PrefixSeq
  <1> HIDE DEF x, k
  <1>5. A \in Seq(Byte) /\ Len(A) = n /\ B \in Seq(Byte) /\ (x \o A) \o B = LastHint
    <2>1. Begins(Byte, LastHint, x, k, n)
      BY <1>1, <1>2, <1>4 DEF Begins
    <2>2. Parted(Byte, LastHint, x, k, n)
      BY <2>1, ThreeParts
    <2> QED BY <2>2, Zenon DEF Parted
  <1> HIDE DEF A, B
  <1>6. Prefix(Len(a)) = x
    BY <1>3, <1>5 DEF x
  <1> QED BY <1>3, <1>5, <1>6, Zenon

\* A hint is given, or its end has wrapped around.
LEMMA GiveStep ==
    ASSUME CopyInv, GiveHint
    PROVE  CopyInv'
  <1>1. at = "hints" /\ failed = "no" /\ Complete /\ LastHint \in Seq(Byte)
    BY DEF GiveHint, CopyInv
  <1>2. UNCHANGED <<fd, reader, copied, range, wrote, calls>>
    BY DEF GiveHint
  <1>3. \A g \in FD : copied[g] = wrote[g]
    BY <1>1, ExactStreams DEF CopyInv, Exact
  <1>4. CASE HintEnd >= PrefixBytes
    <2> DEFINE a == SubSeq(LastHint, PrefixBytes + 1, HintEnd)
               b == SubSeq(LastHint, HintEnd + 1, Len(LastHint))
    <2>1. ~(HintEnd < PrefixBytes)
      BY <1>1, <1>4, OutputAssumption, HintParts
    <2>2. hints' = Append(hints, a) /\ LastHint' = b /\ UNCHANGED <<at, failed>>
      BY <2>1 DEF GiveHint
    <2> HIDE DEF a, b
    <2>3. a \in Seq(Byte) /\ b \in Seq(Byte)
      BY <1>1, <1>4, HintCut DEF a, b
    <2>4. hints' \in Seq(Seq(Byte))
      <3>1. hints \in Seq(Seq(Byte))
        BY DEF CopyInv
      <3> QED BY <2>2, <2>3, <3>1
    <2>5. OutputExact'
      BY <1>1, <1>2, <1>3, <2>2 DEF OutputExact
    <2> QED BY <1>1, <1>2, <2>2, <2>3, <2>4, <2>5 DEF CopyInv
  <1>5. CASE ~(HintEnd >= PrefixBytes)
    <2>1. HintEnd < PrefixBytes /\ Len(LastHint) >= LenCount
      BY <1>1, <1>5, OutputAssumption, HintParts
    <2>2. failed' = "hint" /\ at' = "program" /\ UNCHANGED <<LastHint, hints>>
      BY <1>5 DEF GiveHint
    <2>3. OutputExact'
      BY <1>2, <1>3, <2>1, <2>2 DEF OutputExact
    <2> QED BY <1>2, <2>2, <2>3 DEF CopyInv
  <1> QED BY <1>4, <1>5

\* Every step keeps CopyInv.
LEMMA CopyStep == CopyInv /\ [OutputNext]_outputVars => CopyInv'
  <1> SUFFICES ASSUME CopyInv, [OutputNext]_outputVars PROVE CopyInv'
    OBVIOUS
  <1>1. ASSUME NEW f \in FD, NEW addr \in Addrs, NEW count \in Counts, SysWrite(f, addr, count)
        PROVE  CopyInv'
    BY <1>1, SysWriteCopies
  <1>2. ASSUME NEW size \in DestSizes, Read(size) PROVE CopyInv'
    BY <1>2, ReadStep
  <1>3. CASE ReadEOF
    BY <1>3, EOFStep
  <1>4. CASE CopyFails
    <2>1. failed' = "output" /\ at' = "program"
      BY <1>4 DEF CopyFails
    <2>2. OutputExact'
      BY <2>1 DEF OutputExact
    <2> QED BY <1>4, <2>1, <2>2 DEF CopyFails, CopyInv
  <1>5. CASE GiveHint
    BY <1>5, GiveStep
  <1>6. CASE StopHints
    <2>1. failed = "no" /\ \A g \in FD : copied[g] = wrote[g]
      BY <1>6, ExactStreams DEF CopyInv, Exact, StopHints
    <2>2. OutputExact'
      BY <1>6, <2>1 DEF OutputExact, StopHints
    <2> QED BY <1>6, <2>2 DEF StopHints, CopyInv
  <1>7. CASE UNCHANGED outputVars
    BY <1>7 DEF outputVars, CopyInv, OutputExact, Laps, RangeBytes
  <1> QED BY <1>1, <1>2, <1>3, <1>4, <1>5, <1>6, <1>7 DEF OutputNext

\* In every reachable state each stream is what the program has written to it, but
\* for the rest of a call under way, and no write fails but of a range that laps
\* the address space, a hint as long as the lengths wrap at, or a failing file:
\* for any sizes of pages, address space and buffers, and any memory.
THEOREM OutputAlwaysExact == OutputSpec => []OutputExact
  <1>1. OutputSpec => []CopyInv
    BY CopyInit, CopyStep, PTL DEF OutputSpec
  <1>2. CopyInv => OutputExact
    BY DEF CopyInv
  <1> QED BY <1>1, <1>2, PTL
-----------------------------------------------------------------------------
(* The hints.                                                              *)

\* A hint with its length in front.
Frame(x) == Prefix(Len(x)) \o x

\* The hints with their lengths, before and after one more is given.
LEMMA FramedHints ==
    ASSUME hints \in Seq(Seq(Byte))
    PROVE  /\ Framed \in Seq(Seq(Byte))
           /\ \A x \in Seq(Byte) :
                 Frame(x) \in Seq(Byte)
                 /\ (hints' = Append(hints, x) => Framed' = Append(Framed, Frame(x)))
  <1> DEFINE n == Len(hints)
             F == Framed
  <1>1. n \in Nat /\ DOMAIN hints = 1..n /\ \A i \in 1..n : hints[i] \in Seq(Byte)
    OBVIOUS
  <1>2. ASSUME NEW x \in Seq(Byte) PROVE Frame(x) \in Seq(Byte)
    <2>1. Len(x) \in Nat
      OBVIOUS
    <2>2. Prefix(Len(x)) \in Seq(Byte)
      BY <2>1, PrefixSeq
    <2> DEFINE p == Prefix(Len(x))
    <2> HIDE DEF p
    <2>3. p \o x \in Seq(Byte)
      BY <2>2 DEF p
    <2> QED BY <2>3 DEF p, Frame
  <1>3. F = [i \in 1..n |-> Frame(hints[i])]
    BY <1>1, Zenon DEF Framed, Frame
  <1>4. F \in [1..n -> Seq(Byte)]
    BY <1>1, <1>2, <1>3
  <1>5. F \in Seq(Seq(Byte)) /\ Len(F) = n
    <2> HIDE DEF F, n
    <2> QED BY <1>1, <1>4
  <1>6. ASSUME NEW x \in Seq(Byte), hints' = Append(hints, x)
        PROVE  Framed' = Append(Framed, Frame(x))
    <2> DEFINE m == n + 1
               y == Frame(x)
               A == Append(F, y)
               G == Framed'
    <2>1. Len(hints') = m /\ DOMAIN hints' = 1..m /\ hints' \in Seq(Seq(Byte))
      BY <1>6
    <2>2. hints'[m] = x /\ \A i \in 1..n : hints'[i] = hints[i]
      BY <1>6
    <2>3. G = [i \in 1..m |-> Frame(hints'[i])]
      BY <2>1, Zenon DEF Framed, Frame
    <2>4. y \in Seq(Byte)
      BY <1>2
    <2> HIDE DEF F, y, G
    <2>5. A \in Seq(Seq(Byte)) /\ Len(A) = m /\ A[m] = y /\ \A i \in 1..n : A[i] = F[i]
      BY <1>1, <1>5, <2>4
    <2> HIDE DEF A
    <2>6. A \in [1..m -> Seq(Byte)]
      BY <1>1, <2>5
    <2>7. A = [i \in 1..m |-> A[i]]
      BY <2>6
    <2>8. ASSUME NEW i \in 1..m PROVE A[i] = Frame(hints'[i])
      <3>1. CASE i = m
        BY <2>2, <2>5, <3>1 DEF y
      <3>2. CASE i # m
        <4>1. i \in 1..n
          BY <1>1, <3>2
        <4>2. A[i] = F[i] /\ F[i] = Frame(hints[i]) /\ hints'[i] = hints[i]
          BY <1>3, <2>2, <2>5, <4>1
        <4> QED BY <4>2, Zenon
      <3> QED BY <3>1, <3>2
    <2>9. A = G
      BY <2>3, <2>7, <2>8, Zenon
    <2> QED BY <2>9 DEF A, G, F, y
  <1> QED BY <1>2, <1>5, <1>6 DEF F

\* Received is a sequence of bytes.
LEMMA ReceivedSeq ==
    ASSUME CopyInv
    PROVE  FlattenSeq(Framed) \in Seq(Byte) /\ Received \in Seq(Byte)
  <1>1. Framed \in Seq(Seq(Byte)) /\ LastHint \in Seq(Byte)
    BY FramedHints DEF CopyInv
  <1> DEFINE x == LastHint
             F == FlattenSeq(Framed)
  <1>2. F \in Seq(Byte)
    BY <1>1, FlattenAppend
  <1> HIDE DEF F
  <1>3. F \o LastHint \in Seq(Byte)
    BY <1>1, <1>2
  <1> QED BY <1>2, <1>3 DEF F, Received

\* A step that leaves the hints alone leaves what has been received.
LEMMA ReceivedKept ==
    ASSUME UNCHANGED <<hints, LastHint>>
    PROVE  Received' = Received /\ (NoneWaits' <=> NoneWaits)
  <1>1. Framed' = Framed
    BY DEF Framed
  <1>2. Received' = Received
    BY <1>1 DEF Received
  <1>3. hintLen' = hintLen
    BY DEF hintLen
  <1>4. NoneWaits' <=> NoneWaits
    BY <1>3 DEF NoneWaits
  <1> QED BY <1>2, <1>4

\* What a call has written to the hint descriptor arrives behind the buffered bytes.
LEMMA EOFHint ==
    ASSUME CopyInv, WholeInv, ReadEOF, fd = HintWrite
    PROVE  Received' = wrote[HintWrite]
  <1> DEFINE n == range.count
             c == copied[fd]
             r == RangeBytes(range.addr, n)
             R == Received
             F == FlattenSeq(Framed)
             l == Len(c)
             p == SubSeq(c, l - n + 1, l)
  <1>1. at = "copy" /\ reader.count = 0 /\ hints' = hints /\ LastHint' = LastHint \o p
    BY DEF ReadEOF
  <1>2. p \in Seq(Byte)
    BY <1>1, CallBytes
  <1>3. range.addr \in Addr /\ n \in Nat /\ LastHint \in Seq(Byte)
    BY DEF CopyInv, Addr
  <1>4. r \in Seq(Byte) /\ Len(r) = n
    BY <1>3, RangeSeq
  <1>5. F \in Seq(Byte) /\ R \in Seq(Byte) /\ R = F \o LastHint
    BY ReceivedSeq DEF Received
  <1>6. c = wrote[HintWrite]
    BY <1>1, CopyDone
  <1>7. R \o r = wrote[HintWrite]
    BY <1>1 DEF WholeInv
  <1>8. Framed' = Framed
    BY <1>1 DEF Framed
  <1>9. Received' = F \o (LastHint \o p)
    BY <1>1, <1>8 DEF Received
  <1> HIDE DEF n, c, r, R, F, p, l
  <1>10. c = R \o r
    BY <1>6, <1>7
  <1>11. p = r
    <2> DEFINE k == Len(R)
               z == k + n
    <2>1. Lengths(Byte, R, r, k, n, z)
      BY <1>3, <1>4, <1>5 DEF Lengths
    <2>2. Len(R \o r) = z /\ SubSeq(R \o r, z - n + 1, z) = r
      BY <2>1, LastPart
    <2> HIDE DEF k, z
    <2> QED BY <1>10, <2>2, Zenon DEF p, l
  <1>12. (F \o LastHint) \o p = F \o (LastHint \o p)
    <2>1. F \in Seq(Byte) /\ LastHint \in Seq(Byte) /\ p \in Seq(Byte)
      BY <1>2, <1>3, <1>5
    <2> QED BY <2>1, JoinThree
  <1> QED BY <1>5, <1>7, <1>9, <1>11, <1>12, Zenon

\* Giving a hint moves bytes from LastHint to the oracle, and loses none.
LEMMA GiveKeeps ==
    ASSUME CopyInv, WholeInv, GiveHint
    PROVE  WholeInv'
  <1>1. at = "hints" /\ failed = "no" /\ Complete /\ wrote' = wrote
    BY DEF GiveHint, CopyInv
  <1>2. LastHint \in Seq(Byte) /\ hints \in Seq(Seq(Byte)) /\ Received = wrote[HintWrite]
    BY <1>1 DEF CopyInv, WholeInv
  <1>3. CASE HintEnd >= PrefixBytes
    <2> DEFINE a == SubSeq(LastHint, PrefixBytes + 1, HintEnd)
               b == SubSeq(LastHint, HintEnd + 1, Len(LastHint))
               F == FlattenSeq(Framed)
               y == Frame(a)
    <2>1. ~(HintEnd < PrefixBytes)
      BY <1>1, <1>2, <1>3, OutputAssumption, HintParts
    <2>2. hints' = Append(hints, a) /\ LastHint' = b /\ UNCHANGED <<at, failed>>
      BY <2>1 DEF GiveHint
    <2> HIDE DEF a, b
    <2>3. a \in Seq(Byte) /\ b \in Seq(Byte) /\ y \o b = LastHint
      BY <1>1, <1>2, <1>3, HintCut DEF a, b, Frame
    <2>4. y \in Seq(Byte) /\ Framed' = Append(Framed, y) /\ Framed \in Seq(Seq(Byte))
      BY <1>2, <2>2, <2>3, FramedHints
    <2> HIDE DEF y
    <2>5. F \in Seq(Byte) /\ FlattenSeq(Append(Framed, y)) = F \o y
      BY <2>4, FlattenAppend
    <2>6. FlattenSeq(Framed') = F \o y
      BY <2>4, <2>5, Zenon
    <2>7. Received' = FlattenSeq(Framed') \o b
      BY <2>2 DEF Received
    <2> HIDE DEF F
    <2>8. (F \o y) \o b = F \o (y \o b)
      <3>1. F \in Seq(Byte) /\ y \in Seq(Byte) /\ b \in Seq(Byte)
        BY <2>3, <2>4, <2>5
      <3> QED BY <3>1, JoinThree
    <2>9. Received = F \o LastHint
      BY DEF Received, F
    <2>10. Received' = Received
      BY <2>3, <2>6, <2>7, <2>8, <2>9, Zenon
    <2> QED BY <1>1, <1>2, <2>2, <2>10 DEF WholeInv
  <1>4. CASE ~(HintEnd >= PrefixBytes)
    <2>1. failed' = "hint" /\ at' = "program"
      BY <1>4 DEF GiveHint
    <2> QED BY <2>1 DEF WholeInv
  <1> QED BY <1>3, <1>4

\* Where the loop stops, no hint waits.
LEMMA StopKeeps ==
    ASSUME CopyInv, WholeInv, StopHints
    PROVE  WholeInv'
  <1>1. at = "hints" /\ failed = "no" /\ ~Complete /\ at' = "program" /\ LastHint \in Seq(Byte)
        /\ UNCHANGED <<fd, reader, copied, LastHint, hints, failed, range, wrote, calls>>
    BY DEF StopHints, CopyInv
  <1>2. Received' = Received /\ (NoneWaits' <=> NoneWaits)
    BY <1>1, ReceivedKept
  <1>3. NoneWaits
    <2> DEFINE L == Len(LastHint)
               P == PrefixBytes
               M == LenCount
               x == L - P
               v == Value(LastHint)
    <2> SUFFICES ASSUME L \in P..(M - 1) PROVE hintLen > L - P
      BY DEF NoneWaits
    <2>1. L \in Nat /\ P \in Nat /\ P \in 0..P
      BY <1>1, OutputAssumption
    <2>2. M \in Nat \ {0}
      BY <2>1, PowerStep DEF LenCount
    <2>3. x \in Nat /\ x < M /\ L >= P
      BY <2>1, <2>2
    <2>4. hintLen \in Nat
      <3>1. Values(v, P, LastHint)
        BY <1>1, <2>3, ValueOf
      <3>2. hintLen = v[P]
        BY HintLenValue
      <3> HIDE DEF v
      <3> QED BY <2>1, <3>1, <3>2 DEF Values
    <2>5. ~(hintLen <= x % M)
      BY <1>1, <2>3 DEF Complete
    <2> HIDE DEF x, M
    <2>6. x % M = x
      BY <2>2, <2>3
    <2> QED BY <2>3, <2>4, <2>5, <2>6 DEF x
  <1> QED BY <1>1, <1>2, <1>3 DEF WholeInv

\* A call that starts has not reached the hints.
LEMMA SysWriteKeeps ==
    ASSUME CopyInv, WholeInv, NEW f \in FD, NEW addr \in Addrs, NEW count \in Counts,
           SysWrite(f, addr, count)
    PROVE  WholeInv'
  <1>1. at = "program" /\ failed = "no" /\ at' = "copy" /\ fd' = f /\ failed' = "no"
        /\ range' = [addr |-> addr, count |-> count] /\ UNCHANGED <<hints, LastHint>>
        /\ wrote' = [wrote EXCEPT ![f] = wrote[f] \o RangeBytes(addr, count)]
    BY DEF SysWrite
  <1>2. Received' = Received /\ (NoneWaits' <=> NoneWaits)
    BY <1>1, ReceivedKept
  <1>3. Received = wrote[HintWrite] /\ NoneWaits
    BY <1>1 DEF WholeInv
  <1>4. HintWrite \in FD /\ DOMAIN wrote = FD
    BY DEF FD, CopyInv
  <1>5. CASE f = HintWrite
    <2> DEFINE r == RangeBytes(addr, count)
    <2>1. wrote'[HintWrite] = wrote[HintWrite] \o r
      <3> HIDE DEF r
      <3>1. wrote' = [wrote EXCEPT ![f] = wrote[f] \o r]
        BY <1>1 DEF r
      <3> QED BY <1>4, <1>5, <3>1, Zenon
    <2>2. range'.addr = addr /\ range'.count = count
      BY <1>1
    <2>3. Received' \o RangeBytes(range'.addr, range'.count) = wrote'[HintWrite]
      BY <1>2, <1>3, <2>1, <2>2, Zenon
    <2> QED BY <1>1, <1>2, <1>3, <1>5, <2>3 DEF WholeInv
  <1>6. CASE f # HintWrite
    <2>1. wrote'[HintWrite] = wrote[HintWrite]
      BY <1>1, <1>4, <1>6
    <2> QED BY <1>1, <1>2, <1>3, <1>6, <2>1 DEF WholeInv
  <1> QED BY <1>5, <1>6

\* Every step keeps WholeInv.
LEMMA WholeStep == CopyInv /\ WholeInv /\ [OutputNext]_outputVars => WholeInv'
  <1> SUFFICES ASSUME CopyInv, WholeInv, [OutputNext]_outputVars PROVE WholeInv'
    OBVIOUS
  <1>1. ASSUME NEW f \in FD, NEW addr \in Addrs, NEW count \in Counts, SysWrite(f, addr, count)
        PROVE  WholeInv'
    BY <1>1, SysWriteKeeps
  <1>2. ASSUME NEW size \in DestSizes, Read(size) PROVE WholeInv'
    <2>1. at = "copy" /\ UNCHANGED <<fd, LastHint, hints, range, wrote>>
      BY <1>2 DEF Read
    <2>2. Received' = Received /\ (NoneWaits' <=> NoneWaits)
      BY <2>1, ReceivedKept
    <2>3. (at' = "program" /\ failed' = "range") \/ (at' = at /\ failed' = failed)
      BY <1>2 DEF Read
    <2> QED BY <2>1, <2>2, <2>3 DEF WholeInv, RangeBytes
  <1>3. CASE ReadEOF
    <2>1. at = "copy" /\ failed = "no" /\ UNCHANGED <<fd, hints, failed, range, wrote>>
      BY <1>3 DEF ReadEOF, CopyInv
    <2>2. CASE fd = HintWrite
      <3>1. at' = "hints"
        BY <1>3, <2>2 DEF ReadEOF
      <3>2. Received' = wrote[HintWrite]
        BY <1>3, <2>2, EOFHint
      <3> QED BY <2>1, <3>1, <3>2 DEF WholeInv
    <2>3. CASE fd # HintWrite
      <3>1. at' = "program" /\ UNCHANGED LastHint
        BY <1>3, <2>3 DEF ReadEOF
      <3>2. Received' = Received /\ (NoneWaits' <=> NoneWaits)
        BY <2>1, <3>1, ReceivedKept
      <3> QED BY <2>1, <2>3, <3>1, <3>2 DEF WholeInv
    <2> QED BY <2>2, <2>3
  <1>4. CASE CopyFails
    <2>1. failed' = "output" /\ at' = "program"
      BY <1>4 DEF CopyFails
    <2> QED BY <2>1 DEF WholeInv
  <1>5. CASE GiveHint
    BY <1>5, GiveKeeps
  <1>6. CASE StopHints
    BY <1>6, StopKeeps
  <1>7. CASE UNCHANGED outputVars
    <2>1. UNCHANGED <<at, fd, LastHint, hints, failed, range, wrote>>
      BY <1>7 DEF outputVars
    <2>2. Received' = Received /\ (NoneWaits' <=> NoneWaits)
      BY <2>1, ReceivedKept
    <2> QED BY <2>1, <2>2 DEF WholeInv, RangeBytes
  <1> QED BY <1>1, <1>2, <1>3, <1>4, <1>5, <1>6, <1>7 DEF OutputNext

\* WholeInv holds before the first instruction.
LEMMA WholeInit == OutputInit => WholeInv
  <1> SUFFICES ASSUME OutputInit PROVE WholeInv
    OBVIOUS
  <1>1. at = "program" /\ hints = << >> /\ LastHint = << >> /\ wrote[HintWrite] = << >>
    BY DEF OutputInit, FD
  <1>2. Framed = << >>
    BY <1>1 DEF Framed
  <1>3. FlattenSeq(<< >>) = << >>
    BY DEF FlattenSeq
  <1>4. << >> \o << >> = << >>
    OBVIOUS
  <1>5. Received = wrote[HintWrite]
    BY <1>1, <1>2, <1>3, <1>4, Zenon DEF Received
  <1>6. NoneWaits
    <2>1. Len(LastHint) = 0 /\ PrefixBytes \in Nat \ {0}
      BY <1>1, OutputAssumption
    <2>2. Len(LastHint) \notin PrefixBytes..(LenCount - 1)
      BY <2>1
    <2> QED BY <2>2 DEF NoneWaits
  <1> QED BY <1>1, <1>5, <1>6 DEF WholeInv

\* In every reachable state between two instructions the hints that the oracle has
\* been given, with their lengths, and what is left in LastHint are the bytes that
\* the program wrote to the hint descriptor, however it cut them into calls; and no
\* complete hint is left waiting while less than LenCount bytes are buffered.
THEOREM HintsAlwaysWhole == OutputSpec => []HintsWhole
  <1>1. OutputInit => CopyInv /\ WholeInv
    BY CopyInit, WholeInit
  <1>2. CopyInv /\ WholeInv /\ [OutputNext]_outputVars => CopyInv' /\ WholeInv'
    BY CopyStep, WholeStep
  <1>3. WholeInv => HintsWhole
    BY DEF WholeInv, HintsWhole, Received, NoneWaits
  <1> QED BY <1>1, <1>2, <1>3, PTL DEF OutputSpec
=============================================================================
