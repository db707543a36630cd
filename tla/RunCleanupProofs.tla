--------------------------- MODULE RunCleanupProofs --------------------------
(* More proofs about RunLifecycle, for any set of pipes, registration order *)
(* and bounds: what the end of a run leaves behind is reported, "settled"   *)
(* means over, owners are closed once and in reverse order, and a complete  *)
(* lifecycle stays as it is. They rest on LaunchInv and HonestInv of        *)
(* RunLifecycleProofs.                                                      *)
EXTENDS RunLifecycleProofs

USE DEF Finalizers, Threads

-----------------------------------------------------------------------------
Owners == {Exe, Sink, Backend}
Over   == {"CLOSED", "CLOSE_UNCERTAIN"}

(* Where the Runner is before the first call of finalize_once it makes has  *)
(* begun.                                                                   *)
BeforeEnd == {"begin", "acquire", "prepared", "idle", "final2", "enter"} \cup Executing

Placed ==
  /\ pc[Runner] = "idle" => phase \in {"idle", "closing"}
  /\ pc[Runner] \in InFinalize => cont[Runner] \in {"final2", "ran", "prepRet"}
  /\ pc[Runner] \in InRelease => cont[Runner] \in {"over", "done"}
  /\ pc[Closer] \in {"ret1", "ret2"} \cup InRelease => phase = "closing"

(* A resource is registered before it is anything else, and once.           *)
RegisteredFirst ==
  /\ \A r \in Resources : rstate[r] # "ABSENT" => r \in registered
  /\ \A p \in Pipes : pc[p] = "closing" => p \in registered
  /\ pc[Runner] \in {"begin", "acquire"} => registered = {}
  /\ pc[Runner] \in {"prepared", "idle", "admitted"} => Sink \notin registered
  /\ pc[Runner] \in {"prepared", "idle", "admitted", "backend"} => Backend \notin registered

(* From its registration to the first finalization nobody closes the        *)
(* backend, and pipe threads exist only beside it.                          *)
BackendHeld ==
  /\ pc[Runner] \in Executing \ {"admitted", "backend"} =>
       Backend \in registered /\ rstate[Backend] = "OWNED"
  /\ \A p \in Pipes : pc[p] # "idleThread" => Backend \in registered

(* Who has begun a finalization, and what its end says.                     *)
Finalized ==
  /\ lstate = "not-started" =>
       \/ pc[Runner] \in BeforeEnd
       \/ pc[Runner] = "over" /\ phase \in {"idle", "closing"}
       \/ pc[Runner] = "done" /\ registered = {}
  /\ lstate = "running" => InLoop(Runner) \/ InLoop(Closer)
  /\ lstate = "incomplete" => issues # {}
  /\ lstate = "complete" =>
       /\ closedObs /\ issues = {}
       /\ \A r \in registered : rstate[r] = "CLOSED"
       /\ \A p \in Pipes : pc[p] \in {"idleThread", "exited"}

SettledOver ==
  settled => IF phase = "none" THEN pc[Runner] \in {"pop", "over", "done"} /\ lstate # "not-started"
                               ELSE lstate = "complete"

(* The close action of an owner has been started by whoever is inside it.   *)
OwnersOnce ==
  \A r \in Owners :
    /\ calls[r] <= 1 /\ rstate[r] # "FD_OWNED"
    /\ rstate[r] \in {"ABSENT", "OWNED"} => calls[r] = 0
    /\ rstate[r] = "CLOSING" =>
         \/ \E t \in Finalizers : pc[t] = "closing" /\ target[t] = r
         \/ pc[Runner] = "gateClosing" /\ r = Exe

(* Up to its deadline a finalizer has dealt with all it has visited.        *)
VisitedOver ==
  \A t \in Finalizers : InLoop(t) /\ ~expired[t] =>
    \A s \in Resources : Visited(t, s) => rstate[s] \in Over

CleanupInv ==
  /\ Placed /\ RegisteredFirst /\ BackendHeld /\ Finalized /\ SettledOver /\ OwnersOnce
  /\ VisitedOver

(* A finalizer keeps the cleanup invariant.                                 *)
LEMMA FinalizerCleanup ==
  ASSUME TypeOK, LaunchInv, HonestInv, CleanupInv, NEW t \in Finalizers, FinalizerStep(t) \/ Expire(t)
  PROVE  CleanupInv'
<1> USE ThreadsDistinct, ResourcesDistinct
<1> USE DEF CleanupInv, Placed, RegisteredFirst, BackendHeld, Finalized, SettledOver, OwnersOnce,
            VisitedOver, TypeOK, LaunchInv, CloserCalls, RunnerCalls, PhaseAgrees, CloserEarly,
            ExecutableHeld, WorkerTargets, HonestInv, ObservationAgrees, OneFinalizer, GateAlone,
            TargetVisited, BeforeOrIn, BeforeEnd, Executing, InFinalize, InRelease, InLoop,
            Visited, Owners, Over, Resources, Goto, Call, lifecycle, runner
<1>1. CASE FinalizeEnter(t)
  <2>1. /\ pc[t] = "enter" /\ cont' = cont /\ target' = target /\ expired' = expired /\ calls' = calls
        /\ UNCHANGED <<settled, registered, rstate, closedObs, issues>>
    BY <1>1 DEF FinalizeEnter
  <2>2. CASE lstate \in Terminal
    <3>1. Goto(t, cont[t]) /\ UNCHANGED <<lstate, phase, todo>>
      BY <1>1, <2>2 DEF FinalizeEnter, Terminal, Return
    <3>2. Placed' /\ SettledOver' /\ RegisteredFirst' /\ BackendHeld'
      BY <2>1, <3>1
    <3>3. Finalized'
      BY <2>1, <2>2, <3>1 DEF Terminal
    <3>4. OwnersOnce' /\ VisitedOver'
      BY <2>1, <3>1
    <3> QED BY <3>2, <3>3, <3>4
  <2>3. CASE lstate = "running"
    <3>1. Goto(t, "wait") /\ UNCHANGED <<lstate, phase, todo>>
      BY <1>1, <2>3 DEF FinalizeEnter, Terminal
    <3>2. Placed' /\ SettledOver' /\ RegisteredFirst' /\ BackendHeld'
      BY <2>1, <3>1
    <3>3. PICK s \in Finalizers : InLoop(s) /\ s # t
      BY <2>1, <2>3
    <3>4. Finalized'
      BY <2>1, <2>3, <3>1, <3>3
    <3>5. OwnersOnce'
      BY <2>1, <3>1
    <3>6. VisitedOver'
      BY <2>1, <3>1
    <3> QED BY <3>2, <3>4, <3>5, <3>6
  <2>4. CASE lstate = "not-started"
    <3>1. /\ lstate' = "running" /\ phase' = IF phase = "none" THEN "none" ELSE "closing"
          /\ todo' = [todo EXCEPT ![t] = registered] /\ Goto(t, "loop")
      BY <1>1, <2>4 DEF FinalizeEnter, Terminal
    <3> QED BY <2>1, <2>4, <3>1
  <2> QED BY <2>2, <2>3, <2>4 DEF Terminal
<1>2. CASE FinalizeWait(t)
  BY <1>2 DEF FinalizeWait, Return
<1>3. CASE FinalizeVisit(t)
  <2> USE <1>3 DEF FinalizeVisit, PassOver, CloseBegin
  <2>1. Placed' /\ SettledOver'  OBVIOUS
  <2>2. RegisteredFirst' /\ BackendHeld'  OBVIOUS
  <2>3. Finalized'  OBVIOUS
  <2>4. OwnersOnce' /\ VisitedOver'
    <3> USE DEF OwnersOnce, VisitedOver, Owners, Over, OneFinalizer, InLoop, Visited, HonestInv
    <3>1. PICK r \in todo[t] :
            /\ todo' = [todo EXCEPT ![t] = @ \ {r}]
            /\ \/ PassOver(t, r)
               \/ ~expired[t] /\ CloseBegin(t, r) /\ Goto(t, "closing") /\ UNCHANGED mine
      OBVIOUS
    <3>2. CASE PassOver(t, r)
      BY <3>1, <3>2
    <3>3. CASE ~expired[t] /\ CloseBegin(t, r) /\ Goto(t, "closing")
      <4>1. pc[Runner] = "gateClosing" => t = Runner
        BY <3>3 DEF LaunchInv, CloserCalls, PhaseAgrees, CloserEarly, InFinalize, BeforeOrIn,
           Executing
      <4>2. r \in Owners => calls[r] = 0
        BY <3>3, <4>1 DEF RStates
      <4>3. /\ rstate' = [rstate EXCEPT ![r] = "CLOSING"] /\ calls' = [calls EXCEPT ![r] = @ + 1]
            /\ target' = [target EXCEPT ![t] = r]
        BY <3>3
      <4>4. OwnersOnce'
        BY <4>2, <4>3, <3>3
      <4>5. VisitedOver'
        BY <3>1, <4>3, <3>3
      <4> QED BY <4>4, <4>5
    <3> QED BY <3>1, <3>2, <3>3
  <2> QED BY <2>1, <2>2, <2>3, <2>4
<1>4. CASE FinalizeClosed(t)
  BY <1>4 DEF FinalizeClosed, CloseEnd, ActionCanSucceed, AlreadyClosed
<1>5. CASE FinalizeEnd(t)
  <2> USE <1>5 DEF FinalizeEnd, Outcome
  <2>1. Placed' /\ SettledOver'  OBVIOUS
  <2>2. RegisteredFirst' /\ BackendHeld'  OBVIOUS
  <2>3. Finalized'
    <3>1. lstate' # "not-started" /\ lstate' # "running"
      OBVIOUS
    <3>2. mine[t] = {} => /\ \A r \in registered : rstate[r] = "CLOSED"
                         /\ \A p \in Pipes : pc[p] \in {"idleThread", "exited"}
      BY DEF HonestInv, VisitedClosed, BackendFirst, BackendHeld, Visited, InLoop
    <3> QED BY <3>1, <3>2 DEF Finalized
  <2>4. OwnersOnce' /\ VisitedOver'  OBVIOUS
  <2> QED BY <2>1, <2>2, <2>3, <2>4
<1>6. CASE Release(t)
  BY <1>6 DEF Release, KeepsUnsettled
<1>7. CASE Pop(t)
  BY <1>7 DEF Pop
<1>8. CASE Expire(t)
  BY <1>8 DEF Expire
<1> QED BY <1>1, <1>2, <1>3, <1>4, <1>5, <1>6, <1>7, <1>8 DEF FinalizerStep

(* Preparation and admission keep the cleanup invariant.                    *)
LEMMA PrepareCleanup ==
  ASSUME TypeOK, LaunchInv, HonestInv, CleanupInv, PrepareStep
  PROVE  CleanupInv'
<1> USE ThreadsDistinct, ResourcesDistinct
<1> USE DEF CleanupInv, Placed, RegisteredFirst, BackendHeld, Finalized, SettledOver, OwnersOnce,
            VisitedOver, TypeOK, LaunchInv, CloserCalls, RunnerCalls, PhaseAgrees, CloserEarly,
            ExecutableHeld, WorkerTargets, HonestInv, ObservationAgrees, OneFinalizer, GateAlone,
            TargetVisited, BeforeOrIn, BeforeEnd, Executing, InFinalize, InRelease, InLoop,
            Visited, Owners, Over, Resources, Goto, Call, lifecycle, runner
<1>1. CASE BeginLifecycle
  BY <1>1 DEF BeginLifecycle
<1>2. CASE AcquireExecutable
  BY <1>2 DEF AcquireExecutable, RunnerRegisters, Register, MayRegister
<1>3. CASE AdmissionFails
  BY <1>3 DEF AdmissionFails, RunnerFinalizes
<1>4. CASE AdmitPlainRun
  BY <1>4 DEF AdmitPlainRun, RunnerMoves
<1>5. CASE FinishNativePreparation
  BY <1>5 DEF FinishNativePreparation
<1>6. CASE ConsumeNativePreparation
  BY <1>6 DEF ConsumeNativePreparation, MayConsume
<1>7. CASE NativeNotRun
  BY <1>7 DEF NativeNotRun, RunnerMoves
<1> QED BY <1>1, <1>2, <1>3, <1>4, <1>5, <1>6, <1>7 DEF PrepareStep

(* The backend keeps the cleanup invariant.                                 *)
LEMMA BackendCleanup ==
  ASSUME TypeOK, LaunchInv, HonestInv, CleanupInv, BackendStep
  PROVE  CleanupInv'
<1> USE ThreadsDistinct, ResourcesDistinct
<1> USE DEF CleanupInv, Placed, RegisteredFirst, BackendHeld, Finalized, SettledOver, OwnersOnce,
            VisitedOver, TypeOK, LaunchInv, CloserCalls, RunnerCalls, PhaseAgrees, CloserEarly,
            ExecutableHeld, WorkerTargets, HonestInv, ObservationAgrees, OneFinalizer, GateAlone,
            TargetVisited, BeforeOrIn, BeforeEnd, Executing, InFinalize, InRelease, InLoop,
            Visited, Owners, Over, Resources, Goto, Call, lifecycle, runner
<1>1. CASE RegisterSink
  BY <1>1 DEF RegisterSink, RunnerRegisters, Register, MayRegister
<1>2. CASE RegisterBackend
  BY <1>2 DEF RegisterBackend, RunnerRegisters, Register, MayRegister
<1>3. CASE GateClosesExecutable
  BY <1>3 DEF GateClosesExecutable, CloseBegin
<1>4. CASE GateClosed
  BY <1>4 DEF GateClosed, CloseEnd
<1>5. CASE LaunchFails
  BY <1>5 DEF LaunchFails, RunnerMoves
<1>6. CASE RegisterHandle
  BY <1>6 DEF RegisterHandle, RunnerRegisters, Register, MayRegister
<1>7. CASE HandlesRegistered
  BY <1>7 DEF HandlesRegistered, RunnerMoves
<1>8. CASE TransferToDescriptor
  BY <1>8 DEF TransferToDescriptor
<1>9. CASE DescriptorsTransferred
  BY <1>9 DEF DescriptorsTransferred, RunnerMoves
<1>10. CASE StartWorker
  BY <1>10 DEF StartWorker, MayRegister
<1>11. CASE WorkersStarted
  BY <1>11 DEF WorkersStarted, RunnerMoves
<1>12. CASE WorkEnds
  BY <1>12 DEF WorkEnds, RunnerMoves
<1>13. CASE JoinWorkers
  BY <1>13 DEF JoinWorkers, RunnerMoves
<1> QED BY <1>1, <1>2, <1>3, <1>4, <1>5, <1>6, <1>7, <1>8, <1>9, <1>10, <1>11, <1>12, <1>13 DEF BackendStep

(* The end of the run keeps the cleanup invariant.                          *)
LEMMA RunEndCleanup ==
  ASSUME TypeOK, LaunchInv, HonestInv, CleanupInv, RunEndStep
  PROVE  CleanupInv'
<1> USE ThreadsDistinct, ResourcesDistinct
<1> USE DEF CleanupInv, Placed, RegisteredFirst, BackendHeld, Finalized, SettledOver, OwnersOnce,
            VisitedOver, TypeOK, LaunchInv, CloserCalls, RunnerCalls, PhaseAgrees, CloserEarly,
            ExecutableHeld, WorkerTargets, HonestInv, ObservationAgrees, OneFinalizer, GateAlone,
            TargetVisited, BeforeOrIn, BeforeEnd, Executing, InFinalize, InRelease, InLoop,
            Visited, Owners, Over, Resources, Goto, Call, lifecycle, runner
<1>1. CASE BackendFinalizes
  BY <1>1 DEF BackendFinalizes, RunnerFinalizes
<1>2. CASE RunFinalizes
  BY <1>2 DEF RunFinalizes, RunnerFinalizes
<1>3. CASE RunReleases
  BY <1>3 DEF RunReleases
<1>4. CASE PreparedClose
  BY <1>4 DEF PreparedClose, FinalizeIdle, Closable
<1>5. CASE PlainRunOver
  BY <1>5 DEF PlainRunOver, RunnerMoves
<1>6. CASE PreparedClosed
  BY <1>6 DEF PreparedClosed
<1> QED BY <1>1, <1>2, <1>3, <1>4, <1>5, <1>6 DEF RunEndStep

(* Closing the runner keeps the cleanup invariant.                          *)
LEMMA CloserCleanup ==
  ASSUME TypeOK, LaunchInv, HonestInv, CleanupInv, CloserStep
  PROVE  CleanupInv'
<1> USE ThreadsDistinct, ResourcesDistinct
<1> USE DEF CleanupInv, Placed, RegisteredFirst, BackendHeld, Finalized, SettledOver, OwnersOnce,
            VisitedOver, TypeOK, LaunchInv, CloserCalls, RunnerCalls, PhaseAgrees, CloserEarly,
            ExecutableHeld, WorkerTargets, HonestInv, ObservationAgrees, OneFinalizer, GateAlone,
            TargetVisited, BeforeOrIn, BeforeEnd, Executing, InFinalize, InRelease, InLoop,
            Visited, Owners, Over, Resources, Goto, Call, lifecycle, runner
<1>1. CASE RunnerClose
  BY <1>1 DEF RunnerClose
<1>2. CASE RequestCancel
  BY <1>2 DEF RequestCancel
<1>3. CASE ClosePass1
  BY <1>3 DEF ClosePass1, FinalizeIdle, Closable
<1>4. CASE ClosePass2
  BY <1>4 DEF ClosePass2, FinalizeIdle, Closable
<1>5. CASE CloserReleases("ret1", "pass2")
  BY <1>5 DEF CloserReleases
<1>6. CASE CloserReleases("ret2", "await")
  BY <1>6 DEF CloserReleases
<1>7. CASE CloseAwaits
  BY <1>7 DEF CloseAwaits
<1>8. CASE CloseReports
  BY <1>8 DEF CloseReports
<1> QED BY <1>1, <1>2, <1>3, <1>4, <1>5, <1>6, <1>7, <1>8 DEF CloserStep

(* A pipe thread keeps the cleanup invariant.                               *)
LEMMA WorkerCleanup ==
  ASSUME TypeOK, LaunchInv, HonestInv, CleanupInv, NEW p \in Pipes, WorkerStep(p)
  PROVE  CleanupInv'
<1> USE ThreadsDistinct, ResourcesDistinct
<1> USE DEF CleanupInv, Placed, RegisteredFirst, BackendHeld, Finalized, SettledOver, OwnersOnce,
            VisitedOver, TypeOK, LaunchInv, CloserCalls, RunnerCalls, PhaseAgrees, CloserEarly,
            ExecutableHeld, WorkerTargets, HonestInv, ObservationAgrees, OneFinalizer, GateAlone,
            TargetVisited, BeforeOrIn, BeforeEnd, Executing, InFinalize, InRelease, InLoop,
            Visited, Owners, Over, Resources, Goto, Call, lifecycle, runner
<1>1. CASE WorkerEnds(p)
  BY <1>1 DEF WorkerEnds, CloseBegin
<1>2. CASE WorkerClosed(p)
  BY <1>2 DEF WorkerClosed, CloseEnd
<1> QED BY <1>1, <1>2 DEF WorkerStep

(* CleanupInv is an invariant.                                              *)
LEMMA CleanupInvariant == Spec => [](TypeOK /\ LaunchInv /\ HonestInv /\ CleanupInv)
<1>1. Init => CleanupInv
  BY ThreadsDistinct DEF Init, CleanupInv, Placed, RegisteredFirst, BackendHeld, Finalized,
     SettledOver, OwnersOnce, VisitedOver, BeforeEnd, Executing, InFinalize, InRelease,
     Owners, InLoop, Resources
<1>2. TypeOK /\ LaunchInv /\ HonestInv /\ CleanupInv /\ [Next]_vars => CleanupInv'
  <2> SUFFICES ASSUME TypeOK, LaunchInv, HonestInv, CleanupInv, [Next]_vars PROVE CleanupInv'
    OBVIOUS
  <2>1. CASE \E t \in Finalizers : FinalizerStep(t) \/ Expire(t)  BY <2>1, FinalizerCleanup
  <2>2. CASE RunnerStep
    BY <2>2, PrepareCleanup, BackendCleanup, RunEndCleanup DEF RunnerStep
  <2>3. CASE CloserStep  BY <2>3, CloserCleanup
  <2>4. CASE \E p \in Pipes : WorkerStep(p)  BY <2>4, WorkerCleanup
  <2>5. CASE UNCHANGED vars
    BY <2>5 DEF vars, lifecycle, runner, locals, CleanupInv, Placed, RegisteredFirst,
       BackendHeld, Finalized, SettledOver, OwnersOnce, VisitedOver, InLoop, Visited
  <2> QED BY <2>1, <2>2, <2>3, <2>4, <2>5 DEF Next, Done
<1> QED BY <1>1, <1>2, HonestInvariant, PTL DEF Spec

(* When run, close and the pipe threads' owners have all returned, what is  *)
(* still open was reported: nothing leaks silently, whichever thread ran    *)
(* finalize_once and whenever its deadline passed.                          *)
THEOREM NoSilentLeak == Spec => []LeaksAreReported
<1>1. TypeOK /\ HonestInv /\ CleanupInv => LeaksAreReported
  BY DEF TypeOK, Terminal, HonestInv, ObservationAgrees, CleanupInv, Finalized, InLoop,
     BeforeEnd, Executing, LeaksAreReported
<1> QED BY <1>1, CleanupInvariant, PTL

(* wait_settled is enough evidence for close: a settled run executes no     *)
(* more, nobody is inside a close action, and a prepared launch is settled  *)
(* with everything closed.                                                  *)
THEOREM SettledIsOver == Spec => []SettledMeansOver
<1> USE DEF Finalizers
<1>1. ASSUME TypeOK, LaunchInv, HonestInv, CleanupInv, settled
      PROVE  lstate # "not-started" /\ (phase # "none" => lstate = "complete" /\ closedObs)
  BY <1>1 DEF CleanupInv, SettledOver, Finalized
<1>2. ASSUME TypeOK, LaunchInv, HonestInv, CleanupInv, settled
      PROVE  pc[Runner] \notin Executing
  <2>1. CASE phase = "none"
    BY <1>2, <2>1 DEF CleanupInv, SettledOver, Executing
  <2>2. CASE lstate = "complete"
    <3>1. \A r \in Resources : rstate[r] \in {"ABSENT", "CLOSED"}
      BY <2>2, <1>2 DEF CleanupInv, Finalized, RegisteredFirst
    <3>2. rstate[Exe] # "OWNED" /\ rstate[Backend] # "OWNED"
      BY <3>1 DEF Resources
    <3> QED BY <3>2, <1>2 DEF LaunchInv, ExecutableHeld, CleanupInv, BackendHeld, Executing
  <2> QED BY <1>2, <2>1, <2>2 DEF CleanupInv, SettledOver
<1>3. ASSUME TypeOK, LaunchInv, HonestInv, CleanupInv, settled, NEW t \in Finalizers
      PROVE  pc[t] # "closing"
  BY <1>3 DEF HonestInv, OneFinalizer, InLoop, CleanupInv, SettledOver, LaunchInv, CloserCalls,
     InFinalize
<1>4. TypeOK /\ LaunchInv /\ HonestInv /\ CleanupInv => SettledMeansOver
  BY <1>1, <1>2, <1>3 DEF SettledMeansOver
<1> QED BY <1>4, CleanupInvariant, PTL

(* The executable, the sink and the backend are closed by one attempt,      *)
(* which the run, close and the prepared launch share.                      *)
THEOREM OwnersOneAttempt == Spec => []OwnersCloseOnce
<1>1. CleanupInv => OwnersCloseOnce
  BY DEF CleanupInv, OwnersOnce, Owners, OwnersCloseOnce
<1> QED BY <1>1, CleanupInvariant, PTL

-----------------------------------------------------------------------------
(* Nothing of a complete lifecycle changes.                                 *)
Final == UNCHANGED <<lstate, registered, rstate, closedObs, issues, calls>>

(* Complete excludes every place from which a resource could be touched.    *)
LEMMA CompletePlaces ==
  ASSUME TypeOK, LaunchInv, HonestInv, CleanupInv, lstate = "complete"
  PROVE  /\ pc[Runner] \notin Executing
         /\ \A t \in Finalizers : ~InLoop(t)
         /\ \A p \in Pipes : pc[p] \in {"idleThread", "exited"}
<1>1. \A r \in Resources : rstate[r] \in {"ABSENT", "CLOSED"}
  BY DEF CleanupInv, Finalized, RegisteredFirst
<1>2. rstate[Exe] # "OWNED" /\ rstate[Backend] # "OWNED"
  BY <1>1 DEF Resources
<1>3. pc[Runner] \notin Executing
  BY <1>2 DEF LaunchInv, ExecutableHeld, CleanupInv, BackendHeld, Executing
<1> QED BY <1>3 DEF CleanupInv, Finalized, HonestInv, OneFinalizer

(* A complete lifecycle stays as it was reported: no later call registers,  *)
(* closes or re-reports anything.                                           *)
THEOREM CompleteStays == Spec => CompleteIsFinal
<1>1. ASSUME TypeOK, LaunchInv, HonestInv, CleanupInv, [Next]_vars, lstate = "complete"
      PROVE  Final
  <2> USE <1>1, CompletePlaces DEF Final, lifecycle, runner, Executing, InLoop
  <2>1. ASSUME NEW t \in Finalizers, FinalizerStep(t) \/ Expire(t) PROVE Final
    BY <2>1 DEF FinalizerStep, Expire, FinalizeEnter, FinalizeWait, FinalizeVisit,
       FinalizeClosed, FinalizeEnd, Release, Pop, Terminal
  <2>2. CASE PrepareStep
    BY <2>2 DEF PrepareStep, BeginLifecycle, AcquireExecutable, RunnerRegisters, MayRegister,
       AdmissionFails, RunnerFinalizes, AdmitPlainRun, RunnerMoves, FinishNativePreparation,
       ConsumeNativePreparation, NativeNotRun
  <2>3. CASE BackendStep
    BY <2>3 DEF BackendStep, RegisterSink, RegisterBackend, GateClosesExecutable, GateClosed,
       LaunchFails, RegisterHandle, HandlesRegistered, TransferToDescriptor,
       DescriptorsTransferred, StartWorker, WorkersStarted, WorkEnds, JoinWorkers,
       RunnerRegisters, RunnerMoves
  <2>4. CASE RunEndStep
    BY <2>4 DEF RunEndStep, BackendFinalizes, RunFinalizes, RunReleases, PreparedClose,
       PlainRunOver, PreparedClosed, RunnerFinalizes, RunnerMoves, FinalizeIdle
  <2>5. CASE CloserStep
    BY <2>5 DEF CloserStep, RunnerClose, RequestCancel, ClosePass1, ClosePass2,
       CloserReleases, CloseAwaits, CloseReports, FinalizeIdle
  <2>6. ASSUME NEW p \in Pipes, WorkerStep(p) PROVE Final
    BY <2>6 DEF WorkerStep, WorkerEnds, WorkerClosed
  <2>7. CASE UNCHANGED vars
    BY <2>7 DEF vars
  <2> QED BY <2>1, <2>2, <2>3, <2>4, <2>5, <2>6, <2>7 DEF Next, RunnerStep, Done
<1>2. TypeOK /\ LaunchInv /\ HonestInv /\ CleanupInv /\ [Next]_vars
      => [lstate = "complete" => UNCHANGED <<lstate, registered, rstate, closedObs, issues, calls>>]_vars
  BY <1>1 DEF Final
<1> QED BY <1>2, CleanupInvariant, PTL DEF Spec, CompleteIsFinal

-----------------------------------------------------------------------------
(* A finalizer comes from the loop into a close action only by a visit of   *)
(* its own.                                                                 *)
LEMMA OnlyByVisit ==
  ASSUME TypeOK, LaunchInv, [Next]_vars, NEW t \in Finalizers, pc[t] = "loop", pc'[t] = "closing"
  PROVE  FinalizeVisit(t)
<1> USE ThreadsDistinct DEF TypeOK, Goto, Call, Finalizers, Threads
<1>1. ASSUME NEW s \in Finalizers, FinalizerStep(s) \/ Expire(s), ~FinalizeVisit(s)
      PROVE  FALSE
  <2>1. pc' = pc \/ pc' = [pc EXCEPT ![s] = pc'[s]]
    BY <1>1 DEF FinalizerStep, Expire, FinalizeEnter, FinalizeWait, Return,
       FinalizeClosed, FinalizeEnd, Release, Pop
  <2>2. s = t
    BY <2>1
  <2>3. cont[t] # "closing"
    BY DEF LaunchInv, RunnerCalls, CloserCalls, InFinalize
  <2> QED BY <1>1, <2>2, <2>3 DEF FinalizerStep, Expire, FinalizeEnter, FinalizeWait,
          FinalizeClosed, FinalizeEnd, Release, Pop
<1>2. ASSUME NEW s \in Finalizers, FinalizeVisit(s) PROVE s = t
  BY <1>2 DEF FinalizeVisit, PassOver
<1>3. CASE PrepareStep
  BY <1>3 DEF PrepareStep, BeginLifecycle, AcquireExecutable, RunnerRegisters,
     AdmissionFails, RunnerFinalizes, AdmitPlainRun, RunnerMoves, FinishNativePreparation,
     ConsumeNativePreparation, NativeNotRun
<1>4. CASE BackendStep
  BY <1>4 DEF BackendStep, RegisterSink, RegisterBackend, GateClosesExecutable, GateClosed,
     LaunchFails, RegisterHandle, HandlesRegistered, TransferToDescriptor,
     DescriptorsTransferred, StartWorker, WorkersStarted, WorkEnds, JoinWorkers,
     RunnerRegisters, RunnerMoves
<1>5. CASE RunEndStep
  BY <1>5 DEF RunEndStep, BackendFinalizes, RunFinalizes, RunReleases, PreparedClose,
     PlainRunOver, PreparedClosed, RunnerFinalizes, RunnerMoves, FinalizeIdle
<1>6. CASE CloserStep
  BY <1>6 DEF CloserStep, RunnerClose, RequestCancel, ClosePass1, ClosePass2,
     CloserReleases, CloseAwaits, CloseReports, FinalizeIdle
<1>7. ASSUME NEW p \in Pipes, WorkerStep(p) PROVE FALSE
  BY <1>7 DEF WorkerStep, WorkerEnds, WorkerClosed
<1>8. CASE UNCHANGED vars
  BY <1>8 DEF vars, locals
<1> QED BY <1>1, <1>2, <1>3, <1>4, <1>5, <1>6, <1>7, <1>8 DEF Next, RunnerStep, Done

(* What a finalizer has dealt with before it starts a close action.         *)
LEMMA VisitInOrder ==
  ASSUME TypeOK, HonestInv, CleanupInv, NEW t \in Finalizers, FinalizeVisit(t), pc'[t] = "closing",
         NEW s \in registered, Rank[s] > Rank[target'[t]]
  PROVE  rstate[s] \in Over
<1> USE DEF Finalizers, Threads
<1>1. PICK r \in todo[t] :
        /\ Follows(todo[t], r)
        /\ PassOver(t, r) \/ (~expired[t] /\ CloseBegin(t, r))
  BY DEF FinalizeVisit
<1>2. pc[t] = "loop"
  BY DEF FinalizeVisit
<1>3. ~PassOver(t, r)
  BY <1>2 DEF PassOver
<1>4. ~expired[t] /\ target'[t] = r
  BY <1>1, <1>3 DEF CloseBegin, TypeOK
<1>5. r \in Resources /\ s \in Resources
  BY <1>1 DEF TypeOK
<1>6. s \notin todo[t]
  <2>1. Rank[r] \in Nat /\ Rank[s] \in Nat
    BY <1>5, RankOrder
  <2> QED BY <1>1, <1>4, <2>1 DEF Follows
<1> QED BY <1>2, <1>4, <1>5, <1>6 DEF CleanupInv, VisitedOver, Visited, InLoop

(* Cleanup is in reverse order of registration, for any set of pipes and    *)
(* any order of their registration.                                         *)
THEOREM ReverseInAnyRun == Spec => ReverseOrder
<1>1. TypeOK /\ LaunchInv /\ HonestInv /\ CleanupInv /\ [Next]_vars
      => [\A t \in Finalizers : (pc[t] = "loop" /\ pc'[t] = "closing") =>
            \A s \in registered :
              Rank[s] > Rank[target'[t]] => rstate[s] \in {"CLOSED", "CLOSE_UNCERTAIN"}]_vars
  BY OnlyByVisit, VisitInOrder DEF Over
<1> QED BY <1>1, CleanupInvariant, PTL DEF Spec, ReverseOrder
=============================================================================
