------------------------- MODULE RunLifecycleProofs -------------------------
(* Proofs about RunLifecycle for any set of pipes.                          *)
EXTENDS RunLifecycle, TLAPS

(* The variables that hold a thread's own place in the program.             *)
USE DEF Finalizers, Threads

(* The places by name, so that the list itself can stay folded.             *)
LEMMA PlaceNames ==
  /\ "acquire" \in Places /\ "prepared" \in Places /\ "idle" \in Places
  /\ "admitted" \in Places /\ "backend" \in Places /\ "gate" \in Places
  /\ "gateClosing" \in Places /\ "register" \in Places /\ "transfer" \in Places
  /\ "start" \in Places /\ "work" \in Places /\ "join" \in Places
  /\ "final" \in Places /\ "final2" \in Places /\ "ran" \in Places
  /\ "over" \in Places /\ "prepRet" \in Places /\ "enter" \in Places
  /\ "wait" \in Places /\ "loop" \in Places /\ "closing" \in Places
  /\ "release" \in Places /\ "pop" \in Places /\ "request" \in Places
  /\ "pass1" \in Places /\ "ret1" \in Places /\ "pass2" \in Places
  /\ "ret2" \in Places /\ "await" \in Places /\ "ret3" \in Places
  /\ "reading" \in Places /\ "exited" \in Places /\ "done" \in Places
  /\ "begin" \in Places /\ "closeStart" \in Places /\ "idleThread" \in Places
BY DEF Places

(* The step of a finalizer, whichever thread it is, preserves the types.    *)
LEMMA FinalizerType ==
  ASSUME TypeOK, NEW t \in Finalizers, FinalizerStep(t) \/ Expire(t)
  PROVE  TypeOK'
<1> USE ThreadsDistinct, BoundsAreValues, PlaceNames
<1> USE DEF TypeOK, Terminal, Issues, Ownership, NotClosed, Incomplete, RStates, Phases,
            Goto, Return, lifecycle, runner
<1>1. CASE FinalizeEnter(t)
  <2>1. UNCHANGED <<runner, cont, target, expired, verdict, calls>>
    BY <1>1 DEF FinalizeEnter
  <2>2. CASE Return(t) /\ UNCHANGED <<lifecycle, todo, mine>>
    BY <2>1, <2>2
  <2>3. CASE Goto(t, "wait") /\ UNCHANGED <<lifecycle, todo, mine, ret>>
    BY <2>1, <2>3
  <2>4. CASE /\ lstate' = "running"
             /\ phase' \in Phases
             /\ mine' = [mine EXCEPT ![t] = issues]
             /\ todo' = [todo EXCEPT ![t] = registered]
             /\ Goto(t, "loop")
             /\ UNCHANGED <<cancel, settled, registered, rstate, closedObs, issues, ret>>
    BY <2>1, <2>4
  <2> QED BY <1>1, <2>2, <2>3, <2>4 DEF FinalizeEnter
<1>2. CASE FinalizeWait(t)   BY <1>2 DEF FinalizeWait
<1>3. CASE FinalizeVisit(t)  BY <1>3 DEF FinalizeVisit, PassOver, CloseBegin
<1>4. CASE FinalizeClosed(t) BY <1>4 DEF FinalizeClosed, CloseEnd
<1>5. CASE FinalizeEnd(t)    BY <1>5 DEF FinalizeEnd, Outcome
<1>6. CASE Release(t)
  <2>1. CASE KeepsUnsettled
    <3>1. Goto(t, cont[t]) /\ UNCHANGED settled  BY <1>6, <2>1 DEF Release
    <3> QED BY <1>6, <3>1 DEF Release
  <2>2. CASE ~KeepsUnsettled
    <3>1. Goto(t, "pop") /\ settled' = TRUE  BY <1>6, <2>2 DEF Release
    <3> QED BY <1>6, <3>1 DEF Release
  <2> QED BY <2>1, <2>2
<1>7. CASE Pop(t)
  <2>1. active' = FALSE /\ Goto(t, cont[t])
    BY <1>7 DEF Pop
  <2>2. UNCHANGED <<lifecycle, runnerClosed, cont, todo, target, mine, expired, ret, verdict, calls>>
    BY <1>7 DEF Pop
  <2>3. pc' \in [Threads -> Places]
    BY <2>1
  <2>4. UNCHANGED <<lifecycle, cont, todo, target, mine, expired, ret, verdict, calls>>
        /\ runnerClosed' = runnerClosed /\ active' \in BOOLEAN
    BY <2>1, <2>2
  <2> QED BY <2>3, <2>4
<1>8. CASE Expire(t)         BY <1>8 DEF Expire
<1> QED BY <1>1, <1>2, <1>3, <1>4, <1>5, <1>6, <1>7, <1>8 DEF FinalizerStep

(* Preparation and admission preserve the types. *)
LEMMA PrepareType ==
  ASSUME TypeOK, PrepareStep
  PROVE  TypeOK'
<1> USE ThreadsDistinct, BoundsAreValues, PlaceNames
<1> USE DEF TypeOK, Terminal, Issues, Ownership, NotClosed, Incomplete, RStates, Phases,
            Goto, Return, lifecycle, runner, Resources, Call
<1>1. CASE BeginLifecycle
  <2>1. CASE runnerClosed   BY <1>1, <2>1 DEF BeginLifecycle
  <2>2. CASE ~runnerClosed
    <3>1. active' = TRUE /\ phase' \in {"none", "preparing"} /\ Goto(Runner, "acquire")
      BY <1>1, <2>2 DEF BeginLifecycle
    <3> QED BY <1>1, <3>1 DEF BeginLifecycle
  <2> QED BY <2>1, <2>2
<1>2. CASE AcquireExecutable
  BY <1>2 DEF AcquireExecutable, RunnerRegisters, Register
<1>3. CASE AdmissionFails
  BY <1>3 DEF AdmissionFails, RunnerFinalizes
<1>4. CASE AdmitPlainRun
  BY <1>4 DEF AdmitPlainRun, RunnerMoves
<1>5. CASE FinishNativePreparation
  BY <1>5 DEF FinishNativePreparation
<1>6. CASE ConsumeNativePreparation
  BY <1>6 DEF ConsumeNativePreparation
<1>7. CASE NativeNotRun
  BY <1>7 DEF NativeNotRun, RunnerMoves
<1> QED BY <1>1, <1>2, <1>3, <1>4, <1>5, <1>6, <1>7 DEF PrepareStep


(* The steps inside the backend preserve the types. *)
LEMMA BackendType ==
  ASSUME TypeOK, BackendStep
  PROVE  TypeOK'
<1> USE ThreadsDistinct, BoundsAreValues, PlaceNames
<1> USE DEF TypeOK, Terminal, Issues, Ownership, NotClosed, Incomplete, RStates, Phases,
            Goto, Return, lifecycle, runner, Resources, Call
<1>1. CASE RegisterSink
  BY <1>1 DEF RegisterSink, RunnerRegisters, Register
<1>2. CASE RegisterBackend
  BY <1>2 DEF RegisterBackend, RunnerRegisters, Register
<1>3. CASE GateClosesExecutable
  BY <1>3 DEF GateClosesExecutable, CloseBegin
<1>4. CASE GateClosed
  BY <1>4 DEF GateClosed, CloseEnd
<1>5. CASE LaunchFails
  <2>1. PICK to \in {"final", "final2"} : Goto(Runner, to)
    BY <1>5 DEF LaunchFails, RunnerMoves
  <2>2. UNCHANGED <<lifecycle, runner, cont, todo, target, mine, expired, ret, verdict, calls>>
    BY <1>5 DEF LaunchFails, RunnerMoves
  <2> QED BY <2>1, <2>2
<1>6. CASE RegisterHandle
  BY <1>6 DEF RegisterHandle, RunnerRegisters, Register
<1>7. CASE HandlesRegistered
  BY <1>7 DEF HandlesRegistered, RunnerMoves
<1>8. CASE TransferToDescriptor
  BY <1>8 DEF TransferToDescriptor
<1>9. CASE DescriptorsTransferred
  BY <1>9 DEF DescriptorsTransferred, RunnerMoves
<1>10. CASE StartWorker
  BY <1>10 DEF StartWorker
<1>11. CASE WorkersStarted
  BY <1>11 DEF WorkersStarted, RunnerMoves
<1>12. CASE WorkEnds
  BY <1>12 DEF WorkEnds, RunnerMoves
<1>13. CASE JoinWorkers
  BY <1>13 DEF JoinWorkers, RunnerMoves
<1> QED BY <1>1, <1>2, <1>3, <1>4, <1>5, <1>6, <1>7, <1>8, <1>9, <1>10, <1>11, <1>12, <1>13 DEF BackendStep


(* The end of the run preserves the types. *)
LEMMA RunEndType ==
  ASSUME TypeOK, RunEndStep
  PROVE  TypeOK'
<1> USE ThreadsDistinct, BoundsAreValues, PlaceNames
<1> USE DEF TypeOK, Terminal, Issues, Ownership, NotClosed, Incomplete, RStates, Phases,
            Goto, Return, lifecycle, runner, Resources, Call
<1>1. CASE BackendFinalizes
  BY <1>1 DEF BackendFinalizes, RunnerFinalizes
<1>2. CASE RunFinalizes
  BY <1>2 DEF RunFinalizes, RunnerFinalizes
<1>3. CASE RunReleases
  BY <1>3 DEF RunReleases
<1>4. CASE PreparedClose
  BY <1>4 DEF PreparedClose, FinalizeIdle
<1>5. CASE PlainRunOver
  BY <1>5 DEF PlainRunOver, RunnerMoves
<1>6. CASE PreparedClosed
  BY <1>6 DEF PreparedClosed
<1> QED BY <1>1, <1>2, <1>3, <1>4, <1>5, <1>6 DEF RunEndStep


(* Closing the runner preserves the types. *)
LEMMA CloserType ==
  ASSUME TypeOK, CloserStep
  PROVE  TypeOK'
<1> USE ThreadsDistinct, BoundsAreValues, PlaceNames
<1> USE DEF TypeOK, Terminal, Issues, Ownership, NotClosed, Incomplete, RStates, Phases,
            Goto, Return, lifecycle, runner, Resources, Call
<1>1. CASE RunnerClose
  BY <1>1 DEF RunnerClose
<1>2. CASE RequestCancel
  BY <1>2 DEF RequestCancel
<1>3. CASE ClosePass1
  BY <1>3 DEF ClosePass1, FinalizeIdle
<1>4. CASE ClosePass2
  BY <1>4 DEF ClosePass2, FinalizeIdle
<1>5. CASE CloserReleases("ret1", "pass2")
  BY <1>5 DEF CloserReleases
<1>6. CASE CloserReleases("ret2", "await")
  BY <1>6 DEF CloserReleases
<1>7. CASE CloseAwaits
  BY <1>7 DEF CloseAwaits
<1>8. CASE CloseReports
  BY <1>8 DEF CloseReports
<1> QED BY <1>1, <1>2, <1>3, <1>4, <1>5, <1>6, <1>7, <1>8 DEF CloserStep


(* A pipe thread preserves the types. *)
LEMMA WorkerType ==
  ASSUME TypeOK, NEW p \in Pipes, WorkerStep(p)
  PROVE  TypeOK'
<1> USE ThreadsDistinct, BoundsAreValues, PlaceNames
<1> USE DEF TypeOK, Terminal, Issues, Ownership, NotClosed, Incomplete, RStates, Phases,
            Goto, Return, lifecycle, runner, Resources, Call
<1>1. CASE WorkerEnds(p)
  BY <1>1 DEF WorkerEnds, CloseBegin
<1>2. CASE WorkerClosed(p)
  BY <1>2 DEF WorkerClosed, CloseEnd
<1> QED BY <1>1, <1>2 DEF WorkerStep


(* Every state of every behaviour has the types of TypeOK.                  *)
THEOREM TypeCorrect == Spec => []TypeOK
<1>1. Init => TypeOK
  <2> SUFFICES ASSUME Init PROVE TypeOK
    OBVIOUS
  <2> USE DEF Init
  <2>1. pc \in [Threads -> Places] /\ cont \in [Finalizers -> Places]
    BY PlaceNames
  <2>2. calls \in [Resources -> 0..MaxCalls]
    BY BoundsAreValues
  <2>3. target \in [Threads -> Resources]
    BY DEF Resources
  <2>4. /\ rstate \in [Resources -> RStates]
        /\ todo \in [Finalizers -> SUBSET Resources]
        /\ mine \in [Finalizers -> SUBSET Issues]
        /\ expired \in [Finalizers -> BOOLEAN]
        /\ ret \in [Finalizers -> BOOLEAN]
    BY DEF RStates
  <2> QED BY <2>1, <2>2, <2>3, <2>4 DEF TypeOK, Phases
<1>2. TypeOK /\ [Next]_vars => TypeOK'
  <2> SUFFICES ASSUME TypeOK, [Next]_vars PROVE TypeOK'
    OBVIOUS
  <2>1. CASE \E t \in Finalizers : FinalizerStep(t) \/ Expire(t)  BY <2>1, FinalizerType
  <2>2. CASE RunnerStep  BY <2>2, PrepareType, BackendType, RunEndType DEF RunnerStep
  <2>3. CASE CloserStep  BY <2>3, CloserType
  <2>4. CASE \E p \in Pipes : WorkerStep(p)  BY <2>4, WorkerType
  <2>5. CASE UNCHANGED vars
    BY <2>5 DEF vars, lifecycle, runner, locals, TypeOK
  <2> QED BY <2>1, <2>2, <2>3, <2>4, <2>5 DEF Next, Done
<1> QED BY <1>1, <1>2, PTL DEF Spec

-----------------------------------------------------------------------------
(* Who may close what the run uses. A closer that took over a prepared      *)
(* launch (it goes on at ret1 or ret2) has marked it closing, so the Runner *)
(* cannot start it any more; one whose deadline has passed (it goes on at   *)
(* ret3) only lists what it did not close.                                  *)
InFinalize == {"enter", "wait", "loop", "closing"}
InRelease  == {"release", "pop"}

CloserCalls ==
  /\ pc[Closer] \in InFinalize =>
       \/ cont[Closer] \in {"ret1", "ret2"} /\ phase = "closing"
       \/ cont[Closer] = "ret3" /\ expired[Closer] /\ pc[Closer] # "closing"
  /\ pc[Closer] \in InRelease => cont[Closer] \in {"pass2", "await"}

RunnerCalls ==
  pc[Runner] \in InFinalize \cup InRelease =>
    cont[Runner] \in {"final2", "ran", "prepRet", "over", "done"}

(* The Closer has not yet come to await the runs still in progress.         *)
CloserEarly ==
  \/ pc[Closer] \in {"closeStart", "request", "pass1", "ret1", "pass2", "ret2"} \cup InRelease
  \/ pc[Closer] \in InFinalize /\ cont[Closer] # "ret3"

BeforeOrIn == {"begin", "acquire", "prepared"} \cup Executing

PhaseAgrees ==
  /\ pc[Runner] = "begin" => phase = "none"
  /\ phase = "preparing" => pc[Runner] \notin Executing
  /\ phase = "idle" => pc[Runner] \notin BeforeOrIn
  /\ phase = "closing" /\ CloserEarly => pc[Runner] \notin BeforeOrIn

ExecutableHeld ==
  (\/ pc[Runner] \in {"prepared", "admitted", "backend", "gate"}
   \/ pc[Runner] = "idle" /\ phase = "idle")
  => rstate[Exe] = "OWNED"

WorkerTargets == \A p \in Pipes : pc[p] = "closing" => target[p] = p

LaunchInv ==
  CloserCalls /\ RunnerCalls /\ PhaseAgrees /\ ExecutableHeld /\ WorkerTargets

(* A finalizer keeps the launch invariant.                                  *)
LEMMA FinalizerLaunch ==
  ASSUME TypeOK, LaunchInv, NEW t \in Finalizers, FinalizerStep(t) \/ Expire(t)
  PROVE  LaunchInv'
<1> USE ThreadsDistinct
<1> USE DEF TypeOK, LaunchInv, CloserCalls, RunnerCalls, PhaseAgrees, ExecutableHeld, WorkerTargets,
            CloserEarly, BeforeOrIn, Executing, InFinalize, InRelease, Goto, Call, lifecycle,
            runner, Resources
<1>1. CASE FinalizeEnter(t)
  BY <1>1 DEF FinalizeEnter, Return
<1>2. CASE FinalizeWait(t)
  BY <1>2 DEF FinalizeWait, Return
<1>3. CASE FinalizeVisit(t)
  BY <1>3 DEF FinalizeVisit, PassOver, CloseBegin
<1>4. CASE FinalizeClosed(t)
  BY <1>4 DEF FinalizeClosed, CloseEnd
<1>5. CASE FinalizeEnd(t)
  BY <1>5 DEF FinalizeEnd
<1>6. CASE Release(t)
  BY <1>6 DEF Release
<1>7. CASE Pop(t)
  BY <1>7 DEF Pop
<1>8. CASE Expire(t)
  BY <1>8 DEF Expire
<1> QED BY <1>1, <1>2, <1>3, <1>4, <1>5, <1>6, <1>7, <1>8 DEF FinalizerStep

(* Preparation and admission keep the launch invariant.                     *)
LEMMA PrepareLaunch ==
  ASSUME TypeOK, LaunchInv, PrepareStep
  PROVE  LaunchInv'
<1> USE ThreadsDistinct
<1> USE DEF TypeOK, LaunchInv, CloserCalls, RunnerCalls, PhaseAgrees, ExecutableHeld, WorkerTargets,
            CloserEarly, BeforeOrIn, Executing, InFinalize, InRelease, Goto, Call, lifecycle,
            runner, Resources
<1>1. CASE BeginLifecycle
  BY <1>1 DEF BeginLifecycle
<1>2. CASE AcquireExecutable
  BY <1>2 DEF AcquireExecutable, RunnerRegisters, Register
<1>3. CASE AdmissionFails
  BY <1>3 DEF AdmissionFails, RunnerFinalizes
<1>4. CASE AdmitPlainRun
  BY <1>4 DEF AdmitPlainRun, RunnerMoves
<1>5. CASE FinishNativePreparation
  BY <1>5 DEF FinishNativePreparation
<1>6. CASE ConsumeNativePreparation
  BY <1>6 DEF ConsumeNativePreparation, MayConsume
<1>7. CASE NativeNotRun
  BY <1>7 DEF NativeNotRun, RunnerMoves
<1> QED BY <1>1, <1>2, <1>3, <1>4, <1>5, <1>6, <1>7 DEF PrepareStep

(* The backend keeps the launch invariant.                                  *)
LEMMA BackendLaunch ==
  ASSUME TypeOK, LaunchInv, BackendStep
  PROVE  LaunchInv'
<1> USE ThreadsDistinct
<1> USE DEF TypeOK, LaunchInv, CloserCalls, RunnerCalls, PhaseAgrees, ExecutableHeld, WorkerTargets,
            CloserEarly, BeforeOrIn, Executing, InFinalize, InRelease, Goto, Call, lifecycle,
            runner, Resources
<1>1. CASE RegisterSink
  BY <1>1 DEF RegisterSink, RunnerRegisters, Register
<1>2. CASE RegisterBackend
  BY <1>2 DEF RegisterBackend, RunnerRegisters, Register
<1>3. CASE GateClosesExecutable
  BY <1>3 DEF GateClosesExecutable, CloseBegin
<1>4. CASE GateClosed
  BY <1>4 DEF GateClosed, CloseEnd
<1>5. CASE LaunchFails
  BY <1>5 DEF LaunchFails, RunnerMoves
<1>6. CASE RegisterHandle
  BY <1>6 DEF RegisterHandle, RunnerRegisters, Register
<1>7. CASE HandlesRegistered
  BY <1>7 DEF HandlesRegistered, RunnerMoves
<1>8. CASE TransferToDescriptor
  BY <1>8 DEF TransferToDescriptor
<1>9. CASE DescriptorsTransferred
  BY <1>9 DEF DescriptorsTransferred, RunnerMoves
<1>10. CASE StartWorker
  BY <1>10 DEF StartWorker
<1>11. CASE WorkersStarted
  BY <1>11 DEF WorkersStarted, RunnerMoves
<1>12. CASE WorkEnds
  BY <1>12 DEF WorkEnds, RunnerMoves
<1>13. CASE JoinWorkers
  BY <1>13 DEF JoinWorkers, RunnerMoves
<1> QED BY <1>1, <1>2, <1>3, <1>4, <1>5, <1>6, <1>7, <1>8, <1>9, <1>10, <1>11, <1>12, <1>13 DEF BackendStep

(* The end of the run keeps the launch invariant.                           *)
LEMMA RunEndLaunch ==
  ASSUME TypeOK, LaunchInv, RunEndStep
  PROVE  LaunchInv'
<1> USE ThreadsDistinct
<1> USE DEF TypeOK, LaunchInv, CloserCalls, RunnerCalls, PhaseAgrees, ExecutableHeld, WorkerTargets,
            CloserEarly, BeforeOrIn, Executing, InFinalize, InRelease, Goto, Call, lifecycle,
            runner, Resources
<1>1. CASE BackendFinalizes
  BY <1>1 DEF BackendFinalizes, RunnerFinalizes
<1>2. CASE RunFinalizes
  BY <1>2 DEF RunFinalizes, RunnerFinalizes
<1>3. CASE RunReleases
  BY <1>3 DEF RunReleases
<1>4. CASE PreparedClose
  BY <1>4 DEF PreparedClose, FinalizeIdle, Closable
<1>5. CASE PlainRunOver
  BY <1>5 DEF PlainRunOver, RunnerMoves
<1>6. CASE PreparedClosed
  BY <1>6 DEF PreparedClosed
<1> QED BY <1>1, <1>2, <1>3, <1>4, <1>5, <1>6 DEF RunEndStep

(* Closing the runner keeps the launch invariant.                           *)
LEMMA CloserLaunch ==
  ASSUME TypeOK, LaunchInv, CloserStep
  PROVE  LaunchInv'
<1> USE ThreadsDistinct
<1> USE DEF TypeOK, LaunchInv, CloserCalls, RunnerCalls, PhaseAgrees, ExecutableHeld, WorkerTargets,
            CloserEarly, BeforeOrIn, Executing, InFinalize, InRelease, Goto, Call, lifecycle,
            runner, Resources
<1>1. CASE RunnerClose
  BY <1>1 DEF RunnerClose
<1>2. CASE RequestCancel
  BY <1>2 DEF RequestCancel
<1>3. CASE ClosePass1
  BY <1>3 DEF ClosePass1, FinalizeIdle, Closable
<1>4. CASE ClosePass2
  BY <1>4 DEF ClosePass2, FinalizeIdle, Closable
<1>5. CASE CloserReleases("ret1", "pass2")
  BY <1>5 DEF CloserReleases
<1>6. CASE CloserReleases("ret2", "await")
  BY <1>6 DEF CloserReleases
<1>7. CASE CloseAwaits
  BY <1>7 DEF CloseAwaits, GivesUp
<1>8. CASE CloseReports
  BY <1>8 DEF CloseReports
<1> QED BY <1>1, <1>2, <1>3, <1>4, <1>5, <1>6, <1>7, <1>8 DEF CloserStep

(* A pipe thread keeps the launch invariant.                                *)
LEMMA WorkerLaunch ==
  ASSUME TypeOK, LaunchInv, NEW p \in Pipes, WorkerStep(p)
  PROVE  LaunchInv'
<1> USE ThreadsDistinct
<1> USE DEF TypeOK, LaunchInv, CloserCalls, RunnerCalls, PhaseAgrees, ExecutableHeld, WorkerTargets,
            CloserEarly, BeforeOrIn, Executing, InFinalize, InRelease, Goto, Call, lifecycle,
            runner, Resources
<1>1. CASE WorkerEnds(p)
  BY <1>1 DEF WorkerEnds, CloseBegin
<1>2. CASE WorkerClosed(p)
  BY <1>2 DEF WorkerClosed, CloseEnd
<1> QED BY <1>1, <1>2 DEF WorkerStep

(* LaunchInv is an invariant.                                               *)
LEMMA LaunchInvariant == Spec => [](TypeOK /\ LaunchInv)
<1>1. Init => LaunchInv
  BY ThreadsDistinct DEF Init, LaunchInv, CloserCalls, RunnerCalls, PhaseAgrees,
     ExecutableHeld, WorkerTargets, BeforeOrIn, Executing, InFinalize, InRelease
<1>2. TypeOK /\ LaunchInv /\ [Next]_vars => LaunchInv'
  <2> SUFFICES ASSUME TypeOK, LaunchInv, [Next]_vars PROVE LaunchInv'
    OBVIOUS
  <2>1. CASE \E t \in Finalizers : FinalizerStep(t) \/ Expire(t)  BY <2>1, FinalizerLaunch
  <2>2. CASE RunnerStep
    BY <2>2, PrepareLaunch, BackendLaunch, RunEndLaunch DEF RunnerStep
  <2>3. CASE CloserStep  BY <2>3, CloserLaunch
  <2>4. CASE \E p \in Pipes : WorkerStep(p)  BY <2>4, WorkerLaunch
  <2>5. CASE UNCHANGED vars
    BY <2>5 DEF vars, lifecycle, runner, locals, LaunchInv, CloserCalls, RunnerCalls,
       PhaseAgrees, ExecutableHeld, WorkerTargets, CloserEarly
  <2> QED BY <2>1, <2>2, <2>3, <2>4, <2>5 DEF Next, Done
<1> QED BY <1>1, <1>2, TypeCorrect, PTL DEF Spec

(* ProcessRunnerV1.close never has a close action running under a launch    *)
(* that is being executed, and the executable opened at admission is still  *)
(* open when the create gate is reached, whatever the deadlines and pipes.  *)
THEOREM NothingClosedInUse == Spec => []NothingClosedUnderARun
<1>1. TypeOK /\ LaunchInv => NothingClosedUnderARun
  <2> SUFFICES ASSUME TypeOK, LaunchInv PROVE NothingClosedUnderARun
    OBVIOUS
  <2>1. pc[Closer] = "closing" => pc[Runner] \notin Executing
    BY DEF LaunchInv, CloserCalls, PhaseAgrees, CloserEarly, InFinalize, BeforeOrIn
  <2>2. pc[Runner] \in {"admitted", "backend", "gate"} => rstate[Exe] = "OWNED"
    BY DEF LaunchInv, ExecutableHeld
  <2> QED BY <2>1, <2>2 DEF NothingClosedUnderARun
<1> QED BY <1>1, LaunchInvariant, PTL

-----------------------------------------------------------------------------
(* What a finalizer that has found no issue so far knows. A pipe thread may *)
(* still spoil a descriptor the finalizer has seen closed (it can be inside *)
(* the same close action), so what is known of the pipes is known only once *)
(* the backend's own cleanup, which comes after them, has succeeded.        *)
InLoop(t) == pc[t] \in {"loop", "closing"}

Visited(t, r) ==
  r \in registered /\ r \notin todo[t] /\ ~(pc[t] = "closing" /\ target[t] = r)

ObservationAgrees ==
  closedObs => lstate = "complete" /\ \A r \in registered : rstate[r] = "CLOSED"

OneFinalizer ==
  /\ \A t \in Finalizers : InLoop(t) => lstate = "running"
  /\ ~(InLoop(Runner) /\ InLoop(Closer))

BackendFirst ==
  /\ pc[Runner] \in {"gate", "gateClosing", "register"} => Backend \in registered
  /\ \A p \in Pipes : p \in registered => Backend \in registered

GateAlone ==
  pc[Runner] = "gateClosing" => rstate[Exe] = "CLOSING" /\ target[Runner] = Exe

BackendWaits ==
  /\ lstate = "not-started" /\ Backend \in registered => rstate[Backend] = "OWNED"
  /\ \A t \in Finalizers :
       InLoop(t) => /\ todo[t] \subseteq registered
                    /\ Backend \in todo[t] => rstate[Backend] = "OWNED"

TargetVisited ==
  \A t \in Finalizers : pc[t] = "closing" => target[t] \in registered \ todo[t]

VisitedClosed ==
  \A t \in Finalizers : InLoop(t) /\ mine[t] = {} =>
    /\ \A r \in {Exe, Sink, Backend} : Visited(t, r) => rstate[r] = "CLOSED"
    /\ Visited(t, Backend) =>
         \A p \in Pipes : /\ pc[p] \in {"idleThread", "exited"}
                          /\ Visited(t, p) => rstate[p] = "CLOSED"

HonestInv ==
  /\ ObservationAgrees /\ OneFinalizer /\ BackendFirst /\ GateAlone
  /\ BackendWaits /\ TargetVisited /\ VisitedClosed

(* The resources registered before the process exists are three.            *)
LEMMA ResourcesDistinct ==
  Exe # Sink /\ Exe # Backend /\ Sink # Backend
BY RankOrder DEF Resources

(* A finalizer keeps the observation honest.                                *)
LEMMA FinalizerHonest ==
  ASSUME TypeOK, LaunchInv, HonestInv, NEW t \in Finalizers, FinalizerStep(t) \/ Expire(t)
  PROVE  HonestInv'
<1> USE ThreadsDistinct, ResourcesDistinct
<1> USE DEF TypeOK, HonestInv, ObservationAgrees, OneFinalizer, BackendFirst, GateAlone,
            BackendWaits, TargetVisited, VisitedClosed, Visited, InLoop, WorkerTargets,
            Goto, Call, lifecycle, runner, Resources
<1> DEFINE Quiet(p) == p \notin {"loop", "closing", "gate", "gateClosing", "register"}
<1>10. pc[t] \in {"enter", "wait", "loop", "closing", "release", "pop"} => Quiet(cont[t])
  BY DEF LaunchInv, RunnerCalls, CloserCalls, InFinalize, InRelease
<1>11. pc[Closer] = "closing" => pc[Runner] # "gateClosing"
  BY DEF LaunchInv, CloserCalls, PhaseAgrees, CloserEarly, InFinalize, BeforeOrIn, Executing
<1>12. CASE Return(t) /\ UNCHANGED <<lifecycle, todo, mine, target>>
           /\ pc[t] \in {"enter", "wait"}
  BY <1>10, <1>12 DEF Return
<1>1. CASE FinalizeEnter(t)
  <2>1. CASE lstate = "not-started"
    <3>1. /\ lstate' = "running" /\ Goto(t, "loop")
          /\ todo' = [todo EXCEPT ![t] = registered]
          /\ UNCHANGED <<registered, rstate, closedObs, target>>
      BY <1>1, <2>1 DEF FinalizeEnter, Terminal
    <3> QED BY <1>1, <2>1, <3>1 DEF FinalizeEnter
  <2>2. CASE lstate = "running"
    <3>1. Goto(t, "wait") /\ UNCHANGED <<lifecycle, todo, mine, target>>
      BY <1>1, <2>2 DEF FinalizeEnter, Terminal
    <3> QED BY <3>1
  <2>3. CASE lstate \in Terminal
    <3>1. Return(t) /\ UNCHANGED <<lifecycle, todo, mine, target>> /\ pc[t] = "enter"
      BY <1>1, <2>3 DEF FinalizeEnter, Terminal
    <3> QED BY <1>12, <3>1
  <2> QED BY <2>1, <2>2, <2>3 DEF Terminal
<1>2. CASE FinalizeWait(t)
  BY <1>12, <1>2 DEF FinalizeWait
<1>3. CASE FinalizeVisit(t)
  <2> USE <1>3 DEF FinalizeVisit, PassOver, CloseBegin, LaunchInv
  <2>1. ObservationAgrees' /\ OneFinalizer' /\ BackendFirst' /\ GateAlone'
    OBVIOUS
  <2>2. BackendWaits' /\ TargetVisited'
    OBVIOUS
  <2>3. VisitedClosed'
    <3>1. PICK r \in todo[t] :
            /\ todo' = [todo EXCEPT ![t] = @ \ {r}]
            /\ \/ PassOver(t, r)
               \/ CloseBegin(t, r) /\ Goto(t, "closing") /\ UNCHANGED mine
      OBVIOUS
    <3>2. CASE PassOver(t, r)
      <4>1. UNCHANGED <<pc, rstate, target, registered>>
        BY <3>2
      <4>2. \/ rstate[r] = "CLOSED" /\ mine' = mine
            \/ \E found : mine' = [mine EXCEPT ![t] = @ \cup {found}]
        BY <3>2
      <4> HIDE <1>3 DEF FinalizeVisit, PassOver, CloseBegin
      <4>3. /\ \A s \in Finalizers : mine'[s] = {} => mine[s] = {}
            /\ mine'[t] = {} => rstate[r] = "CLOSED"
        <5>1. CASE rstate[r] = "CLOSED" /\ mine' = mine  BY <5>1
        <5>2. ASSUME NEW found, mine' = [mine EXCEPT ![t] = @ \cup {found}]
              PROVE  mine'[t] # {} /\ \A s \in Finalizers : s # t => mine'[s] = mine[s]
          <6> HIDE DEF HonestInv, LaunchInv, WorkerTargets
          <6> QED BY <5>2
        <5> QED BY <4>2, <5>1, <5>2
      <4> QED BY <3>1, <4>1, <4>3
    <3>3. CASE CloseBegin(t, r) /\ Goto(t, "closing") /\ UNCHANGED mine
      BY <3>1, <3>3
    <3> QED BY <3>1, <3>2, <3>3
  <2> QED BY <2>1, <2>2, <2>3
<1>4. CASE FinalizeClosed(t)
  <2>1. PICK ok \in BOOLEAN :
          /\ CloseEnd(t, ok)
          /\ mine' = [mine EXCEPT ![t] = IF ok THEN @ ELSE @ \cup {NotClosed}]
    BY <1>4 DEF FinalizeClosed
  <2>2. /\ pc[t] = "closing" /\ Goto(t, "loop")
        /\ UNCHANGED <<lstate, registered, todo, target>>
    BY <1>4 DEF FinalizeClosed
  <2>3. pc[Runner] # "gateClosing" \/ t = Runner
    BY <2>2, <1>11
  <2>4. /\ lstate = "running" /\ target[t] \in registered \ todo[t]
        /\ \A s \in Finalizers : s # t => ~InLoop(s)
    BY <2>2
  <2>5. /\ rstate' = [rstate EXCEPT ![target[t]] = IF ok THEN "CLOSED" ELSE "CLOSE_UNCERTAIN"]
        /\ closedObs' = (closedObs /\ ok)
        /\ ok /\ target[t] = Backend =>
             \A p \in Pipes : /\ pc[p] \in {"idleThread", "exited"}
                              /\ p \in registered => rstate[p] = "CLOSED"
    BY <2>1 DEF CloseEnd, ActionCanSucceed, AlreadyClosed
  <2>6. ObservationAgrees' /\ OneFinalizer' /\ BackendFirst' /\ GateAlone'
    BY <2>2, <2>3, <2>4, <2>5
  <2>7. BackendWaits' /\ TargetVisited'
    BY <2>2, <2>4, <2>5
  <2>8. VisitedClosed'
    <3>1. ~ok => mine'[t] # {}
      BY <2>1
    <3>2. ok => mine'[t] = mine[t]
      BY <2>1
    <3>3. CASE ok
      BY <2>2, <2>4, <2>5, <3>2, <3>3
    <3>4. CASE ~ok
      BY <2>2, <2>4, <3>1, <3>4
    <3> QED BY <3>3, <3>4
  <2> QED BY <2>6, <2>7, <2>8
<1>5. CASE FinalizeEnd(t)
  BY <1>5, <1>10 DEF FinalizeEnd, Outcome, LaunchInv
<1>6. CASE Release(t)
  BY <1>6, <1>10 DEF Release, LaunchInv
<1>7. CASE Pop(t)
  BY <1>7, <1>10 DEF Pop, LaunchInv
<1>8. CASE Expire(t)
  BY <1>8 DEF Expire, LaunchInv
<1> QED BY <1>1, <1>2, <1>3, <1>4, <1>5, <1>6, <1>7, <1>8 DEF FinalizerStep

(* Preparation and admission keep the observation honest.                   *)
LEMMA PrepareHonest ==
  ASSUME TypeOK, LaunchInv, HonestInv, PrepareStep
  PROVE  HonestInv'
<1> USE ThreadsDistinct, ResourcesDistinct
<1> USE DEF TypeOK, HonestInv, ObservationAgrees, OneFinalizer, BackendFirst, GateAlone,
            BackendWaits, TargetVisited, VisitedClosed, Visited, InLoop, WorkerTargets,
            Goto, Call, lifecycle, runner, Resources
<1>1. CASE BeginLifecycle
  BY <1>1 DEF BeginLifecycle, LaunchInv
<1>2. CASE AcquireExecutable
  BY <1>2 DEF AcquireExecutable, RunnerRegisters, Register, MayRegister, LaunchInv
<1>3. CASE AdmissionFails
  BY <1>3 DEF AdmissionFails, RunnerFinalizes, LaunchInv
<1>4. CASE AdmitPlainRun
  BY <1>4 DEF AdmitPlainRun, RunnerMoves, LaunchInv
<1>5. CASE FinishNativePreparation
  BY <1>5 DEF FinishNativePreparation, LaunchInv
<1>6. CASE ConsumeNativePreparation
  BY <1>6 DEF ConsumeNativePreparation, LaunchInv
<1>7. CASE NativeNotRun
  BY <1>7 DEF NativeNotRun, RunnerMoves, LaunchInv
<1> QED BY <1>1, <1>2, <1>3, <1>4, <1>5, <1>6, <1>7 DEF PrepareStep

(* The backend keeps the observation honest.                                *)
LEMMA BackendHonest ==
  ASSUME TypeOK, LaunchInv, HonestInv, BackendStep
  PROVE  HonestInv'
<1> USE ThreadsDistinct, ResourcesDistinct
<1> USE DEF TypeOK, HonestInv, ObservationAgrees, OneFinalizer, BackendFirst, GateAlone,
            BackendWaits, TargetVisited, VisitedClosed, Visited, InLoop, WorkerTargets,
            Goto, Call, lifecycle, runner, Resources
<1>1. CASE RegisterSink
  BY <1>1 DEF RegisterSink, RunnerRegisters, Register, MayRegister, LaunchInv
<1>2. CASE RegisterBackend
  BY <1>2 DEF RegisterBackend, RunnerRegisters, Register, MayRegister, LaunchInv
<1>3. CASE GateClosesExecutable
  BY <1>3 DEF GateClosesExecutable, CloseBegin, LaunchInv
<1>4. CASE GateClosed
  BY <1>4 DEF GateClosed, CloseEnd, LaunchInv
<1>5. CASE LaunchFails
  BY <1>5 DEF LaunchFails, RunnerMoves, LaunchInv
<1>6. CASE RegisterHandle
  BY <1>6 DEF RegisterHandle, RunnerRegisters, Register, MayRegister, LaunchInv
<1>7. CASE HandlesRegistered
  BY <1>7 DEF HandlesRegistered, RunnerMoves, LaunchInv
<1>8. CASE TransferToDescriptor
  BY <1>8 DEF TransferToDescriptor, LaunchInv
<1>9. CASE DescriptorsTransferred
  BY <1>9 DEF DescriptorsTransferred, RunnerMoves, LaunchInv
<1>10. CASE StartWorker
  BY <1>10 DEF StartWorker, MayRegister, LaunchInv
<1>11. CASE WorkersStarted
  BY <1>11 DEF WorkersStarted, RunnerMoves, LaunchInv
<1>12. CASE WorkEnds
  BY <1>12 DEF WorkEnds, RunnerMoves, LaunchInv
<1>13. CASE JoinWorkers
  BY <1>13 DEF JoinWorkers, RunnerMoves, LaunchInv
<1> QED BY <1>1, <1>2, <1>3, <1>4, <1>5, <1>6, <1>7, <1>8, <1>9, <1>10, <1>11, <1>12, <1>13 DEF BackendStep

(* The end of the run keeps the observation honest.                         *)
LEMMA RunEndHonest ==
  ASSUME TypeOK, LaunchInv, HonestInv, RunEndStep
  PROVE  HonestInv'
<1> USE ThreadsDistinct, ResourcesDistinct
<1> USE DEF TypeOK, HonestInv, ObservationAgrees, OneFinalizer, BackendFirst, GateAlone,
            BackendWaits, TargetVisited, VisitedClosed, Visited, InLoop, WorkerTargets,
            Goto, Call, lifecycle, runner, Resources
<1>1. CASE BackendFinalizes
  BY <1>1 DEF BackendFinalizes, RunnerFinalizes, LaunchInv
<1>2. CASE RunFinalizes
  BY <1>2 DEF RunFinalizes, RunnerFinalizes, LaunchInv
<1>3. CASE RunReleases
  BY <1>3 DEF RunReleases, LaunchInv
<1>4. CASE PreparedClose
  BY <1>4 DEF PreparedClose, FinalizeIdle, LaunchInv
<1>5. CASE PlainRunOver
  BY <1>5 DEF PlainRunOver, RunnerMoves, LaunchInv
<1>6. CASE PreparedClosed
  BY <1>6 DEF PreparedClosed, LaunchInv
<1> QED BY <1>1, <1>2, <1>3, <1>4, <1>5, <1>6 DEF RunEndStep

(* Closing the runner keeps the observation honest.                         *)
LEMMA CloserHonest ==
  ASSUME TypeOK, LaunchInv, HonestInv, CloserStep
  PROVE  HonestInv'
<1> USE ThreadsDistinct, ResourcesDistinct
<1> USE DEF TypeOK, HonestInv, ObservationAgrees, OneFinalizer, BackendFirst, GateAlone,
            BackendWaits, TargetVisited, VisitedClosed, Visited, InLoop, WorkerTargets,
            Goto, Call, lifecycle, runner, Resources
<1>1. CASE RunnerClose
  BY <1>1 DEF RunnerClose, LaunchInv
<1>2. CASE RequestCancel
  BY <1>2 DEF RequestCancel, LaunchInv
<1>3. CASE ClosePass1
  BY <1>3 DEF ClosePass1, FinalizeIdle, LaunchInv
<1>4. CASE ClosePass2
  BY <1>4 DEF ClosePass2, FinalizeIdle, LaunchInv
<1>5. CASE CloserReleases("ret1", "pass2")
  BY <1>5 DEF CloserReleases, LaunchInv
<1>6. CASE CloserReleases("ret2", "await")
  BY <1>6 DEF CloserReleases, LaunchInv
<1>7. CASE CloseAwaits
  BY <1>7 DEF CloseAwaits, LaunchInv
<1>8. CASE CloseReports
  BY <1>8 DEF CloseReports, LaunchInv
<1> QED BY <1>1, <1>2, <1>3, <1>4, <1>5, <1>6, <1>7, <1>8 DEF CloserStep

(* A pipe thread keeps the observation honest.                              *)
LEMMA WorkerHonest ==
  ASSUME TypeOK, LaunchInv, HonestInv, NEW p \in Pipes, WorkerStep(p)
  PROVE  HonestInv'
<1> USE ThreadsDistinct, ResourcesDistinct
<1> USE DEF TypeOK, HonestInv, ObservationAgrees, OneFinalizer, BackendFirst, GateAlone,
            BackendWaits, TargetVisited, VisitedClosed, Visited, InLoop, WorkerTargets,
            Goto, Call, lifecycle, runner, Resources
<1>1. CASE WorkerEnds(p)
  BY <1>1 DEF WorkerEnds, CloseBegin, LaunchInv
<1>2. CASE WorkerClosed(p)
  BY <1>2 DEF WorkerClosed, CloseEnd, LaunchInv
<1> QED BY <1>1, <1>2 DEF WorkerStep

(* HonestInv is an invariant.                                               *)
LEMMA HonestInvariant == Spec => [](TypeOK /\ LaunchInv /\ HonestInv)
<1>1. Init => HonestInv
  BY ThreadsDistinct DEF Init, HonestInv, ObservationAgrees, OneFinalizer, BackendFirst,
     GateAlone, BackendWaits, TargetVisited, VisitedClosed, InLoop
<1>2. TypeOK /\ LaunchInv /\ HonestInv /\ [Next]_vars => HonestInv'
  <2> SUFFICES ASSUME TypeOK, LaunchInv, HonestInv, [Next]_vars PROVE HonestInv'
    OBVIOUS
  <2>1. CASE \E t \in Finalizers : FinalizerStep(t) \/ Expire(t)  BY <2>1, FinalizerHonest
  <2>2. CASE RunnerStep
    BY <2>2, PrepareHonest, BackendHonest, RunEndHonest DEF RunnerStep
  <2>3. CASE CloserStep  BY <2>3, CloserHonest
  <2>4. CASE \E p \in Pipes : WorkerStep(p)  BY <2>4, WorkerHonest
  <2>5. CASE UNCHANGED vars
    BY <2>5 DEF vars, lifecycle, runner, locals, HonestInv, ObservationAgrees,
       OneFinalizer, BackendFirst, GateAlone, BackendWaits, TargetVisited,
       VisitedClosed, Visited, InLoop
  <2> QED BY <2>1, <2>2, <2>3, <2>4, <2>5 DEF Next, Done
<1> QED BY <1>1, <1>2, LaunchInvariant, PTL DEF Spec

(* When finalize_once reports resources_closed, every resource registered   *)
(* in the run is closed: the claim survives the interleaving of the pipe    *)
(* threads' own closes with the finalizer's, although a joined deadline may *)
(* have left a thread inside the same close action.                         *)
THEOREM ObservationIsHonest == Spec => []HonestObservation
<1>1. HonestInv => HonestObservation
  BY DEF HonestInv, ObservationAgrees, HonestObservation
<1> QED BY <1>1, HonestInvariant, PTL
=============================================================================
