---------------------------- MODULE RunLifecycle ----------------------------
(***************************************************************************)
(* The life of one supervised run: RunLifecycleV1, "sole per-run           *)
(* cancellation, worker, resource, and finalization owner", and the        *)
(* threads of the program that use it                                      *)
(* (src/scripts/process_supervision/process_runner.py):                    *)
(*                                                                         *)
(*   Runner    the thread inside ProcessRunnerV1.run, or inside            *)
(*             prepare_native_windows_launch and then run or close of the  *)
(*             prepared launch;                                            *)
(*   Closer    a thread inside ProcessRunnerV1.close;                      *)
(*   p \in Pipes   the reader or writer thread of parent pipe end p, which *)
(*             closes its own descriptor when it ends.                     *)
(*                                                                         *)
(* One action is one critical section under the lifecycle's condition, or  *)
(* one unlocked step between two of them. A deadline is a flag per thread  *)
(* that may be raised at any time while the thread is in a timed call.     *)
(***************************************************************************)
EXTENDS Naturals, FiniteSets

CONSTANTS
  Runner, Closer,       \* the two threads that can finalize the lifecycle
  Exe, Sink, Backend,   \* the resources registered before the process exists
  Pipes,                \* parent pipe ends: a resource and a thread each
  Rank,                 \* registration order: resource -> position
  MaxCalls              \* bound on the calls counted per close action

Resources  == {Exe, Sink, Backend} \cup Pipes
Finalizers == {Runner, Closer}
Threads    == Finalizers \cup Pipes

ASSUME ThreadsDistinct ==
  /\ Runner # Closer
  /\ Finalizers \cap Pipes = {}
  /\ Cardinality({Exe, Sink, Backend}) = 3
  /\ {Exe, Sink, Backend} \cap Pipes = {}

ASSUME RankOrder ==
  /\ Rank \in [Resources -> Nat]
  /\ \A r, s \in Resources : Rank[r] = Rank[s] => r = s
  /\ Rank[Exe] < Rank[Sink] /\ Rank[Sink] < Rank[Backend]
  /\ \A p \in Pipes : Rank[Backend] < Rank[p]

ASSUME BoundsAreValues ==
  MaxCalls \in Nat \ {0}

VARIABLES
  lstate,        \* _state
  phase,         \* _native_preparation_phase, "none" when there is none
  cancel,        \* _cancel
  settled,       \* _settled
  registered,    \* the names in _resources
  rstate,        \* the state of each registered resource
  closedObs,     \* _observation.resources_closed
  issues,        \* _observation.cleanup_issues
  runnerClosed,  \* ProcessRunnerV1._closed
  active,        \* the run is in ProcessRunnerV1._active
  pc, cont,      \* where a thread is, and where its call returns to
  todo,          \* resources a finalizer has still to visit
  target,        \* the resource whose close action a thread is running
  mine,          \* the issues a finalizer has collected
  expired,       \* the deadline of the thread's timed call has passed
  ret,           \* resources_closed of the last observation returned to it
  verdict,       \* what ProcessRunnerV1.close reported about this run
  calls          \* history: how often each close action was started

lifecycle == <<lstate, phase, cancel, settled, registered, rstate, closedObs, issues>>
runner    == <<runnerClosed, active>>
locals    == <<pc, cont, todo, target, mine, expired, ret, verdict>>
vars      == <<lifecycle, runner, locals, calls>>

Terminal   == {"complete", "incomplete"}
Phases     == {"none", "preparing", "idle", "running", "closing"}
RStates    == {"ABSENT", "OWNED", "FD_OWNED", "CLOSING", "CLOSED", "CLOSE_UNCERTAIN"}
Ownership  == "PSV1-DESCRIPTOR-OWNERSHIP"
NotClosed  == "PSV1-RESOURCE-CLOSE"
Incomplete == "PSV1-RUNNER-CLOSE-INCOMPLETE"
Issues     == {Ownership, NotClosed, Incomplete}
Places     == {"begin", "acquire", "prepared", "idle", "admitted", "backend", "gate",
               "gateClosing", "register", "transfer", "start", "work", "join", "final",
               "final2", "ran", "over", "prepRet", "enter", "wait", "loop", "closing",
               "release", "pop", "closeStart", "request", "pass1", "ret1", "pass2",
               "ret2", "await", "ret3", "idleThread", "reading", "exited", "done"}

TypeOK ==
  /\ lstate \in {"not-started", "running"} \cup Terminal
  /\ phase \in Phases
  /\ cancel \in BOOLEAN /\ settled \in BOOLEAN
  /\ registered \subseteq Resources
  /\ rstate \in [Resources -> RStates]
  /\ closedObs \in BOOLEAN /\ issues \subseteq Issues
  /\ runnerClosed \in BOOLEAN /\ active \in BOOLEAN
  /\ pc \in [Threads -> Places]
  /\ cont \in [Finalizers -> Places]
  /\ todo \in [Finalizers -> SUBSET Resources]
  /\ target \in [Threads -> Resources]
  /\ mine \in [Finalizers -> SUBSET Issues]
  /\ expired \in [Finalizers -> BOOLEAN]
  /\ ret \in [Finalizers -> BOOLEAN]
  /\ verdict \in {"none", "settled", "unsettled"}
  /\ calls \in [Resources -> 0..MaxCalls]

Init ==
  /\ lstate = "not-started" /\ phase = "none"
  /\ cancel = FALSE /\ settled = FALSE
  /\ registered = {} /\ rstate = [r \in Resources |-> "ABSENT"]
  /\ closedObs = FALSE /\ issues = {}
  /\ runnerClosed = FALSE /\ active = FALSE
  /\ pc = [t \in Threads |-> IF t = Runner THEN "begin"
                             ELSE IF t = Closer THEN "closeStart" ELSE "idleThread"]
  /\ cont = [t \in Finalizers |-> "done"]
  /\ todo = [t \in Finalizers |-> {}]
  /\ target = [t \in Threads |-> Exe]
  /\ mine = [t \in Finalizers |-> {}]
  /\ expired = [t \in Finalizers |-> FALSE]
  /\ ret = [t \in Finalizers |-> FALSE]
  /\ verdict = "none"
  /\ calls = [r \in Resources |-> 0]

-----------------------------------------------------------------------------
(* Moving a thread; calling finalize_once or _release_lifecycle and coming  *)
(* back at k.                                                               *)
Goto(t, p) == pc' = [pc EXCEPT ![t] = p]

Call(t, p, k) == Goto(t, p) /\ cont' = [cont EXCEPT ![t] = k]

MayRegisterLate == lstate \notin Terminal   \* mutant of MayRegister

(* register_resource: refused once finalization has begun.                  *)
MayRegister == lstate = "not-started"

Register(r) ==
  /\ registered' = registered \cup {r}
  /\ rstate' = [rstate EXCEPT ![r] = "OWNED"]

CloseBeginAgain(t, r) ==   \* mutant of CloseBegin: a failed close is retried
  /\ r \in registered /\ rstate[r] # "CLOSED"
  /\ calls[r] < MaxCalls
  /\ rstate' = [rstate EXCEPT ![r] = "CLOSING"]
  /\ calls' = [calls EXCEPT ![r] = @ + 1]
  /\ target' = [target EXCEPT ![t] = r]

(* close_resource, first critical section and the start of the action. The  *)
(* resource is CLOSED, or its closing failed, or the action is (re)started. *)
CloseBegin(t, r) ==
  /\ r \in registered /\ rstate[r] \notin {"CLOSED", "CLOSE_UNCERTAIN"}
  /\ calls[r] < MaxCalls
  /\ rstate' = [rstate EXCEPT ![r] = "CLOSING"]
  /\ calls' = [calls EXCEPT ![r] = @ + 1]
  /\ target' = [target EXCEPT ![t] = r]

AlreadyClosed(r) == r \notin registered \/ rstate[r] = "CLOSED"

ActionAlwaysSucceeds(r) == r \in registered   \* mutant of ActionCanSucceed

(* What a close action can return: cleanup_windows_backend joins the pipe   *)
(* threads and closes every handle again, so it fails while one is alive or *)
(* not closed.                                                              *)
ActionCanSucceed(r) ==
  r = Backend => \A p \in Pipes : /\ pc[p] \in {"idleThread", "exited"}
                                  /\ AlreadyClosed(p)

(* close_resource, second critical section.                                 *)
CloseEnd(t, ok) ==
  /\ ok => ActionCanSucceed(target[t])
  /\ rstate' = [rstate EXCEPT ![target[t]] = IF ok THEN "CLOSED" ELSE "CLOSE_UNCERTAIN"]
  /\ closedObs' = (closedObs /\ ok)
  /\ issues' = IF ok THEN issues ELSE issues \cup {NotClosed}

-----------------------------------------------------------------------------
(* finalize_once, the reverse-order cleanup, run by a finalizer t.          *)

Return(t) ==
  /\ Goto(t, cont[t])
  /\ ret' = [ret EXCEPT ![t] = closedObs]

FinalizeEnter(t) ==
  /\ pc[t] = "enter"
  /\ \/ /\ lstate \in Terminal /\ Return(t)
        /\ UNCHANGED <<lifecycle, todo, mine>>
     \/ /\ lstate = "running" /\ Goto(t, "wait")
        /\ UNCHANGED <<lifecycle, todo, mine, ret>>
     \/ /\ lstate = "not-started"
        /\ lstate' = "running"
        /\ phase' = IF phase = "none" THEN "none" ELSE "closing"
        /\ mine' = [mine EXCEPT ![t] = issues]
        /\ todo' = [todo EXCEPT ![t] = registered]
        /\ Goto(t, "loop")
        /\ UNCHANGED <<cancel, settled, registered, rstate, closedObs, issues, ret>>
  /\ UNCHANGED <<runner, cont, target, expired, verdict, calls>>

FinalizeWaitComplete(t) ==   \* mutant of FinalizeWait: no deadline, one outcome
  /\ pc[t] = "wait"
  /\ lstate = "complete"
  /\ Return(t)
  /\ UNCHANGED <<lifecycle, runner, cont, todo, target, mine, expired, verdict, calls>>

FinalizeWait(t) ==
  /\ pc[t] = "wait"
  /\ lstate # "running" \/ expired[t]
  /\ Return(t)
  /\ UNCHANGED <<lifecycle, runner, cont, todo, target, mine, expired, verdict, calls>>

FollowsForward(S, r) == \A s \in S : Rank[r] <= Rank[s]   \* mutant of Follows

(* The order of the visits: the last registered first.                      *)
Follows(S, r) == \A s \in S : Rank[s] <= Rank[r]

PassOverSilently(t, r) ==   \* mutant of PassOver: the deadline leaves no issue
  /\ rstate[r] \in {"CLOSED", "CLOSE_UNCERTAIN"} \/ expired[t]
  /\ UNCHANGED <<pc, mine, rstate, calls, target>>

(* What is noted about a resource that is passed over.                      *)
PassOver(t, r) ==
  /\ \/ rstate[r] = "CLOSED" /\ UNCHANGED mine
     \/ rstate[r] = "CLOSE_UNCERTAIN" /\ mine' = [mine EXCEPT ![t] = @ \cup {Ownership}]
     \/ /\ rstate[r] \notin {"CLOSED", "CLOSE_UNCERTAIN"} /\ expired[t]
        /\ mine' = [mine EXCEPT ![t] = @ \cup {Incomplete}]
  /\ UNCHANGED <<pc, rstate, calls, target>>

FinalizeVisit(t) ==
  /\ pc[t] = "loop"
  /\ \E r \in todo[t] :
       /\ Follows(todo[t], r)
       /\ todo' = [todo EXCEPT ![t] = @ \ {r}]
       /\ \/ PassOver(t, r)
          \/ ~expired[t] /\ CloseBegin(t, r) /\ Goto(t, "closing") /\ UNCHANGED mine
  /\ UNCHANGED <<lstate, phase, cancel, settled, registered, closedObs, issues,
                 runner, cont, expired, ret, verdict>>

FinalizeClosed(t) ==
  /\ pc[t] = "closing"
  /\ \E ok \in BOOLEAN :
       /\ CloseEnd(t, ok)
       /\ mine' = [mine EXCEPT ![t] = IF ok THEN @ ELSE @ \cup {NotClosed}]
  /\ Goto(t, "loop")
  /\ UNCHANGED <<lstate, phase, cancel, settled, registered, runner, cont, todo,
                 target, expired, ret, verdict, calls>>

OutcomeClosed(found) == IF found = {} THEN "closed" ELSE "incomplete"   \* mutant of Outcome

(* The state finalize_once leaves behind.                                   *)
Outcome(found) == IF found = {} THEN "complete" ELSE "incomplete"

FinalizeEnd(t) ==
  /\ pc[t] = "loop" /\ todo[t] = {}
  /\ lstate' = Outcome(mine[t])
  /\ closedObs' = (mine[t] = {})
  /\ issues' = mine[t]
  /\ Goto(t, cont[t])
  /\ ret' = [ret EXCEPT ![t] = (mine[t] = {})]
  /\ UNCHANGED <<phase, cancel, settled, registered, rstate, runner, cont, todo,
                 target, mine, expired, verdict, calls>>

-----------------------------------------------------------------------------
KeepsNone == FALSE   \* mutant of KeepsUnsettled

(* _release_lifecycle: a native lifecycle with unclosed resources stays     *)
(* unsettled and active.                                                    *)
KeepsUnsettled == phase # "none" /\ ~closedObs

Release(t) ==
  /\ pc[t] = "release"
  /\ IF KeepsUnsettled
       THEN Goto(t, cont[t]) /\ UNCHANGED settled
       ELSE Goto(t, "pop") /\ settled' = TRUE
  /\ UNCHANGED <<lstate, phase, cancel, registered, rstate, closedObs, issues, runner,
                 cont, todo, target, mine, expired, ret, verdict, calls>>

Pop(t) ==
  /\ pc[t] = "pop"
  /\ active' = FALSE
  /\ Goto(t, cont[t])
  /\ UNCHANGED <<lifecycle, runnerClosed, cont, todo, target, mine, expired, ret,
                 verdict, calls>>

(* finalize_idle_preparation: close a prepared launch nobody has consumed.  *)
(* It waits for a preparation in progress when wait says so; none is where  *)
(* the caller goes on without an observation, k where it goes on with one.  *)
Closable == phase \in {"idle", "closing"}

FinalizeIdle(t, wait, none, k) ==
  /\ phase = "preparing" => ~wait \/ settled \/ expired[t]
  /\ phase' = IF Closable THEN "closing" ELSE phase
  /\ IF Closable
       THEN Call(t, "enter", k)
       ELSE Goto(t, none) /\ UNCHANGED cont
  /\ UNCHANGED <<lstate, cancel, settled, registered, rstate, closedObs, issues, runner,
                 todo, target, mine, ret, verdict, calls>>

(* The deadline of t's call passes. The Runner takes a new deadline         *)
(* whenever it calls finalize_once; the Closer has one for all of close.    *)
Expire(t) ==
  /\ ~expired[t]
  /\ \/ pc[t] \in {"enter", "wait", "loop", "closing"}
     \/ t = Closer /\ pc[t] \in {"pass1", "ret1", "pass2", "ret2", "await"}
  /\ expired' = [expired EXCEPT ![t] = TRUE]
  /\ UNCHANGED <<lifecycle, runner, pc, cont, todo, target, mine, ret, verdict, calls>>

-----------------------------------------------------------------------------
(* The Runner: prepare_native_windows_launch, run, _WindowsBackendV1.run.   *)

(* A step that changes only where the Runner is.                            *)
RunnerMoves(from, to) ==
  /\ pc[Runner] = from
  /\ Goto(Runner, to)
  /\ UNCHANGED <<lifecycle, runner, cont, todo, target, mine, expired, ret, verdict, calls>>

(* The Runner calls finalize_once with a deadline of its own.               *)
RunnerFinalizes(k) ==
  /\ Call(Runner, "enter", k)
  /\ expired' = [expired EXCEPT ![Runner] = FALSE]
  /\ UNCHANGED <<lifecycle, runner, todo, target, mine, ret, verdict, calls>>

(* register_resource(r) at place from: on to next, or refused, on to else.  *)
RunnerRegisters(r, from, next, else) ==
  /\ pc[Runner] = from
  /\ \/ MayRegister /\ Register(r) /\ Goto(Runner, next)
     \/ ~MayRegister /\ Goto(Runner, else) /\ UNCHANGED <<registered, rstate>>
  /\ UNCHANGED <<lstate, phase, cancel, settled, closedObs, issues, runner, cont,
                 todo, target, mine, expired, ret, verdict, calls>>

(* _begin_lifecycle, with or without a native preparation.                  *)
BeginLifecycle ==
  /\ pc[Runner] = "begin"
  /\ \/ runnerClosed /\ Goto(Runner, "done") /\ UNCHANGED <<phase, active>>
     \/ /\ ~runnerClosed
        /\ active' = TRUE
        /\ phase' \in {"none", "preparing"}
        /\ Goto(Runner, "acquire")
  /\ UNCHANGED <<lstate, cancel, settled, registered, rstate, closedObs, issues,
                 runnerClosed, cont, todo, target, mine, expired, ret, verdict, calls>>

(* _acquire_executable_launch_owner and the admission checks around it.     *)
AcquireExecutable == RunnerRegisters(Exe, "acquire", "prepared", "final2")

AdmissionFails == pc[Runner] \in {"prepared", "admitted"} /\ RunnerFinalizes("ran")

AdmitPlainRun == phase = "none" /\ RunnerMoves("prepared", "admitted")

(* finish_native_preparation: refused when cancelled or already closing.    *)
FinishNativePreparation ==
  /\ phase # "none" /\ pc[Runner] = "prepared"
  /\ \/ phase = "preparing" /\ ~cancel /\ phase' = "idle" /\ Goto(Runner, "idle")
     \/ (phase # "preparing" \/ cancel) /\ Goto(Runner, "final2") /\ UNCHANGED phase
  /\ UNCHANGED <<lstate, cancel, settled, registered, rstate, closedObs, issues, runner,
                 cont, todo, target, mine, expired, ret, verdict, calls>>

(* run with the prepared launch: used or closed launches are refused, a     *)
(* cancelled one is finalized.                                              *)
MayConsume == phase = "idle" /\ lstate = "not-started" /\ ~settled

ConsumeNativePreparation ==
  /\ pc[Runner] = "idle"
  /\ \/ ~MayConsume /\ Goto(Runner, "over") /\ UNCHANGED phase
     \/ MayConsume /\ cancel /\ Goto(Runner, "final2") /\ UNCHANGED phase
     \/ MayConsume /\ ~cancel /\ phase' = "running" /\ Goto(Runner, "admitted")
  /\ UNCHANGED <<lstate, cancel, settled, registered, rstate, closedObs, issues, runner,
                 cont, todo, target, mine, expired, ret, verdict, calls>>

NativeNotRun == RunnerMoves("idle", "over")

(* run: a refused registration of the capture sink is swallowed; the        *)
(* backend's own is not.                                                    *)
RegisterSink    == RunnerRegisters(Sink, "admitted", "backend", "backend")
RegisterBackend == RunnerRegisters(Backend, "backend", "gate", "final2")

(* The create gate closes the executable owner once the process exists.     *)
GateClosesExecutable ==
  /\ pc[Runner] = "gate"
  /\ \/ /\ CloseBegin(Runner, Exe) /\ Goto(Runner, "gateClosing")
     \/ /\ rstate[Exe] \in {"CLOSED", "CLOSE_UNCERTAIN"}
        /\ Goto(Runner, IF rstate[Exe] = "CLOSED" THEN "register" ELSE "final")
        /\ UNCHANGED <<rstate, calls, target>>
  /\ UNCHANGED <<lstate, phase, cancel, settled, registered, closedObs, issues, runner,
                 cont, todo, mine, expired, ret, verdict>>

GateClosed ==
  /\ pc[Runner] = "gateClosing"
  /\ \E ok \in BOOLEAN :
       CloseEnd(Runner, ok) /\ Goto(Runner, IF ok THEN "register" ELSE "final")
  /\ UNCHANGED <<lstate, phase, cancel, settled, registered, runner, cont, todo, target,
                 mine, expired, ret, verdict, calls>>

(* The launch fails: no process, or, the gate passed, no resumption; then a *)
(* parent end that cannot be taken; or a thread that does not start, which  *)
(* is an error the backend settles but leaves to run to finalize.           *)
LaunchFails ==
  \/ \E at \in {"gate", "register", "transfer"} : RunnerMoves(at, "final")
  \/ RunnerMoves("start", "final2")

(* register_handle for the next parent end, transfer_resource of the pipe   *)
(* ends to descriptors, then register_worker and the start of each thread.  *)
RegisterHandle ==
  \E p \in Pipes \ registered :
    /\ \A q \in Pipes \ registered : Rank[p] <= Rank[q]
    /\ RunnerRegisters(p, "register", "register", "join")

HandlesRegistered == Pipes \subseteq registered /\ RunnerMoves("register", "transfer")

TransferToDescriptor ==
  /\ pc[Runner] = "transfer"
  /\ \E p \in Pipes :
       /\ rstate[p] # "FD_OWNED"
       /\ IF rstate[p] = "OWNED"
            THEN rstate' = [rstate EXCEPT ![p] = "FD_OWNED"] /\ UNCHANGED pc
            ELSE Goto(Runner, "join") /\ UNCHANGED rstate
  /\ UNCHANGED <<lstate, phase, cancel, settled, registered, closedObs, issues, runner,
                 cont, todo, target, mine, expired, ret, verdict, calls>>

DescriptorsTransferred ==
  (\A p \in Pipes : rstate[p] = "FD_OWNED") /\ RunnerMoves("transfer", "start")

StartWorker ==
  /\ pc[Runner] = "start"
  /\ \E p \in Pipes :
       /\ pc[p] = "idleThread"
       /\ pc' = IF MayRegister THEN [pc EXCEPT ![p] = "reading"]
                               ELSE [pc EXCEPT ![Runner] = "join"]
  /\ UNCHANGED <<lifecycle, runner, cont, todo, target, mine, expired, ret, verdict, calls>>

WorkersStarted == (\A p \in Pipes : pc[p] # "idleThread") /\ RunnerMoves("start", "work")

(* The supervision loop ends: exit, cancellation, deadline or a failure.    *)
WorkEnds == RunnerMoves("work", "join")

WorkersEnded == \A p \in Pipes : pc[p] \in {"idleThread", "exited"}

(* The joins: bounded in the code, so they may end with a thread alive.     *)
JoinWorkers == RunnerMoves("join", "final")

(* finalize_once in the backend, once more in run, then the release.        *)
BackendFinalizes == pc[Runner] = "final"  /\ RunnerFinalizes("final2")
RunFinalizes     == pc[Runner] = "final2" /\ RunnerFinalizes("ran")

RunReleases ==
  /\ pc[Runner] = "ran"
  /\ Call(Runner, "release", "over")
  /\ UNCHANGED <<lifecycle, runner, todo, target, mine, expired, ret, verdict, calls>>

(* The owner of a prepared launch closes it in the end (close of            *)
(* PreparedNativeWindowsLaunchV1), run or not.                              *)
PreparedClose ==
  /\ pc[Runner] = "over" /\ phase # "none"
  /\ FinalizeIdle(Runner, TRUE, "done", "prepRet")
  /\ expired' = [expired EXCEPT ![Runner] = FALSE]

PlainRunOver == phase = "none" /\ RunnerMoves("over", "done")

PreparedClosed ==
  /\ pc[Runner] = "prepRet"
  /\ IF ret[Runner] THEN Call(Runner, "release", "done")
                    ELSE Goto(Runner, "done") /\ UNCHANGED cont
  /\ UNCHANGED <<lifecycle, runner, todo, target, mine, expired, ret, verdict, calls>>

-----------------------------------------------------------------------------
(* A reader or writer thread ends and closes its descriptor.                *)
WorkerEnds(p) ==
  /\ pc[p] = "reading"
  /\ \/ CloseBegin(p, p) /\ Goto(p, "closing")
     \/ /\ rstate[p] \in {"CLOSED", "CLOSE_UNCERTAIN"} /\ Goto(p, "exited")
        /\ UNCHANGED <<rstate, calls, target>>
  /\ UNCHANGED <<lstate, phase, cancel, settled, registered, closedObs, issues, runner,
                 cont, todo, mine, expired, ret, verdict>>

WorkerClosed(p) ==
  /\ pc[p] = "closing"
  /\ \E ok \in BOOLEAN : CloseEnd(p, ok)
  /\ Goto(p, "exited")
  /\ UNCHANGED <<lstate, phase, cancel, settled, registered, runner, cont, todo, target,
                 mine, expired, ret, verdict, calls>>

-----------------------------------------------------------------------------
(* ProcessRunnerV1.close, as far as this run is concerned.                  *)

RunnerClose ==
  /\ pc[Closer] = "closeStart"
  /\ runnerClosed' = TRUE
  /\ Goto(Closer, IF active THEN "request" ELSE "done")
  /\ UNCHANGED <<lifecycle, active, cont, todo, target, mine, expired, ret, verdict, calls>>

RequestCancel ==
  /\ pc[Closer] = "request"
  /\ cancel' = TRUE
  /\ Goto(Closer, "pass1")
  /\ UNCHANGED <<lstate, phase, settled, registered, rstate, closedObs, issues, runner,
                 cont, todo, target, mine, expired, ret, verdict, calls>>

(* Idle preparations first, without waiting; then each run in turn.         *)
ClosePass1 ==
  /\ pc[Closer] = "pass1"
  /\ FinalizeIdle(Closer, FALSE, "pass2", "ret1")
  /\ UNCHANGED expired

ClosePass2 ==
  /\ pc[Closer] = "pass2"
  /\ FinalizeIdle(Closer, TRUE, "await", "ret2")
  /\ UNCHANGED expired

CloserReleases(from, to) ==
  /\ pc[Closer] = from
  /\ IF ret[Closer] THEN Call(Closer, "release", to)
                    ELSE Goto(Closer, to) /\ UNCHANGED cont
  /\ UNCHANGED <<lifecycle, runner, todo, target, mine, expired, ret, verdict, calls>>

GivesUpNow == TRUE   \* mutant of GivesUp: without waiting

(* wait_settled, and finalize_once with the deadline that has just passed.  *)
GivesUp == expired[Closer]

CloseAwaits ==
  /\ pc[Closer] = "await"
  /\ \/ settled /\ Goto(Closer, "done") /\ verdict' = "settled" /\ UNCHANGED cont
     \/ ~settled /\ GivesUp /\ Call(Closer, "enter", "ret3") /\ UNCHANGED verdict
  /\ UNCHANGED <<lifecycle, runner, todo, target, mine, expired, ret, calls>>

CloseReports ==
  /\ pc[Closer] = "ret3"
  /\ Goto(Closer, "done")
  /\ verdict' = IF settled THEN "settled" ELSE "unsettled"
  /\ UNCHANGED <<lifecycle, runner, cont, todo, target, mine, expired, ret, calls>>

-----------------------------------------------------------------------------
FinalizerStep(t) ==
  \/ FinalizeEnter(t) \/ FinalizeWait(t) \/ FinalizeVisit(t) \/ FinalizeClosed(t)
  \/ FinalizeEnd(t) \/ Release(t) \/ Pop(t)

PrepareStep ==
  \/ BeginLifecycle \/ AcquireExecutable \/ AdmissionFails \/ AdmitPlainRun
  \/ FinishNativePreparation \/ ConsumeNativePreparation \/ NativeNotRun

BackendStep ==
  \/ RegisterSink \/ RegisterBackend \/ GateClosesExecutable \/ GateClosed \/ LaunchFails
  \/ RegisterHandle \/ HandlesRegistered \/ TransferToDescriptor
  \/ DescriptorsTransferred \/ StartWorker \/ WorkersStarted \/ WorkEnds \/ JoinWorkers

RunEndStep ==
  \/ BackendFinalizes \/ RunFinalizes \/ RunReleases \/ PreparedClose \/ PlainRunOver
  \/ PreparedClosed

RunnerStep == PrepareStep \/ BackendStep \/ RunEndStep

CloserStep ==
  \/ RunnerClose \/ RequestCancel \/ ClosePass1 \/ ClosePass2
  \/ CloserReleases("ret1", "pass2") \/ CloserReleases("ret2", "await")
  \/ CloseAwaits \/ CloseReports

WorkerStep(p) == WorkerEnds(p) \/ WorkerClosed(p)

(* Every thread has returned: nothing is left to happen.                    *)
Done ==
  /\ \A t \in Finalizers : pc[t] = "done"
  /\ WorkersEnded
  /\ UNCHANGED vars

Next ==
  \/ \E t \in Finalizers : FinalizerStep(t) \/ Expire(t)
  \/ RunnerStep
  \/ CloserStep
  \/ \E p \in Pipes : WorkerStep(p)
  \/ Done

(* While anything can happen, something does: some thread that can run      *)
(* runs, a deadline passes, a close action returns, the supervision loop    *)
(* ends at its deadline at the latest, or the settled tree ends a reader.   *)
(* Which of them is left open, so no thread is promised its turn.           *)
Fairness == WF_vars(Next)

Spec == Init /\ [][Next]_vars /\ Fairness

-----------------------------------------------------------------------------
(* From the admission of the run until the Runner first calls finalize_once. *)
Executing == {"admitted", "backend", "gate", "gateClosing", "register", "transfer",
              "start", "work", "join", "final"}

(* The observation never claims more than is so: when resources_closed is    *)
(* TRUE, every resource ever registered is closed (finalize_once,            *)
(* close_resource and what they write to _observation).                      *)
HonestObservation ==
  closedObs => \A r \in registered : rstate[r] = "CLOSED"

(* "One-shot reverse-order cleanup owner": no close action is started twice, *)
(* whichever of the threads gets to it (close_resource).                     *)
CloseActionOnce == \A r \in Resources : calls[r] <= 1

(* The executable, the sink and the backend, which only finalizers and the   *)
(* create gate close, are never closed by two of them nor again after a      *)
(* failure: the run, the closer and the prepared launch share one attempt    *)
(* (finalize_once and close_resource).                                       *)
OwnersCloseOnce == \A r \in {Exe, Sink, Backend} : calls[r] <= 1

(* When every caller has returned, a resource that is not closed is never    *)
(* silent: the lifecycle is incomplete and has an issue, also when           *)
(* ProcessRunnerV1.close took the finalization from the run.                 *)
LeaksAreReported ==
  (/\ \A t \in Finalizers : pc[t] = "done"
   /\ \E r \in registered : rstate[r] # "CLOSED")
  => lstate = "incomplete" /\ issues # {} /\ ~closedObs

(* wait_settled is the Closer's only evidence that a run has ended: settled  *)
(* is never set while the run is executing, before finalization has begun,   *)
(* or while a finalizer is inside a close action. (It can be set while the   *)
(* Closer, its deadline passed, still lists what it did not close.) A        *)
(* prepared native launch is settled only with everything it held closed.    *)
SettledMeansOver ==
  settled => /\ pc[Runner] \notin Executing
             /\ lstate # "not-started"
             /\ \A t \in Finalizers : pc[t] # "closing"
             /\ phase # "none" => lstate = "complete" /\ closedObs

(* Nothing is closed under a run: ProcessRunnerV1.close runs close actions   *)
(* only on a launch nobody runs, and the executable opened at admission is   *)
(* held until the create gate, in the native case from the preparation on    *)
(* ("retaining the same opened image"), whoever else closes what.            *)
NothingClosedUnderARun ==
  /\ pc[Closer] = "closing" => pc[Runner] \notin Executing
  /\ pc[Runner] \in {"admitted", "backend", "gate"} => rstate[Exe] = "OWNED"

(* Cleanup is in reverse order: a finalizer starts a close action only when  *)
(* every resource registered later has been dealt with. So the descriptors   *)
(* come before the backend, and the backend, whose action joins the pipe     *)
(* threads, before the sink they write to and the executable.                *)
ReverseOrder ==
  [][\A t \in Finalizers : (pc[t] = "loop" /\ pc'[t] = "closing") =>
       \A s \in registered :
         Rank[s] > Rank[target'[t]] => rstate[s] \in {"CLOSED", "CLOSE_UNCERTAIN"}]_vars

(* A finalized lifecycle stays as it was reported: after "complete" nothing  *)
(* is registered, closed or re-reported (register_resource, close_resource,  *)
(* finalize_once called again).                                              *)
CompleteIsFinal ==
  [][lstate = "complete" =>
       UNCHANGED <<lstate, registered, rstate, closedObs, issues, calls>>]_vars

(* Neither call hangs: run returns, and close returns, whatever the other    *)
(* does (finalize_once waiting for a running finalizer, wait_settled,        *)
(* finalize_idle_preparation waiting for a preparation).                     *)
CallsReturn == <>(pc[Runner] = "done") /\ <>(pc[Closer] = "done")
=============================================================================
