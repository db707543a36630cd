# A TLA+ development of Orchestrarium

Orchestrarium is a pack of instructions, hooks and Python programs that lets one
agent runtime dispatch work to others and account for it. Most of the
repository is prose and generated skill text; its own logic is a small number of
Python owners under `src/scripts/`. This directory holds TLA+ models of those
owners, the TLC configurations that check them on small instances, and proofs
that TLAPS checks for every instance. `PROJECT.json` maps each definition to the
lines it stands for.

## 1. Inventory

| Component | State it keeps | Operations | What is hard | What makes it correct |
| --- | --- | --- | --- | --- |
| Process runner (`process_supervision/process_runner.py`) | per run: lifecycle state, native preparation phase, resources and their states, one observation; per runner: closed flag, active runs | `run`, `prepare_native_windows_launch`, `close` of a prepared launch, `close` of the runner, reader and writer threads | threads, bounded joins, finalizers that expire, close racing run | no false "all closed", cleanup order, one close action per resource, both calls return, leaks reported |
| Windows job owner (`windows_job.py`) | handles, descriptors, job flags, inheritance coordinator | `launch`, `poll`, `wait`, `terminate_job`, `settle`, `close` | failure of any native call in the middle of a launch | the closure says what is so; a failed launch leaves no handle and no process |
| POSIX process-group owner (`posix_process_group.py`) | subreaper flag, process-wide lock, bound group, closure | `acquire`, `bind_process_group`, `settle`, `close` | orphans, zombies that keep a group alive, deadline in the middle, lock held across a run | a complete closure means no member is left; lock and flag always given back |
| Review-loop state owner (`review_loop_state.py`) | one JSON record: rounds, lanes, attempts, failures, amendments, operations; snapshots; a kernel lock | begin, mark-running, record-result, record-failure, admit-retry, complete-round, next-round, close, amend-scout-reconciliation, migrate-v1, rollback-migration | late and repeated calls, retained lanes, crash and uncertain commit, cleanup racing another owner | converge on substance only, history frozen, exactly-once operations, referenced snapshots exist |
| Solution-attempt reducer (`solution_attempt/reducer.py`) | head, operations, attempts, rejections, frontier, launch state | one reduction per event | replay, stale head, closure under its own state validator | no admission after rejection, launch moves forward only, no state it would refuse later |
| Operation store, guarded launcher, route registry | none in this release: every request is denied | deny | nothing | nothing is written |
| Agent-run ledger (`agent-run-ledger.py`) | an append-only JSONL file per work item, a lock file, one candidate name, snapshots and associations of custody rows, a history file | append, settle-launch, recover-invalid-closure, dispose-invalid-current, recover-noncanonical-history | a lock file without takeover, side files published before the row they belong to, cleanup that depends on what a placement was observed to do | rows are only added, each once and to what it settles; what rows refer to is there; an abort leaves nothing |
| Work-item lifecycle owner (`mutate-work-item.py`) | work-item directories, bug records, receipts, README.md, a journal record per transition, a kernel lock | create, start, update, close, archive with successor, recover a transition, refresh | a dozen files of one transition, crash between any two, commands that run between a crash and its recovery, compensation without a journal | a recovered transition is complete or absent, one request settles an item, a failed close restores what it touched |
| Work-item validator (`validate-work-item-state.py`) | none | validate | size of the rule set | rejects what the owners would not write |
| Installers | installed trees, manifests | plan, apply, roll back | platform calls, partial failure | create-only ownership |
| Provider prompt launchers, agents-mode, hooks, gates, validators | none or one output file | one decision per call | text policies | policy text |

The parts interact in a few places only. Launchers, the gate and the repository
transfer call the process runner, which calls the Windows job owner through its
backend; the publication scanner, the validator runtime and the installer's
hook-health check call the POSIX owner. The lead's scripts call
the review-loop owner, the ledger and the work-item owner as separate processes: they
share state through files and locks and not through memory. The reducer is called by the
work-item validator on the events of a ledger, and by the operation store. The ledger's
writers, the validator and the work-item owner call one another in one process: a writer
has its candidate judged by the validator, which resolves custody from the side files on
disk, and placed by the work-item owner's publication.

## 2. Plan

Ordered so that what most can go wrong comes first; the first seven are written.

1. `RunLifecycle` - the lifecycle of one supervised run and the runner's close;
   `RunLifecycleProofs` and `RunCleanupProofs` - its theorems.
2. `ReviewLoop` - the record of a review loop and its commands; `ReviewLoopProofs` - its
   theorems.
3. `ReviewLog` (abstract: exactly-once operation log) and `ReviewStore` (the files,
   lock, crash and recovery), shown to implement it; `ReviewStoreProofs` - its
   theorems, the refinement among them.
4. `SolutionAttempt` - the reducer, closed under its own validator;
   `SolutionAttemptProofs` - its theorems.
5. `ProcessGroup` - the POSIX owner: group members, orphans, zombies, deadline,
   process-wide lock between two runs; `ProcessGroupProofs` - its theorems.
6. `ItemArchive` (abstract: one request settles an item) and `WorkItems` (the journaled
   transition, its recovery, the ordinary close and the commands beside them), shown to
   implement it; `WorkItemsProofs` - its theorems, the refinement among them.
7. `LedgerLog` (abstract: rows are added one at a time) and `Ledger` (lock file, candidate,
   custody files, placement, noncanonical history, crash, operator), shown to implement
   it; `LedgerProofs` - its theorems, the refinement among them.
8. `WindowsJob` - launch with a failure at every native call, and settlement.
9. `DialogueRouter` and `BoundedCapture` - the queues between threads of a run.
10. Migration and rollback of a review loop, in `ReviewStore` and `ReviewLoop`.

Every invariant and action property of the seven modules written is proved (section 5);
liveness is left to TLC. Theorems planned: those of the modules still to write. No module of the plan
declares a RECURSIVE operator: chains and origins are written as recursive
functions or as quantifiers.

## 3. The models and the code

### RunLifecycle

Variables carry the fields of `RunLifecycleV1` (`_state`, `_native_preparation_phase`,
`_cancel`, `_settled`, `_resources`, `_observation`) and of `ProcessRunnerV1`
(`_closed`, `_active`); `pc` and `cont` are where each thread is and where its
call returns to. The threads are the one inside `run` (or `prepare` and then `run` or
`close` of the prepared launch), one inside `close` of the runner, and a reader or
writer thread per pipe. An action is one critical section under the lifecycle's
condition variable, or one unlocked step between two; a close action is two
actions, because it runs outside the lock. A deadline is a flag per thread that
may rise at any moment inside a timed call; a close action may fail whenever the
code's own action may. A pipe's `registered`/`OWNED` state stands for the parent
handle and, after the transfer, for the descriptor that replaced it. A launch may fail before or
behind its create gate, and while the parent ends are registered or transferred; these the backend
finalizes. A thread that does not start is an error only the finalizer of `run` meets (`LaunchFails`).

Abstracted: the request and its attestation, the sink's contents, the exit code
and the failure kinds of `run`, the issue texts but for the incomplete close. The
Windows job is seen through the close action of the backend only. What a finalizer answers
for, and so what `HonestObservation` and `LeaksAreReported` range over, is what was registered: a
handle whose registration a concurrent finalizer has refused is left to the job owner, which is
not modelled. A transfer or a marking as uncertain that meets a finalized lifecycle needs a
finalizer during the launch; the closer does not start one before it has given up, and the
registration is refused first then, so these two are not failures of their own. `calls`
counts starts of a close action, at most `MaxCalls`; it is a history variable.

### ReviewLoop

An action is a command under the state lock, with free arguments: a late caller
may name an older round, attempt or revision. A transition that the command
accepts is committed when `Valid` (`validate_v2`) accepts the new record and is
otherwise remembered in `refused`. A round holds its phase, revision, affected
lanes, one block per lane and the failures. An attempt id is the number of the
attempt in its lane and round instead of a uuid; a failure's successor is that
number, 0 for none. A scout result is a pair of counts, findings and disposition
rows; a verdict lacking a required field is the result "bare". What a retained
lane refers to is derived (`Origin`), the code stores it and validates it to be
that. Failure kinds, evidence, texts and the coverage text are left out. `outcomes`
is a history of every result and failure. The run `review_loop` has no failures, so what
its properties say of failed attempts is checked in `review_loop_retry` and by the theorems.

### ReviewStore and ReviewLog

The same owner seen as files: the state file with the list of committed
operations, snapshots named by round and content, temporary files with their
owner, and the holder of the kernel lock. A process runs one call: lock, recover,
load and replay, freeze, publish, decide, write, replace, read back, unlock, and the
cleanup after an exception; what it holds in memory goes when it ends. An action is one file operation or one read with the
decision taken on it; a crash ends the process between any two and the kernel drops
its lock. Whether the transition accepts the call is left free (ReviewLoop says when), except that a
next-round wants another content than the last round's (`Changed`). Of the two contents of the runs,
the second makes that check, and a repeated id with another payload, happen.
A receipt carries freshly drawn ids, so it is a number drawn once. Renaming a file
is atomic, `fsync` is taken to work, and power loss is not modelled. Recovery unlinks
orphans in any order (the code has a fixed one) and the V1 backup is left out.

`ReviewLog` says what callers are promised: an operation id is committed once, and
each answer is the receipt of that commit. `ReviewStore!ImplementsLog` is the
refinement: the log is the operations of the state file.

### SolutionAttempt

Variables carry the fields of the reducer's state; `capsule` is also its `objects`,
and `reached` is a history of the launch states. An action is one event that the
reducer commits. A denied event, an exact replay, a conflicting operation and a
stale head return the state unchanged and are no step; operation ids and fingerprints
are drawn fresh, so the n-th operation has number n and `head` is the last one's.
`ShapeValid` is `_state_shape_valid`, part by part, and a guard of every event but
the bootstrap, as in the code. Surfaces, ids and guards are values: the grammar of
paths, their case folding and nesting, and the size limits of a capsule are left
out, but for the conditions between objects (`CapsuleValid`). The evidence and review
ids of guards and reassessments and the decision of a reassessment are not recorded by the code either.

### ProcessGroup

Several one-shot owners in threads of one process. `holder` is the module's lock,
`flag` the child-subreaper flag of the process, `libc` and `prior` the owner's
fields; `pc` is where the owner's thread is, from `acquire` to the closing. `life` and
`parent` are the kernel's: a direct process and its descendants in the group, which
fork, end, are reparented and are reaped elsewhere at any time (external). An
action is one step between two things another actor can come between: the lock,
each `prctl`, the spawn with its binding, a poll with the reaping that follows it, a
look at the group, a signal, the restoration, the release. `linux` is chosen
at the start. `attended` tells `settle` with the Popen from `close` of a bound
owner, which settles without. `expired` is the deadline of the loop the settlement
is in; deadlines of the reaping loop, refused signals and interrupts are
`SettleRaises`. An owner's closure is `absent`, `restored` and the released lock;
`group_was_present`, the sent signals and the reaped pids are reports and left out.
An owner ends "closed" with a stored closure, "failed" when its `acquire` raised (it restores and
releases, and swallows what the restoration raised; `undo`, `undone`), or "unclosed" when the `close` of an
unbound owner raised because the restoration was refused: then no closure is stored. A repeated
`settle` or `close` of a closed owner returns the stored closure and is no step; a `close` of an unclosed
one is `CloseAgain`, which stores a closure that says restored. `refused` remembers
what the kernel answered; only properties read it. Left
out: binding a group after a close that raised (no caller does), reuse of process ids, members that leave the group (the code does not claim
them), an interrupt between the spawn and the binding, and the asynchronous
caller, whose direct process is polled by the event loop.

### WorkItems and ItemArchive

One work item and everything a request to end it touches. `at`, `edit`, `terminal`
and `closure` are its directory and the texts in it, `bug` the records it terminalizes
(open, rewritten in place, moved), `bugReceipt` and `receipt` the two receipts (sets with
at most one element), `succ` the slug of the successor (free, in the backlog with this
item's bytes or with others, started, or in both places), `others` unrelated candidates and
`readme` what README.md was rendered from; `intent` is the journal, one optional record per
operation id. A digest is modelled by what its file was made from: a README digest is a
board, and "the README the transition will end with" the board `FinalBoard` that admission
precomputes. `lock`, `pc` and `job` are the kernel lock, where each process is, and what its
call holds in memory (kind, operation id, the before-images it kept).

`Archive` is `archive_with_successor` up to its first write: resume an intent of its id,
answer a settled transition, or go on to its admission. `Recover` is `recover_transition`.
From there one action is one file written, moved or removed: the bugs, the closure, the
status, the receipt of the bugs, the directory, the successor, README.md, the settlement,
the journal (`Transition`); their rollback (`Undo`); the ordinary close with the four
steps of its own (`Finish`) and the compensation it runs when any of them raises
(`Compensate`), each step of which may fail without stopping the next (`CompFails`,
`CompEndsTorn`). A move takes its rename back when a later check of it raises, which is `CloseFails`; when
taking it back fails too, the compensation finds the item in the archive, may not touch it, and restores
the rest (`MoveStays`). A process may
die between any two of them (`Crash`): its files stay, the kernel drops its lock.
`Create`, `CreateSuccessor`, `Start` and `Update` are the other commands: their write, and the
README.md after it. Reads before the first write are part of the entering action, but for
admission, which an `archive` that has just rolled back reaches with changed files and is
therefore a step of its own.

`torn` remembers that an ordinary close died or could not compensate: it has no journal
and promises nothing then. `mixed` remembers the transitions another call ran beside
while they were pending. Both are history, read by properties only, as is `told`, the ids
answered with success.

All requests carry the same closure and successor, and a caller passes the digest of the
README.md it sees. Left out: the link consumers a move rewrites, scratch
dispositions, obligation transfers (schema 2), items without a ledger, the ledger's writer beside an archive, single-bug transitions, power
loss, Windows handles. Writes of one file are atomic (`os.replace`). `Start` is one step: the code
moves the candidate into a temporary directory under `active/`, writes the status and an initial ledger
beside it, renames the directory, and moves the candidate back when any of that raises. A start that dies
on the way leaves the candidate in that directory; the model has no such state, and claims nothing of it.

`ItemArchive` is what the owner promises: an item is archived once, one request settles it,
and only that request's callers hear of success (anyone may be told by the ordinary
close, which is idempotent). The item counts as archived when the directory is moved,
except that an ordinary close under way still may take that back.

### Ledger and LedgerLog

One work item's ledger and the files beside it. `ledger` is the list of entries of
`agent-runs.jsonl`, `temp` the candidate `agent-runs.jsonl.tmp` (absent, torn or whole), `lock`
the lock file with its maker, `snaps` the snapshot files by digest, `assoc` per retained
row the ledger its association file is bound to (the code stores length and digest of that
prefix), `blob` how far the history file has come (staging written, linked, staging moved
away, staging unlinked). A process runs one call; `pc` is where it is, `img` the whole ledger it is
about to place, `made` which custody files it has created, `base` the ledger its caller had
read before the lock, which only a custody closer depends on (it names that digest).

A row is a model value with a kind: launch, terminal, REVISE, closer, closer with linked-worktree
custody, retained preimage, recovery control, or a row that has become invalid.
`Refers` is the launch, REVISE or row it settles; two rows may have one `Id`. An action
is one file operation, or one read with the decision taken on it. The append
transaction is `Acquire`, `Capture` (or `Replay`), `Create`, `Fill`, `Judge`, `Place`, `Done`, with
`Snapshot` before the candidate for a custody closer, and with `Snapshot` and `Link` between the
judgement and the placement for a retained preimage, as in the code. A refusal of any kind is `Refuse`, free at
each point where the code may raise; `Clean` and `Abort` are the candidate's and the
caller's cleanup behind it. The recovery of noncanonical history is `Inspect`, `Stage`,
`PublishHistory`, `Draft`, `Check`, `Handoff`, `Swap`. `Fail` is a file operation that
raises, `Crash` ends the process anywhere inside, `RemoveLock` and `RemoveTemp` are the
operator's. The lock line is written between the exclusive create and the `try`: when that write
fails the file stays, no later message can name a holder, and nobody in the model removes it
(`Unnamed`; `LockIsReleased` excepts it). The
`finally` may fail to close or unlink it: the command ends, its pid is in the file, and the operator
removes it as after a crash (`Undone`).

What the validator holds against a candidate is `Acceptable` (ids, settling) and `Sound`
(side files): only the rules that speak of more than one row or file. Whatever else it
rejects is in `Refuse`, which also stands for the consequences of an invalid row that has not
been disposed of: the model lets rows follow it. The noncanonical lines are one entry, `Legacy`; a marker
is a member of `Seals`. Left out: the contents of rows, budgets in bytes, manifests,
directories, replay of review settlements (which writes nothing), `init`, `rollup`, preflight,
the recovery of mixed current rows, Windows placement (there a link and an unlink are one
rename), and power loss.

`LedgerLog` is what readers of a ledger rely on: it begins empty, noncanonical or with a row to
dispose of, grows by one admissible row at a time, and only a marker that nothing follows is
ever taken back; who is told of success is told of a row that is there.

## 4. The runs

| Run | Instance | What it shows |
| --- | --- | --- |
| `run_lifecycle` | two pipes, free deadlines and failures | type, honest observation, leaks reported, settled means over, nothing is closed under a run that uses it, owners are closed once, reverse order, completion is final; `run` and `close` return |
| `run_lifecycle_unjoined` | one pipe | with a join that times out it may start twice: a finding |
| `review_loop` | 3 rounds, 2 revisions, no failures | convergence, stops, retained lanes, frozen history |
| `review_loop_retry` | 2 rounds, one verdict lane and the scout, retry cap 3, 4 failures, 2 amendments | type, an attempt ends once, failures are superseded, the commands' own checks suffice |
| `review_loop_cap` | 3 rounds | a loop that nothing can end: a finding |
| `review_store` | 2 processes, 3 ids, 2 contents, 2 crashes | exactly-once log, no stale writer, recovery, no leak, a referenced snapshot is never removed by a process that is alone |
| `review_store_race` | 2 processes, no crash | cleanup outside the lock deletes a referenced snapshot: a finding |
| `solution_attempt` | 2 objects, 3 classes, 4 attempts, 2 reviews, 6 events | closed under its own validator, verdicts stand, outcome tells how far a launch came |
| `process_group` | 2 owners on Linux, 1 elsewhere, one descendant each | absence is true, statuses, flag and orphans are kept, every lock is released |
| `work_items` | 2 processes, 2 transition ids, 2 bugs, 1 foreign candidate, 1 status update, 2 crashes or failures | whole when quiet, a complete compensation restores, `ItemArchive` is implemented, a pending transition is resolved |
| `work_items_started` | 1 process, 1 id, 1 bug, 1 crash | recovery writes a successor that has been started a second time: a finding |
| `ledger` | 2 processes, 8 rows (a launch with two terminals under one id, a REVISE with a custody closer, a retained preimage on the same snapshot, an invalid row with its control), 1 marker, 3 events, 2 crashes or failures | `LedgerLog` is implemented, what rows refer to is there, an abort leaves nothing, the lock is given back |

Bounds. Two pipes are enough for the order and interleaving of pipe threads with
finalizers: the code treats them alike. Three rounds and three retries are the
code's own caps, reached in separate runs because their product is too large;
two rounds with failures already hold a retained lane whose origin had a retry, and
one verdict lane beside the scout a failure in each of two lanes. Four failures leave
room for the one that follows the last retry.
Two revisions distinguish "changed" from "unchanged". `MaxFailures` and
`MaxAmendments` bound one round and never disable the last admissible retry.
Three operation ids are a begin, a command with a snapshot and one without;
two processes and one crash give every pair of overlapping calls with a takeover;
the second crash is one during the recovery from the first.
Two contents let a next-round change its artifact and a retry carry another payload than
the operation it repeats. `MaxReceipts` only limits how many calls are accepted. Six events are a bootstrap
and a whole launch, or a bootstrap with every order of two admissions, two revises
and a reassessment or guard; two classes of one object and a capsule that shares a
class between two give every case of the frontier. Symmetry is used for verdict
lanes and revisions, and for reviews and undeclared attempts, in runs without liveness.

Two owners are what the lock and the flag are shared between; elsewhere owners share
nothing, so `MCSpec` lets only one begin, and one that has not begun is under no
fairness. One descendant is an orphan, a zombie, a survivor of SIGTERM or one that
is already gone; more differ only in number (the theorems hold for any).

Two processes are every pair of calls the lock keeps apart; a third differs from the
second only in waiting. Two transition ids are a retry under a fresh id, or a second request,
beside a pending one. Two bugs distinguish a first record from a last one in the
order of the moves and of the rollback. Two faults are a crash of a transition and
one of its recovery, or a failing close with a failing compensation. One update and one
foreign candidate change a text and README.md under a pending transition once, which is all
that before-images and digests can tell. The safety theorems hold for any of these numbers.

In `ledger` the custody closer and the retained preimage share a snapshot, so that one of them reuses what the
other may be about to remove. Three events are a launch and its terminal, or a REVISE and its closer, with one
row before, between or behind them, a marker with two rows behind it, and the budget exhausted in each
case; a launch is admitted only with room for its terminal. Two faults are a crash with
a failure in the call that meets what it left, or two crashes of one publication. A second marker or
digest would only stand beside the first. The closer without custody is a terminal under another
name and is left to the theorems.

Deadlock is checked for `RunLifecycle` and `ProcessGroup`, whose last states step to
themselves by an explicit `Done` and `Finished`, and for `WorkItems` and `Ledger`, where a command can always
be called. It is not for the others: a terminal review-loop record accepts
no command, by design, and the reducer's model ends at its bound on events.

Fairness is assumed in `RunLifecycle`, `ProcessGroup`, `WorkItems` and `Ledger`. In the first it is one weak condition on all of `Next`: while
some thread can run, a deadline can pass (every wait there is bounded by one), a close action can return or
the supervision loop can end (at its deadline at the latest), one of these happens. That is weaker than
fairness to each thread, and enough because no thread can go on for ever: every step brings a call, a
finalizer or a pipe thread nearer to its end. It is not assumed that close actions succeed or that pipe threads end
before the join. In `ProcessGroup` it is weak and per owner: a thread that has
acquired runs on, `prctl` and the spawn return, its caller settles (each caller but
one reads under a deadline; `_run_owned_process` of the publication scanner may be given none and then
waits for the process), and deadlines pass. Members need never end.
In `WorkItems` a process that holds the lock goes on (weak: its steps are plain file
operations), and an operator asks for the recovery of a pending transition until the lock is free
(strong: other calls take it in between; the documents make recovery the operator's duty). Nothing
is assumed of crashes, retries or other commands. In `Ledger` it is weak and per process: a
writer that is not killed goes on, and the operator removes the lock file of a dead one, which is what the
message of the code asks for. Nobody need ever call, get the lock or remove a left candidate.

## 5. What is proved

`RunLifecycleProofs` proves, for any set of pipes, any registration order that
satisfies `RankOrder` and any bounds:

- `TypeCorrect` - the type invariant, preserved by each action.
- `NothingClosedInUse` (`NothingClosedUnderARun`) - from the inductive
  invariant `LaunchInv`: where the closer's calls return to (`CloserCalls`), where
  the runner's do (`RunnerCalls`), that the preparation phase agrees with the runner's
  place (`PhaseAgrees`), that the executable is open up to the gate
  (`ExecutableHeld`) and that a pipe thread closes its own pipe (`WorkerTargets`).
  The property alone is not inductive: that the closer is not inside a close
  action says nothing of the finalizer it may be about to enter.
- `ObservationIsHonest` - from `HonestInv`: the observation agrees with the state
  of the lifecycle, one finalizer at a time, and each resource a finalizer has
  already visited is closed or noted. The step that needs it is `FinalizeEnd`,
  where `resources_closed` is computed from what was visited over several steps.

`RunCleanupProofs` continues it with the cleanup itself. Its theorems follow from one
inductive invariant, `CleanupInv`, under the same assumptions:

- `NoSilentLeak` - when both finalizers have returned, what is not closed is in an
  incomplete lifecycle's issues (`LeaksAreReported`).
- `SettledIsOver` - the runner's close is told "settled" only by a lifecycle that is
  over (`SettledMeansOver`).
- `OwnersOneAttempt` - the close action of an owner starts once (`OwnersCloseOnce`).
- `CompleteStays` - after "complete" nothing is registered, closed or re-reported
  (`CompleteIsFinal`).
- `ReverseInAnyRun` - a finalizer closes in the reverse order of registration (`ReverseOrder`).

None of them is inductive. `Finalized` says what a lifecycle that has not started, is
running or is complete implies for the places of its finalizers; `VisitedOver` that a
finalizer up to its deadline has dealt with everything it has passed, which is what
the "no issue" of `FinalizeEnd` rests on; `BackendHeld` that the backend stays open from its
registration to the first finalization; `OwnersOnce` that whoever started the close
of an owner is still inside or has left the resource closed or failed, so nobody starts it again;
`SettledOver`, `Placed` and `RegisteredFirst` tie the runner's set of active runs, the
place of the caller and the registrations together. The two action properties come
from two lemmas about a single step (`OnlyByVisit`, `VisitInOrder`).

`ReviewLoopProofs` proves, for any set of verdict lanes, any results and any caps:

- `RecordIsSound` - the inductive invariant `IInv` of the record, from which the rest follows.
- `TypeCorrect` - the type invariant.
- `ChecksAreEnough` (`OwnChecksSuffice`) - a command that passes its own checks builds a record
  that `validate_v2` accepts, but for the two commands that leave the decision to it.
- `AttemptsEndOnce` (`AttemptEndsOnce`), `FailuresAreSuperseded` (`FailuresSuperseded`),
  `RetentionIsEarned` (`RetainedOnPass`), `OutcomesAreEarned` (`OutcomeIsEarned`).
- `HistoryIsFrozen` (`HistoryFrozen`) - an action property, from `StepFreezes`, one step per command.

None of them is inductive, since a command reads what several earlier ones have left, in the last round
or, through a retained lane, in an older one. `IInv` says what they leave. In each round a lane is
retained with nothing of its own, or is a chain: the attempts before the current one all failed and each
names its successor, and only the current one may have a failure that is not retried, in which case it has
no result (`LaneSound`, `Chained`). Every round but the last is complete (`InOrder`). A lane was worked on in
some round, the origin of its effective block (`Based`). The history of results and failures is what the
rounds show (`Told`), the outcome was earned (`Earned`), and `validate_v2` accepts the record (`Accepted`).
The validator looks at the graph of a lane's failures and not at a chain; that it finds no fault with a
chain is `SoundChainHasNoErrors`, where the retry cap is compared with a count of edges (`EdgesCounted`).
A command writes the last round only, so it keeps what the validator reads of earlier ones
(`PrefixReads`), their origins (`RewriteKeepsOrigins`) and its verdict on them (`RewriteIsValid`): each
command is left with what it does to its own lane.

`ReviewStoreProofs` proves, for any processes, ids, contents and bounds:

- `TypeCorrect` - the type invariant.
- `WritersAreCurrent` - who replaces the state file replaces the state it has read
  (`NoStaleWrite`).
- `RecoveryComesFirst` - no call reads the state beside a leftover of a crash, temporary or
  unreferenced snapshot (`RecoveredBeforeUse`).
- `LogRefined` - that `ReviewStore` implements `ReviewLog`.
- `GracefulCallsCleanUp` (`GracefulLeavesNothing`) - without a crash nothing is left when no call is
  in progress.
- `AloneNothingIsLost` (`ReferencedExistAlone`) - a process alone never unlinks a snapshot the record
  refers to, through its own crashes and uncertain commits.

The first four follow from `IInv`: one process is inside (`Exclusive`), an id is in the file at most
once (`OnceEach`), and what each process holds in memory agrees with the file from where it
has read it up to where it has replaced it (`Current`). `NoStaleWrite` speaks of one step;
that the state read several steps before is still the file's is what `Exclusive` and
`Current` carry.

The last two need `OwnedInv`, which adds that what a call has frozen, created and prepared fit each
other (`Tied`), and that before the first crash each temporary file and each unreferenced snapshot has a
call at a place from which it still removes or commits it (`TempsOwned`, `SnapshotsOwned`). The cleanup
of a call unlinks what it looked up some steps before: `Spared` says that, with nobody else in a call, what it
is about to unlink is still unreferenced. The same steps with a second process are the finding of
`review_store_race`.

`SolutionAttemptProofs` proves, for any objects, classes, attempts, capsules, sets of
outcomes that differ and bound:

- `TypesHold` - the type invariant.
- `ReducerIsClosed` - from `RecordInv`, which adds what holds before the bootstrap. Each
  event has a lemma. The hard one is `ReviseKeepsShape`: the validator wants the frontier
  of each object to be the list of the class it names, and a revise changes one such
  list; `ClassHasOneObject` (the capsule check) is what leaves the others alone.
- `VerdictsAreFinal` - from the same invariant, one step per event.
- `OutcomeIsHonest` - from `LaunchInv`, which says what was reached in each launch state.

`ProcessGroupProofs` proves, for any number of owners and of descendants:

- `TypesHold` - the type invariant; off Linux nobody holds the lock.
- `FlagIsGivenBack` - from `FlagInv`: the lock is held by the one owner between
  acquire and closing (`OneHolder`), what an owner has to give back is the first flag
  (`GivesBackFirst`), a changed flag is one somebody has to give back
  (`ChangeIsOwned`), each but for a restoration that was refused, and the closure of a bound group
  tells what became of its own (`ClosureTells`). The property says
  nothing while the lock is held, so it is not inductive.
- `AbsenceIsFinal` - from `AbsentInv`: the members of an absent group never came to be
  or are gone, and only a settlement that is past its loops calls it absent.
- `OrphansAreOurs` - from `HomeInv`: nothing is started before the spawn, and the
  flag is up from before the spawn to the restoration; the step that needs `OneHolder`
  is the restoration of another owner.
- `StatusStaysKept` - inductive with the type invariant: of all steps only a poll of the Popen and the
  reaping collect the direct process (`OthersCollectNothing`), and the reaping polls first
  (`ReapingKeepsStatus`).

`WorkItemsProofs` proves, for any processes, operation ids, bugs, candidates and bounds:

- `TypeCorrect` - from `Control` (only the holder of the lock is in a call, and each
  kind of call keeps to its places), `FilesOK` and `GhostsOK`.
- `ArchiveRefined` - that `WorkItems` implements `ItemArchive`. `Safe` adds to the types
  `WellPlaced`: at which places the item is active or archived, and whose receipt may be there
  (`Receipts`). Before the item counts as archived every step is a stutter (`StepsBefore`);
  behind it only the settlement and the answer are seen, and the ordinary close, whose
  steps behind the move are hidden, is one step of the abstract owner (`CloseOut`).
- `CompensationRestores` - from `Kept`, which follows a close from its start: how far each
  file may differ from the image the call kept at each place (`Stage`), whichever step failed.
- `WholeInQuiet` - from `IInv`: unless an ordinary close is under way or was cut off,
  whatever is half-done is explained by a pending intent that remembers how the item was
  (`Explained`), and each place of a call says how far it has come (`Way`). The property says
  nothing while an intent is pending, so it is not inductive. A rollback that another
  transition overtook is the hard case: an intent admitted over a left-over closure remembers
  that closure, so one of the pending intents must be the one from before it (`Origin`), and
  the images a close keeps must be explained for as long as it runs (`KeptExplained`).

`LedgerProofs` proves, for any processes, rows, markers, digests and bounds:

- `TypeCorrect` - the type invariant (the run does not repeat it).
- `LogRefined` - that `Ledger` implements `LedgerLog`.
- `RowsKeepWhatTheyRefer` (`ReferencesHold`) and `LogRefined` follow from one inductive invariant,
  `IInv`: who is inside holds the lock (`Exclusive`), an entering call asks for what its command may
  write (`Asked`), an image is the ledger with that row behind it from the reading to the
  placement (`Drawn`, for a marker `SealDrawn`), a row about to be placed has
  what it refers to, and what a process would remove no row of the ledger refers to (`Keeps`), and who is
  about to report success has its row in the ledger (`Answered`). `ReferencesHold` alone is
  not inductive: what an abort removes was decided several steps before.
- `NothingLeftBehind` (`AbortLeavesNothing`) - from `TidyInv`: while nothing has failed, files
  nobody explains are explained by the holder of the lock, and `Near` says for each of its
  places how much is lying around (the candidate, the snapshot, the association, what it
  remembers to have made, the history). The last place before the release is where `Near` is the
  property itself.

The assumptions are those named in `RunLifecycle` (`ThreadsDistinct`, `RankOrder`,
`BoundsAreValues`), `ReviewLoop` (`LanesDistinct`, `CapsAreNumbers`),
`ReviewStore` (`OpsAreOps`, `BoundsAreNumbers`, `FreezingIsFinite`, `NobodyIsNoProc`), `ProcessGroup` (`NamesDistinct`), `WorkItems` (`NamesAreNames`, `BoundsAreNats`), `Ledger` (`RowsAreRows`, `NamesApart`, `BoundsAreNumbers`) and `SolutionAttempt` (`CapsulesDeclare`, `SurfaceListsAreLists`,
`NoneIsNoOutcome`, `OutcomesDiffer`, `EventBound`); TLC evaluates them in each run. The properties were checked
with TLC before they were proved.

Only model-checked: the liveness properties (`CallsReturn` of `RunLifecycle`, `LockIsReleased` of `ProcessGroup`
and `Ledger`, `PendingResolves` of `WorkItems`), which need fairness and ENABLED, out of this prover's reach; and
what the runs that expect a violation show, since a counterexample is a behaviour of one instance.

## 6. Findings

- A pipe thread that outlives its bounded join and the finalizer can both start
  the close action of one descriptor (`run_lifecycle_unjoined`).
- After a complete third round with two PASS verdicts and a scout finding without a
  disposition row no command is accepted (`review_loop_cap`).
- The cleanup of a failed next-round runs after the lock is released and can delete a
  snapshot that another process has committed (`review_store_race`).
- A transition dies behind the write of its successor; the successor is started; the
  recovery sees no candidate in the backlog and writes it again. The slug is then in
  `active/` and in `backlog/`, README.md is not rendered any more, and the recovery, which has to
  render it, never settles (`work_items_started`).

Seen while modelling `WorkItems`, and part of its actions, but not stated as a property: a replay
of a settled transition is refused as soon as any other command has changed README.md
(`Verified` wants the bytes of the settlement); a roll-forward is refused for ever when a
candidate was created between the crash and the recovery (`RefreshBoard` compares with the
precomputed board), and a rollback when a status update was (`RollsBack`), hence `mixed` in
`PendingResolves`; an ordinary close that overwrote a bug receipt left by a crashed rollback
removes it in its compensation instead of restoring it, hence the subset in
`CloseCompensates`; a close that could not remove its settlement in its compensation
leaves it in the active item, where no transition can settle any more, hence `torn`.

Seen while modelling `ProcessGroup`, and part of its actions (`CloseAgain`): an unbound owner whose `close` raised
because the kernel refused to restore the subreaper flag has forgotten that there was something to restore.
Closed again, it stores a complete closure that says restored, with the flag still up
(`posix_process_group.py:306`, `:316-333`). So `FlagGivenBack` asks the truth of the closures of bound groups only.
The repository's own callers close such an owner once and let the error pass.

Seen while modelling `SolutionAttempt`: a reassessment does not unlock what its absence denied. After
it, an admission in another class or with other surfaces is denied the same way (`SameDesign`
compares with every revised attempt, which a reassessment leaves revised), and no reassessment is left to do.

Seen while modelling `Ledger`, and part of its actions: a candidate that a crash or an unknown placement
left behind blocks every later append (`Create` preserves it, as
`docs/work-item-execution-tracking.md` says), although the message about a held lock asks the operator for no more than to
"verify the holder pid is dead, remove the lock file, retry"; hence `RemoveTemp`. A crash of a retained append
between the association and the placement leaves an association without its row: every other row is
rejected from then on, and only a repetition of the same append gets through. A crash between the handoff of
a history staging and its unlink leaves the history file with two links, which every later
`recover-noncanonical-history` refuses as a conflict; a torn snapshot or staging file is refused for ever
too. A refused marker stays in the candidate's name and blocks the next append. A lock file whose line could not be
written names no holder whose death could be verified, and stays.

## 7. Not modelled

The components of section 1 that have no module, each with its reason in
`PROJECT.json`. In the modelled files: the provider profiles, attestation, bounded
capture and dialogue of the process runner (with them the race of the dialogue router's
input with the reader threads); migration and rollback of the review loop; `status`, which
only reads; what section 3 names as left out of `Ledger` and of `WorkItems`, with the legacy and H1
migrations and the cleanup of the same program; reuse of a process-group id after the
direct process has been polled. The installers, the validators and the hooks are the larger part of
the code by lines: the first are long sequences of platform calls whose outcome depends on the
file system of the machine, the others functions from text to a verdict that keep no state.
