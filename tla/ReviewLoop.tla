----------------------------- MODULE ReviewLoop -----------------------------
(***************************************************************************)
(* The record of a governed review loop                                    *)
(* (src/scripts/review_loop_state.py, schema V2): rounds of three lanes,   *)
(* two that give a verdict and a scout that gives findings, with retries   *)
(* of failed attempts, delta rounds that retain the result of a lane,      *)
(* amendments of a scout's reconciliation, and a terminal outcome.         *)
(*                                                                         *)
(* One action is one command under the state lock. Its arguments are free: *)
(* a late caller may name an older round, attempt or revision. A command   *)
(* whose transition succeeds is committed only when validate_v2 accepts    *)
(* the new record (_atomic_write). ReviewStore models the files, the lock  *)
(* and the replay of an operation id.                                      *)
(***************************************************************************)
EXTENDS Naturals, Sequences, FiniteSets

CONSTANTS
  VerdictLanes, Scout,  \* LANES
  RoundCap,             \* REVIEW_LOOP_ROUND_CAP
  RetryCap,             \* RETRY_EDGE_CAP
  Revisions,            \* artifact revisions
  ScoutResults,         \* results a scout may deliver: [findings, rows]
  MaxFailures,          \* bound on the failures recorded in one round
  MaxAmendments         \* bound on the amendments of one round

Lanes == VerdictLanes \cup {Scout}

ASSUME LanesDistinct == Scout \notin VerdictLanes
ASSUME CapsAreNumbers ==
  /\ RoundCap \in Nat \ {0} /\ RetryCap \in Nat
  /\ MaxFailures \in Nat /\ MaxAmendments \in Nat
ASSUME ScoutResultsAreCounts ==
  \A s \in ScoutResults : s.findings \in Nat /\ s.rows \in Nat

VARIABLES
  status,    \* "running" or the terminal outcome
  rounds,    \* the rounds; see Round
  amended,   \* per round, the amendment operations of its scout, oldest first
  commands,  \* per round, the commands whose receipts name it
  outcomes,  \* history: every result and failure recorded
  refused    \* history: commands that _atomic_write refused to commit

vars == <<status, rounds, amended, commands, outcomes, refused>>

Outcomes == {"converged", "drift", "deadlock"}
NoResult == [verdict |-> "none", findings |-> 0, rows |-> 0]
VerdictResult(v) == [verdict |-> v, findings |-> 0, rows |-> 0]
ScoutResult(s)   == [verdict |-> "none", findings |-> s.findings, rows |-> s.rows]

(* What a lane may deliver. "bare" stands for a verdict without blockers or *)
(* rationale, or with another required field missing.                       *)
ResultsOf(l) == IF l = Scout THEN {ScoutResult(s) : s \in ScoutResults}
                ELSE {VerdictResult(v) : v \in {"PASS", "REVISE", "bare"}}
Results == (UNION {ResultsOf(l) : l \in Lanes}) \cup {NoResult}

(* An attempt id is a fresh uuid; here the number of the attempt in its     *)
(* lane and round. 0 is none: a retained lane has no attempt, a failure     *)
(* that has not been retried no successor.                                  *)
Attempts == 1..(RetryCap + 1)
Blocks   == [state : {"admitted", "running", "complete", "retained"},
             attempt : Attempts \cup {0}, result : Results]
Failures == [lane : Lanes, attempt : Attempts, next : Attempts \cup {0}]
Round    == [phase : {"admitted", "collecting", "complete"}, revision : Revisions,
             affected : (SUBSET Lanes) \ {{}}, lanes : [Lanes -> Blocks],
             failures : SUBSET Failures]
Commands == {"begin", "next-round", "mark-running", "record-result", "record-failure",
             "admit-retry", "complete-round", "amend", "close"}

(* An amendment is an operation with an id, unique in its round here, that  *)
(* names its predecessor (0: none); seen is the round admitted last then.   *)
Amendments == [id : 1..MaxAmendments, previous : 0..MaxAmendments, seen : 1..RoundCap]

TypeOK ==
  /\ status \in {"running"} \cup Outcomes
  /\ rounds \in Seq(Round) /\ Len(rounds) \in 1..RoundCap
  /\ \A i \in 1..Len(rounds), l \in Lanes :
       /\ (rounds[i].lanes[l].attempt = 0) = (l \notin rounds[i].affected)
       /\ rounds[i].lanes[l].state # "complete" => rounds[i].lanes[l].result = NoResult
  /\ amended \in Seq(Seq(Amendments)) /\ Len(amended) = Len(rounds)
  /\ commands \in Seq(SUBSET Commands) /\ Len(commands) = Len(rounds)
  /\ \A o \in outcomes : /\ o.round \in 1..RoundCap /\ o.lane \in Lanes
                         /\ o.attempt \in Attempts
                         /\ o.failed \in BOOLEAN /\ o.result \in Results
  /\ refused \subseteq Commands

Admitted(k) == [state |-> "admitted", attempt |-> k, result |-> NoResult]
RetainedCopies ==   \* mutant of Retained: a retained lane keeps an attempt
  [state |-> "retained", attempt |-> 1, result |-> NoResult]
Retained    == [state |-> "retained", attempt |-> 0, result |-> NoResult]

NewRound(revision, affected) ==
  [phase |-> "admitted", revision |-> revision, affected |-> affected,
   lanes |-> [l \in Lanes |-> IF l \in affected THEN Admitted(1) ELSE Retained],
   failures |-> {}]

-----------------------------------------------------------------------------
(* Reading a record rs with amendments am.                                  *)

(* _effective_lane: a retained lane stands for the block of the round       *)
(* before, and so on back to one that is not retained.                      *)
Origin(rs, i, l) ==
  CHOOSE j \in 1..i : /\ rs[j].lanes[l].state # "retained"
                      /\ \A k \in (j + 1)..i : rs[k].lanes[l].state = "retained"

EffectiveLane(rs, i, l) == rs[Origin(rs, i, l)].lanes[l]

(* effective_scout_reconciliation and _scout_reconciled: an amended scout   *)
(* has one link per finding.                                                *)
ScoutReconciled(rs, am, i) ==
  LET j == Origin(rs, i, Scout)
      b == rs[j].lanes[Scout]
  IN  b.state = "complete" /\ (am[j] # <<>> \/ b.result.rows >= b.result.findings)

(* The failures of a lane that have been retried: edges of its chain.       *)
Edges(r, l) == {f \in r.failures : f.lane = l /\ f.next # 0}

(* _analyze_lane_retry_chain: every failed attempt points once to its       *)
(* direct retry and the current attempt is the only tip, not followed by    *)
(* anything; only the current attempt may have failed without a retry, and  *)
(* not in a complete round.                                                 *)
ChainErrors(r, l) ==
  LET current == r.lanes[l].attempt
      fails   == {f \in r.failures : f.lane = l}
      nodes   == {current} \cup {f.attempt : f \in fails}
                   \cup {f.next : f \in Edges(r, l)}
  IN  \/ \E f \in fails : f.next = 0 /\ (f.attempt # current \/ r.phase = "complete")
      \/ Cardinality(Edges(r, l)) > RetryCap
      \/ \E f, g \in Edges(r, l) : f # g /\ (f.attempt = g.attempt \/ f.next = g.next)
      \/ {n \in nodes : \A f \in Edges(r, l) : f.attempt # n} # {current}
      \/ Cardinality({n \in nodes : \A f \in Edges(r, l) : f.next # n}) # 1

NoRetentionErrors(rs, am, i, l) == i = 0   \* mutant of RetentionErrors

(* validate_v2 on a retained lane of round i: the effective verdict of the  *)
(* round before is PASS, the effective scout reconciled.                    *)
RetentionErrors(rs, am, i, l) ==
  \/ \E f \in rs[i].failures : f.lane = l
  \/ l # Scout /\ EffectiveLane(rs, i - 1, l).result.verdict # "PASS"
  \/ l = Scout /\ ~ScoutReconciled(rs, am, i - 1)

(* _scout_amendment_history: amendments follow one another and were made    *)
(* while their round, complete with a direct scout, was the last.           *)
AmendmentErrors(rs, am, i) ==
  \E n \in 1..Len(am[i]) :
    \/ am[i][n].previous # (IF n = 1 THEN 0 ELSE am[i][n - 1].id)
    \/ am[i][n].seen # i
    \/ rs[i].phase # "complete" \/ rs[i].lanes[Scout].state # "complete"

(* validate_v2, as far as a transition of this module could break it.       *)
Valid(rs, am) ==
  /\ Len(rs) <= RoundCap
  /\ \A i \in 1..Len(rs) :
       /\ ~AmendmentErrors(rs, am, i)
       /\ rs[i].phase = "complete" =>
            \A l \in Lanes : EffectiveLane(rs, i, l).state = "complete"
       /\ rs[i].affected # Lanes => i > 1 /\ rs[i - 1].phase = "complete"
       /\ \A l \in Lanes :
            IF rs[i].lanes[l].state = "retained"
              THEN l \notin rs[i].affected /\ ~RetentionErrors(rs, am, i, l)
              ELSE /\ l \in rs[i].affected /\ ~ChainErrors(rs[i], l)
                   /\ rs[i].lanes[l].result.verdict # "bare"

-----------------------------------------------------------------------------
(* The commands. Commit is _commit_operation of command c on round i.       *)

Init ==
  \E v \in Revisions :   \* begin
    /\ status = "running"
    /\ rounds = <<NewRound(v, Lanes)>>
    /\ amended = <<<<>>>> /\ commands = <<{"begin"}>>
    /\ outcomes = {} /\ refused = {}

(* The commands whose transition itself ends with a call of validate_v2.    *)
Validating == {"record-result", "next-round"}

Commit(c, i, st, rs, am) ==
  IF Valid(rs, am)
    THEN /\ status' = st /\ rounds' = rs /\ amended' = am
         /\ commands' = IF i > Len(commands) THEN Append(commands, {c})
                        ELSE [commands EXCEPT ![i] = @ \cup {c}]
         /\ UNCHANGED refused
    ELSE refused' = refused \cup ({c} \ Validating) /\ UNCHANGED <<status, rounds, amended, commands>>

CommitRound(c, i, r) == Commit(c, i, status, [rounds EXCEPT ![i] = r], amended)

Running == status = "running"

Latest == Len(rounds)

(* The outcome of an attempt is recorded if the command is committed.       *)
Recorded(i, l, k, failed, result) ==
  outcomes' = IF rounds' = rounds THEN outcomes
              ELSE outcomes \cup {[round |-> i, lane |-> l, attempt |-> k,
                                   failed |-> failed, result |-> result]}

(* _attempt: k is the current attempt of a lane that is not retained.       *)
IsCurrent(i, l, k) ==
  rounds[i].lanes[l].state # "retained" /\ rounds[i].lanes[l].attempt = k

HasFailed(i, l, k) == \E f \in rounds[i].failures : f.lane = l /\ f.attempt = k

SetLane(i, l, b, fs) ==
  [rounds[i] EXCEPT !.phase = "collecting", !.lanes[l] = b, !.failures = fs]

MarkRunning(i, l, k) ==
  /\ Running /\ IsCurrent(i, l, k)
  /\ rounds[i].lanes[l].state = "admitted"
  /\ CommitRound("mark-running", i,
       SetLane(i, l, [rounds[i].lanes[l] EXCEPT !.state = "running"], rounds[i].failures))
  /\ UNCHANGED outcomes

OpenUnlessRetained(b) == b.state # "retained"   \* mutant of IsOpen

(* An attempt without a result.                                             *)
IsOpen(b) == b.state \in {"admitted", "running"}

NeverFailed(i, l, k) == i > 0   \* mutant of MayDeliver: late result of a failed attempt

(* "failed attempt cannot later record a result"                            *)
MayDeliver(i, l, k) == ~HasFailed(i, l, k)

RecordResult(i, l, k, revision, result) ==
  /\ Running /\ revision = rounds[i].revision
  /\ IsCurrent(i, l, k) /\ IsOpen(rounds[i].lanes[l]) /\ MayDeliver(i, l, k)
  /\ CommitRound("record-result", i,
       SetLane(i, l, [state |-> "complete", attempt |-> k, result |-> result],
               rounds[i].failures))
  /\ Recorded(i, l, k, FALSE, result)

RecordFailure(i, l, k, revision) ==
  /\ Running /\ revision = rounds[i].revision
  /\ IsCurrent(i, l, k) /\ IsOpen(rounds[i].lanes[l]) /\ ~HasFailed(i, l, k)
  /\ Cardinality(rounds[i].failures) < MaxFailures
  /\ CommitRound("record-failure", i,
       SetLane(i, l, rounds[i].lanes[l],
               rounds[i].failures \cup {[lane |-> l, attempt |-> k, next |-> 0]}))
  /\ Recorded(i, l, k, TRUE, NoResult)

ErasesFailure(fs, f, k) == fs \ {f}   \* mutant of Redispatched: history is lost

(* The failures fs when the attempt of f is retried as attempt k.           *)
Redispatched(fs, f, k) == (fs \ {f}) \cup {[f EXCEPT !.next = k]}

BudgetLeft(r, l) == Cardinality(Edges(r, l)) < RetryCap

(* A retry takes the place of the attempt that failed; the phase stays.     *)
AdmitRetry(i, l, k) ==
  LET r == rounds[i]
      f == [lane |-> l, attempt |-> k, next |-> 0]
  IN  /\ Running /\ f \in r.failures /\ r.lanes[l].attempt = k
      /\ ~ChainErrors(r, l)
      /\ BudgetLeft(r, l)
      /\ CommitRound("admit-retry", i,
           [r EXCEPT !.lanes[l] = Admitted(k + 1),
                     !.failures = Redispatched(@, f, k + 1)])
      /\ UNCHANGED outcomes

CompletableWhenAnswered(i) ==   \* mutant of Completable: a failure may be left open
  \A l \in Lanes : EffectiveLane(rounds, i, l).state = "complete" \/ HasFailed(i, l, 1)

Completable(i) ==
  /\ \A l \in Lanes : EffectiveLane(rounds, i, l).state = "complete"
  /\ \A f \in rounds[i].failures : f.next # 0

CompleteRound(i) ==
  /\ Running /\ Completable(i)
  /\ CommitRound("complete-round", i, [rounds[i] EXCEPT !.phase = "complete"])
  /\ UNCHANGED outcomes

NextRound(revision, affected) ==
  /\ Running /\ rounds[Latest].phase = "complete"
  /\ Latest < RoundCap /\ revision # rounds[Latest].revision
  /\ Commit("next-round", Latest + 1, status,
            Append(rounds, NewRound(revision, affected)), Append(amended, <<>>))
  /\ UNCHANGED outcomes

AllPass(i) == \A l \in VerdictLanes : EffectiveLane(rounds, i, l).result.verdict = "PASS"
SomeRevise(i) == \E l \in VerdictLanes : EffectiveLane(rounds, i, l).result.verdict = "REVISE"

MayCloseOwnLanes(outcome, i) ==   \* mutant of MayClose: the scout is forgotten
  rounds[i].phase = "complete" /\ (IF outcome = "converged" THEN AllPass(i) ELSE SomeRevise(i))

(* The outcomes a complete round allows.                                    *)
MayClose(outcome, i) ==
  /\ rounds[i].phase = "complete"
  /\ IF outcome = "converged"
       THEN AllPass(i) /\ ScoutReconciled(rounds, amended, i)
       ELSE SomeRevise(i)

Close(outcome) ==
  /\ Running /\ MayClose(outcome, Latest)
  /\ Commit("close", Latest, outcome, rounds, amended)
  /\ UNCHANGED outcomes

(* _unstarted_round_errors: the round is as it was admitted, and no         *)
(* operation but its admission names it.                                    *)
Unstarted(i) ==
  /\ rounds[i].phase = "admitted" /\ rounds[i].failures = {}
  /\ \A l \in rounds[i].affected : rounds[i].lanes[l].state = "admitted"
  /\ commands[i] = {IF i = 1 THEN "begin" ELSE "next-round"}

CloseUnstarted(outcome, i, revision) ==
  /\ Running /\ outcome # "converged"
  /\ i = Latest /\ revision = rounds[i].revision /\ Unstarted(i)
  /\ Commit("close", i, outcome, rounds, amended)
  /\ UNCHANGED outcomes

HeadId(i) == IF amended[i] = <<>> THEN 0 ELSE amended[i][Len(amended[i])].id

(* An amendment names the one it replaces.                                  *)
ExpectedHead(i, expected) == expected = HeadId(i)

(* amend-scout-reconciliation: seen is the scout result the caller compared *)
(* with (a digest in the code), link the reconciliation row it gives every  *)
(* finding.                                                                 *)
AmendScout(i, k, revision, seen, expected, link) ==
  LET b == rounds[i].lanes[Scout] IN
  /\ Running /\ Len(amended[i]) < MaxAmendments
  /\ i = Latest /\ rounds[i].phase = "complete" /\ b.state = "complete"
  /\ IsCurrent(i, Scout, k) /\ revision = rounds[i].revision
  /\ b.result.findings > 0 => link \in 1..b.result.rows
  /\ seen = b.result /\ ExpectedHead(i, expected)
  /\ Commit("amend", i, status, rounds,
       [amended EXCEPT ![i] = Append(@, [id |-> Len(@) + 1, previous |-> expected,
                                         seen |-> Latest])])
  /\ UNCHANGED outcomes

RowNumbers == UNION {0..s.rows : s \in ScoutResults}

Next ==
  \/ \E i \in 1..Latest :
       \/ \E l \in Lanes, k \in Attempts :
            \/ MarkRunning(i, l, k)
            \/ AdmitRetry(i, l, k)
            \/ \E v \in Revisions : RecordFailure(i, l, k, v)
            \/ \E v \in Revisions, s \in ResultsOf(l) : RecordResult(i, l, k, v, s)
       \/ CompleteRound(i)
       \/ \E o \in Outcomes, v \in Revisions : CloseUnstarted(o, i, v)
       \/ \E k \in Attempts, v \in Revisions, s \in ResultsOf(Scout),
             h \in 0..MaxAmendments, n \in RowNumbers : AmendScout(i, k, v, s, h, n)
  \/ \E v \in Revisions, a \in (SUBSET Lanes) \ {{}} : NextRound(v, a)
  \/ \E o \in Outcomes : Close(o)

Spec == Init /\ [][Next]_vars

-----------------------------------------------------------------------------
(* A terminal outcome is earned. A loop converges on substance only: the    *)
(* verdict of each lane that counts (in an earlier round, when retained) was*)
(* delivered as PASS by an attempt that never failed, and every scout       *)
(* finding has a disposition. It drifts or deadlocks over a review or over  *)
(* none: the last round has an effective REVISE, or nothing was ever        *)
(* recorded of it (command_close with _effective_lane and the amendments,   *)
(* and the stop of an unstarted round).                                     *)
OutcomeIsEarned ==
  /\ status = "converged" =>
       /\ \A l \in VerdictLanes :
            LET j == Origin(rounds, Latest, l)
                o == [round |-> j, lane |-> l, attempt |-> rounds[j].lanes[l].attempt,
                      failed |-> FALSE, result |-> VerdictResult("PASS")]
            IN  o \in outcomes /\ [o EXCEPT !.failed = TRUE, !.result = NoResult] \notin outcomes
       /\ ScoutReconciled(rounds, amended, Latest)
  /\ status \in {"drift", "deadlock"} =>
       SomeRevise(Latest) \/ \A o \in outcomes : o.round # Latest

(* An attempt ends once: one result or one failure, whatever late or        *)
(* repeated call arrives (record_result, record_failure, admit_retry).      *)
AttemptEndsOnce ==
  \A o, p \in outcomes :
    (o.round = p.round /\ o.lane = p.lane /\ o.attempt = p.attempt) => o = p

(* "every failure must name the successful re-dispatch that supersedes it": *)
(* in a complete round the attempts of a lane before the current one all    *)
(* failed, each retried by the next, and the current one succeeded.         *)
FailuresSuperseded ==
  \A i \in 1..Latest : rounds[i].phase = "complete" =>
    \A l \in rounds[i].affected :
      /\ rounds[i].lanes[l].state = "complete"
      /\ \A k \in Attempts :
           LET n == rounds[i].lanes[l].attempt IN
           IF k < n THEN [lane |-> l, attempt |-> k, next |-> k + 1] \in rounds[i].failures
           ELSE ~HasFailed(i, l, k)

(* A retained lane never carries a REVISE or an unreconciled scout forward, *)
(* through any number of delta rounds.                                      *)
RetainedOnPass ==
  \A i \in 1..Latest, l \in Lanes : rounds[i].lanes[l].state = "retained" =>
    LET j == Origin(rounds, i, l) IN
    /\ j < i /\ \A k \in j..(i - 1) : rounds[k].phase = "complete"
    /\ IF l = Scout THEN ScoutReconciled(rounds, amended, j)
       ELSE rounds[j].lanes[l].result.verdict = "PASS"

(* The commands' own checks are enough: but for record-result and           *)
(* next-round, which validate on purpose, no sequence of calls brings a     *)
(* command to a record that _atomic_write refuses to write.                 *)
OwnChecksSuffice == refused = {}

(* History is frozen: a complete round never changes, an amendment only     *)
(* extends those of the last round, a terminal record does not change.      *)
HistoryFrozen ==
  [][/\ \A i \in 1..Latest : rounds[i].phase = "complete" => rounds'[i] = rounds[i]
     /\ \A i \in 1..(Latest - 1) : rounds'[i] = rounds[i] /\ amended'[i] = amended[i]
     /\ amended' # amended => status = "running"
     /\ status # "running" => UNCHANGED vars]_vars

(* "cap at N = 3 rounds; if not converged by round 3, stop and escalate the *)
(* deadlock": when the last round is complete, the loop can converge, stop, *)
(* or still be amended so that it converges.                                *)
CapEscalates ==
  (status = "running" /\ Latest = RoundCap /\ rounds[Latest].phase = "complete") =>
    \/ \E o \in Outcomes : MayClose(o, Latest)
    \/ AllPass(Latest) /\ rounds[Latest].lanes[Scout].result.rows > 0
=============================================================================
