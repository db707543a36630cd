------------------------------- MODULE Ledger -------------------------------
(***************************************************************************)
(* The agent-run ledger of one work item (src/scripts/agent-run-ledger.py):*)
(* agent-runs.jsonl, written by append, settle-launch, the two recovery    *)
(* appends and recover-noncanonical-history, each under the lock file      *)
(* agent-runs.jsonl.lock. A writer builds the whole new ledger in the one  *)
(* fixed candidate name agent-runs.jsonl.tmp, has it validated and moves   *)
(* it into place; rows with custody bring snapshot files with them, a      *)
(* retained preimage an association of the row with the ledger up to it,   *)
(* and the recovery of noncanonical history a history file.                *)
(*                                                                         *)
(* One action is one file operation, or one read with the decision taken   *)
(* on it. A writer may be killed between any two of them, and a file       *)
(* operation may fail, those on the lock file included; the lock file then *)
(* stays until an operator removes it.                                     *)
(***************************************************************************)
EXTENDS Naturals, Sequences, FiniteSets

CONSTANTS
  Procs, Nobody,      \* processes that call the writer; a free lock
  Rows,               \* rows of the current schema
  Seals, Legacy,      \* recovery markers; the noncanonical lines, as one entry
  Id, Kind, Refers,   \* of a row: its runId, its kind, the row it settles or closes
  Digests, Digest,    \* snapshot names; of a row with custody, its snapshot
  MaxEvents,          \* the event budget the callers give
  MaxFaults           \* bound on crashes and on failures of file operations

Kinds == {"launch", "terminal", "revise", "closer", "custody", "retained", "control", "broken"}

Settling == {"terminal", "closer", "custody", "control"}
Retained == {r \in Rows : Kind[r] = "retained"}
Keeping  == {r \in Rows : Kind[r] \in {"custody", "retained"}}   \* rows with a snapshot

ASSUME RowsAreRows ==
  /\ Kind \in [Rows -> Kinds] /\ Digest \in [Keeping -> Digests]
  /\ \A r \in Rows : Kind[r] \in Settling => Refers[r] \in Rows
ASSUME NamesApart == Legacy \notin Rows \cup Seals /\ Rows \cap Seals = {} /\ Nobody \notin Procs
ASSUME BoundsAreNumbers == MaxEvents \in Nat /\ MaxFaults \in Nat

VARIABLES
  ledger,   \* the entries of agent-runs.jsonl
  lock,     \* the lock file: who made it, or Nobody
  temp,     \* the candidate file, [is, rows]
  snaps,    \* per digest: its snapshot file
  assoc,    \* per retained row: the ledger its association file is bound to, or <<>>
  blob,     \* how far the history file has come
  pc, req,  \* per process: where it is, and what it was called for
  base,     \* the ledger its caller had read
  img,      \* the whole ledger it is about to place
  made,     \* the custody files it has created
  faults

files  == <<ledger, temp, snaps, assoc, blob>>
locals == <<req, base, img, made>>
vars   == <<files, lock, pc, locals, faults>>

Entries == Rows \cup Seals \cup {Legacy}

(* The commands: append of any row a caller may write, settle-launch,       *)
(* recover-invalid-closure and dispose-invalid-current, and the recovery of *)
(* noncanonical history with --apply-admitted or --rollback-admitted.       *)
Calls ==
  {[op |-> "append", row |-> r] : r \in {t \in Rows : Kind[t] \notin {"control", "broken"}}}
  \cup {[op |-> "settle", row |-> r] : r \in {t \in Rows : Kind[t] = "terminal"}}
  \cup [op : {"recover", "dispose"}, row : {t \in Rows : Kind[t] = "control"}]
  \cup [op : {"apply", "rollback"}, row : Seals]

NoCall == [op |-> "none", row |-> Legacy]

Appending == {"capture", "snap", "snapFill", "create", "fill", "judge", "publish", "link",
              "place", "untie", "clean", "abort"}
Sealing   == {"inspect", "stage", "stageFill", "history", "retire", "unlink", "draft",
              "draftFill", "check", "handoff", "swap"}
Inside    == Appending \cup Sealing \cup {"leave", "return"}
Places    == Inside \cup {"idle", "wait", "dead", "unnamed"}

NoTemp == [is |-> "absent", rows |-> <<>>]

TypeOK ==
  /\ ledger \in Seq(Entries) /\ lock \in Procs \cup {Nobody}
  /\ temp \in [is : {"absent", "torn", "whole"}, rows : Seq(Entries)]
  /\ snaps \in [Digests -> {"absent", "torn", "whole"}]
  /\ assoc \in [Retained -> Seq(Entries)]
  /\ blob \in {"none", "torn", "staged", "linked", "moved", "published"}
  /\ pc \in [Procs -> Places] /\ req \in [Procs -> Calls \cup {NoCall}]
  /\ base \in [Procs -> Seq(Entries)] /\ img \in [Procs -> Seq(Entries)]
  /\ made \in [Procs -> SUBSET {"snapshot", "association"}]
  /\ faults \in 0..MaxFaults

Holds(s, r) == \E i \in 1..Len(s) : s[i] = r

Prefix(s, t) == Len(s) <= Len(t) /\ \A i \in 1..Len(s) : s[i] = t[i]

Row(p) == req[p].row

(* A caller is told of success at the end of its call.                      *)
Log == INSTANCE LedgerLog WITH
         log <- ledger, told <- {Row(p) : p \in {q \in Procs : pc[q] = "return"}} \cap Rows

Init ==
  /\ ledger \in Log!Beginnings
  /\ lock = Nobody /\ temp = NoTemp /\ blob = "none" /\ faults = 0
  /\ snaps = [d \in Digests |-> "absent"] /\ assoc = [r \in Retained |-> <<>>]
  /\ pc = [p \in Procs |-> "idle"] /\ req = [p \in Procs |-> NoCall]
  /\ base = [p \in Procs |-> <<>>] /\ img = [p \in Procs |-> <<>>]
  /\ made = [p \in Procs |-> {}]

-----------------------------------------------------------------------------
(* Calls and the lock file *)

Goto(p, place) == pc' = [pc EXCEPT ![p] = place]

(* What a process has in memory goes with its call.                         *)
Forget(p) ==
  /\ req' = [req EXCEPT ![p] = NoCall] /\ base' = [base EXCEPT ![p] = <<>>]
  /\ img' = [img EXCEPT ![p] = <<>>] /\ made' = [made EXCEPT ![p] = {}]

(* The caller has read the ledger before it asks for the lock.              *)
Call(p) ==
  /\ pc[p] = "idle" /\ Goto(p, "wait")
  /\ base' = [base EXCEPT ![p] = ledger]
  /\ UNCHANGED <<files, lock, req, img, made, faults>>

(* O_CREAT | O_EXCL, tried for about five seconds, and the lock line. What  *)
(* is asked for matters from here on, what was read before only to a custody*)
(* closer, which names the digest of that ledger.                           *)
Acquire(p) ==
  /\ pc[p] = "wait" /\ lock = Nobody
  /\ lock' = p
  /\ \E c \in Calls :
       /\ req' = [req EXCEPT ![p] = c]
       /\ base' = [base EXCEPT ![p] = IF c.row \in Rows /\ Kind[c.row] = "custody" THEN @ ELSE <<>>]
       /\ Goto(p, IF c.op \in {"apply", "rollback"} THEN "inspect" ELSE "capture")
  /\ UNCHANGED <<files, img, made, faults>>

GiveUp(p) ==   \* "ledger locked ... No automatic takeover"
  /\ pc[p] = "wait" /\ lock # Nobody
  /\ Goto(p, "idle") /\ Forget(p)
  /\ UNCHANGED <<files, lock, faults>>

DoneOnSuccess(p) ==   \* mutant of Done: a refusal keeps the lock file
  /\ pc[p] \in {"leave", "return"}
  /\ lock' = (IF pc[p] = "return" THEN Nobody ELSE lock) /\ Goto(p, "idle") /\ Forget(p)
  /\ UNCHANGED <<files, faults>>

(* The finally of every writer, and the answer.                             *)
Done(p) ==
  /\ pc[p] \in {"leave", "return"}
  /\ lock' = Nobody /\ Goto(p, "idle") /\ Forget(p)
  /\ UNCHANGED <<files, faults>>

(* The lock file is there, but its line cannot be written: this is before   *)
(* the try, the call ends in an error, and the file names no holder.        *)
Unnamed(p) ==
  /\ pc[p] = "wait" /\ lock = Nobody /\ faults < MaxFaults
  /\ faults' = faults + 1
  /\ lock' = p /\ Goto(p, "unnamed") /\ Forget(p)
  /\ UNCHANGED files

(* The finally cannot close or unlink the lock file: the call ends in that  *)
(* error, whatever it was about to answer, its command exits with it, and   *)
(* the file with its pid stays.                                             *)
Undone(p) ==
  /\ pc[p] \in {"leave", "return"} /\ faults < MaxFaults
  /\ faults' = faults + 1
  /\ Goto(p, "dead")
  /\ UNCHANGED <<files, lock, locals>>

(* "verify the holder pid is dead, remove the lock file, retry"             *)
RemoveLock(p) ==
  /\ pc[p] = "dead" /\ lock = p
  /\ lock' = Nobody /\ Goto(p, "idle") /\ Forget(p)
  /\ UNCHANGED <<files, faults>>

-----------------------------------------------------------------------------
(* What the validator holds against a ledger *)

(* Every association file is bound to the ledger up to its row; custody and *)
(* retained rows have their snapshots (those the writer p brings with a     *)
(* retained row need not be on disk yet).                                   *)
Sound(p, s) ==
  /\ \A r \in Retained : assoc[r] # <<>> => Prefix(assoc[r], s)
  /\ \A r \in Keeping : Holds(s, r) =>
       \/ snaps[Digest[r]] = "whole"
       \/ r = Row(p) /\ r \in Retained /\ snaps[Digest[r]] = "absent"

Rivals(r) == {t \in Rows : Kind[t] \in Settling /\ Refers[t] = Refers[r]}

(* One row per runId; a terminal settles an unsettled launch, a closer      *)
(* discharges an undischarged REVISE, a control acts once on its target.    *)
Acceptable(s, r) ==
  /\ ~Holds(s, Legacy)
  /\ \A t \in Rows : Id[t] = Id[r] => ~Holds(s, t)
  /\ Kind[r] \in Settling => Holds(s, Refers[r]) /\ \A t \in Rivals(r) : ~Holds(s, t)

-----------------------------------------------------------------------------
(* An append, under the lock *)

(* The row is in the ledger already: settle-launch and dispose report it.   *)
Replayed(p) == req[p].op \in {"settle", "dispose"} /\ Holds(ledger, Row(p))

(* A launch is admitted with room for its terminal.                         *)
Demand(r) == IF Kind[r] = "launch" THEN 2 ELSE 1

(* What the event factory requires of the ledger it is given.               *)
Bound(p) ==
  LET r == Row(p) IN
  /\ Len(ledger) + Demand(r) <= MaxEvents
  /\ req[p].op = "settle" =>
       Holds(ledger, Refers[r]) /\ \A t \in Rows : Id[t] = Id[r] => ~Holds(ledger, t)
  /\ Kind[r] = "custody" =>
       base[p] = ledger /\ Holds(ledger, Refers[r]) /\ \A t \in Rivals(r) : ~Holds(ledger, t)

Replay(p) ==
  /\ pc[p] = "capture" /\ Replayed(p) /\ Sound(p, ledger)
  /\ Goto(p, "return")
  /\ UNCHANGED <<files, lock, locals, faults>>

Capture(p) ==
  /\ pc[p] = "capture" /\ ~Replayed(p) /\ Bound(p)
  /\ img' = [img EXCEPT ![p] = Append(ledger, Row(p))]
  /\ Goto(p, IF Kind[Row(p)] = "custody" THEN "snap" ELSE "create")
  /\ UNCHANGED <<files, lock, req, base, made, faults>>

(* _acquire_custody_snapshot: under the factory for a custody closer, just  *)
(* before the placement for a retained preimage.                            *)
AfterSnap(p) == IF Row(p) \in Retained THEN "link" ELSE "create"

Snapshot(p) ==
  LET d == Digest[Row(p)] IN
  /\ pc[p] \in {"snap", "publish"}
  /\ \/ /\ snaps[d] = "absent"
        /\ snaps' = [snaps EXCEPT ![d] = "torn"] /\ made' = [made EXCEPT ![p] = {"snapshot"}]
        /\ Goto(p, "snapFill")
     \/ snaps[d] = "whole" /\ Goto(p, AfterSnap(p)) /\ UNCHANGED <<snaps, made>>
  /\ UNCHANGED <<ledger, temp, assoc, blob, lock, req, base, img, faults>>

SnapFill(p) ==
  /\ pc[p] = "snapFill"
  /\ snaps' = [snaps EXCEPT ![Digest[Row(p)]] = "whole"] /\ Goto(p, AfterSnap(p))
  /\ UNCHANGED <<ledger, temp, assoc, blob, lock, locals, faults>>

(* create_qualified_candidate: exclusive. An entry that is there already is *)
(* preserved, and refused before there is a record of a candidate: the      *)
(* outcome is "unattempted", and on_abort runs.                             *)
Create(p) ==
  /\ pc[p] = "create"
  /\ IF temp.is = "absent"
     THEN temp' = [is |-> "torn", rows |-> <<>>] /\ Goto(p, "fill")
     ELSE Goto(p, "abort") /\ UNCHANGED temp
  /\ UNCHANGED <<ledger, snaps, assoc, blob, lock, locals, faults>>

Fill(p) ==
  /\ pc[p] = "fill"
  /\ temp' = [is |-> "whole", rows |-> img[p]] /\ Goto(p, "judge")
  /\ UNCHANGED <<ledger, snaps, assoc, blob, lock, locals, faults>>

Judge(p) ==
  /\ pc[p] = "judge" /\ Acceptable(ledger, Row(p)) /\ Sound(p, img[p])
  /\ Goto(p, IF Row(p) \in Retained THEN "publish" ELSE "place")
  /\ UNCHANGED <<files, lock, locals, faults>>

(* _projection_create_or_exact of the association; the judgement has ruled  *)
(* out one with another content.                                            *)
Link(p) ==
  LET r == Row(p) IN
  /\ pc[p] = "link" /\ assoc[r] \in {<<>>, img[p]}
  /\ assoc' = [assoc EXCEPT ![r] = img[p]]
  /\ made' = [made EXCEPT ![p] = @ \cup IF assoc[r] = <<>> THEN {"association"} ELSE {}]
  /\ Goto(p, "place")
  /\ UNCHANGED <<ledger, temp, snaps, blob, lock, req, base, img, faults>>

(* place_qualified_candidate: os.replace over the ledger, or, when there is *)
(* none yet, a link and an unlink; an error reported after the move leaves  *)
(* the row in place, and the caller without success.                        *)
Place(p) ==
  /\ pc[p] = "place"
  /\ ledger' = img[p]
  /\ \/ temp' = NoTemp /\ (Goto(p, "return") \/ Goto(p, "leave"))
     \/ ledger = <<>> /\ Goto(p, "untie") /\ UNCHANGED temp
  /\ UNCHANGED <<snaps, assoc, blob, lock, locals, faults>>

Untie(p) ==
  /\ pc[p] = "untie" /\ temp' = NoTemp /\ Goto(p, "return")
  /\ UNCHANGED <<ledger, snaps, assoc, blob, lock, locals, faults>>

(* A refusal: stale or conflicting inputs, the admission of the operation,  *)
(* the validator, a participant that has changed, a placement that was      *)
(* observed to have had no effect.                                          *)
Refuse(p) ==
  /\ \/ pc[p] \in {"capture", "snap", "create"} /\ Goto(p, "abort")
     \/ pc[p] \in {"judge", "publish", "link", "place"} /\ Goto(p, "clean")
  /\ UNCHANGED <<files, lock, locals, faults>>

(* _finish_creation removes the candidate of a refused append.              *)
Clean(p) ==
  /\ pc[p] = "clean" /\ temp' = NoTemp /\ Goto(p, "abort")
  /\ UNCHANGED <<ledger, snaps, assoc, blob, lock, locals, faults>>

RemovesReused(p, d) == snaps[d] = "whole"   \* mutants of Removable: a reused snapshot
RemovesNothing(p, d) == FALSE               \* goes as well, and none does

(* Of the custody files it has created, a snapshot of a closer goes whatever*)
(* is in it, files of a retained preimage only when they are exact.         *)
Removable(p, d) == "snapshot" \in made[p] /\ (Row(p) \in Retained => snaps[d] = "whole")

(* on_abort                                                                 *)
Abort(p) ==
  /\ pc[p] = "abort" /\ Goto(p, "leave")
  /\ snaps' = [d \in Digests |->
       IF Row(p) \in Keeping /\ d = Digest[Row(p)] /\ Removable(p, d) THEN "absent" ELSE snaps[d]]
  /\ assoc' = [r \in Retained |->
       IF r = Row(p) /\ "association" \in made[p] THEN <<>> ELSE assoc[r]]
  /\ made' = [made EXCEPT ![p] = {}]
  /\ UNCHANGED <<ledger, temp, blob, lock, req, base, img, faults>>

-----------------------------------------------------------------------------
(* recover-noncanonical-history, under the lock *)

(* The history file can be read: it has its name, and no second link but    *)
(* the reserved staging name.                                               *)
Recorded == blob \in {"linked", "published"}

AppliedFirst(p) ==   \* mutant of Applied: rows may follow the marker
  ledger # <<>> /\ ledger[1] = Row(p) /\ Recorded

Original    == ledger = <<Legacy>> /\ blob # "moved"
Applied(p)  == ledger = <<Row(p)>> /\ Recorded

(* _noncanonical_recovery_state, and what apply and rollback make of it; a  *)
(* manifest or a file that differs is refused.                              *)
Inspect(p) ==
  /\ pc[p] = "inspect"
  /\ \/ /\ req[p].op = "apply" /\ Original
        /\ Goto(p, IF blob = "linked" THEN "retire"
                   ELSE IF blob = "published" THEN "draft" ELSE "stage")
        /\ img' = [img EXCEPT ![p] = <<Row(p)>>]
     \/ /\ req[p].op = "rollback" /\ Applied(p)
        /\ Goto(p, "draft") /\ img' = [img EXCEPT ![p] = <<Legacy>>]
     \/ /\ \/ req[p].op = "apply" /\ Applied(p)
           \/ req[p].op = "rollback" /\ Original /\ Recorded
        /\ Goto(p, "return") /\ UNCHANGED img
     \/ Goto(p, "leave") /\ UNCHANGED img
  /\ UNCHANGED <<files, lock, req, base, made, faults>>

(* _write_exact_staging_file of the history: an equal file is accepted, any *)
(* other is a conflict.                                                     *)
Stage(p) ==
  /\ pc[p] = "stage"
  /\ \/ blob = "none" /\ blob' = "torn" /\ Goto(p, "stageFill")
     \/ blob = "staged" /\ Goto(p, "history") /\ UNCHANGED blob
     \/ blob = "torn" /\ Goto(p, "leave") /\ UNCHANGED blob
  /\ UNCHANGED <<ledger, temp, snaps, assoc, lock, locals, faults>>

(* The history file gets its name by a link; the staging name is then moved *)
(* to a private directory and unlinked there.                               *)
PublishHistory(p) ==
  /\ \/ pc[p] = "stageFill" /\ blob' = "staged" /\ Goto(p, "history")
     \/ pc[p] = "history" /\ blob' = "linked" /\ Goto(p, "retire")
     \/ pc[p] = "retire" /\ blob' = "moved" /\ Goto(p, "unlink")
     \/ pc[p] = "unlink" /\ blob' = "published" /\ Goto(p, "draft")
  /\ UNCHANGED <<ledger, temp, snaps, assoc, lock, locals, faults>>

(* _write_exact_staging_file of the candidate.                              *)
Draft(p) ==
  /\ pc[p] = "draft"
  /\ \/ /\ temp.is = "absent"
        /\ temp' = [is |-> "torn", rows |-> <<>>] /\ Goto(p, "draftFill")
     \/ temp = [is |-> "whole", rows |-> img[p]] /\ Goto(p, "check") /\ UNCHANGED temp
     \/ temp \notin {NoTemp, [is |-> "whole", rows |-> img[p]]}
        /\ Goto(p, "leave") /\ UNCHANGED temp
  /\ UNCHANGED <<ledger, snaps, assoc, blob, lock, locals, faults>>

DraftFill(p) ==
  /\ pc[p] = "draftFill"
  /\ temp' = [is |-> "whole", rows |-> img[p]] /\ Goto(p, "check")
  /\ UNCHANGED <<ledger, snaps, assoc, blob, lock, locals, faults>>

(* Only a marker is validated; a refused one stays where it is.             *)
Check(p) ==
  /\ pc[p] = "check"
  /\ \/ (req[p].op = "apply" => Sound(p, img[p])) /\ Goto(p, "handoff")
     \/ req[p].op = "apply" /\ Goto(p, "leave")
  /\ UNCHANGED <<files, lock, locals, faults>>

(* _replace_exact_staging_file: first to a private directory.               *)
Handoff(p) ==
  /\ pc[p] = "handoff" /\ temp' = NoTemp /\ Goto(p, "swap")
  /\ UNCHANGED <<ledger, snaps, assoc, blob, lock, locals, faults>>

Swap(p) ==   \* and the readback, which may fail
  /\ pc[p] = "swap" /\ ledger' = img[p]
  /\ Goto(p, "return") \/ Goto(p, "leave")
  /\ UNCHANGED <<temp, snaps, assoc, blob, lock, locals, faults>>

-----------------------------------------------------------------------------
(* Faults and the operator *)

(* A file operation fails: what it was about to change stays as it is, and  *)
(* where the outcome cannot be told, so does everything else.               *)
Failing == {"snapFill", "create", "fill", "place", "untie", "clean", "abort", "stageFill", "history",
            "retire", "unlink", "draftFill", "handoff", "swap"}

Fail(p) ==
  /\ pc[p] \in Failing /\ faults < MaxFaults
  /\ faults' = faults + 1
  /\ Goto(p, IF pc[p] = "clean" THEN "abort"
             ELSE IF pc[p] = "snapFill" THEN IF Row(p) \in Retained THEN "clean" ELSE "abort"
             ELSE "leave")
  /\ UNCHANGED <<files, lock, locals>>

Crash(p) ==
  /\ pc[p] \in Inside /\ faults < MaxFaults
  /\ faults' = faults + 1 /\ Goto(p, "dead")
  /\ UNCHANGED <<files, lock, locals>>

(* The operator may remove a candidate nobody is working on.                *)
RemoveTemp ==
  /\ lock = Nobody /\ temp # NoTemp
  /\ temp' = NoTemp
  /\ UNCHANGED <<ledger, snaps, assoc, blob, lock, pc, locals, faults>>

Step(p) ==
  \/ Replay(p) \/ Capture(p) \/ Snapshot(p) \/ SnapFill(p) \/ Create(p) \/ Fill(p) \/ Judge(p)
  \/ Link(p) \/ Place(p) \/ Untie(p) \/ Refuse(p) \/ Clean(p) \/ Abort(p)
  \/ Inspect(p) \/ Stage(p) \/ PublishHistory(p) \/ Draft(p) \/ DraftFill(p) \/ Check(p)
  \/ Handoff(p) \/ Swap(p) \/ Done(p)

Next ==
  \/ \E p \in Procs :
       \/ Call(p) \/ Acquire(p) \/ GiveUp(p) \/ Step(p)
       \/ Fail(p) \/ Crash(p) \/ Unnamed(p) \/ Undone(p) \/ RemoveLock(p)
  \/ RemoveTemp

(* A writer that is not killed goes on; a dead one's lock is removed.       *)
Fairness == \A p \in Procs : WF_vars(Step(p)) /\ WF_vars(RemoveLock(p))

Spec == Init /\ [][Next]_vars /\ Fairness

-----------------------------------------------------------------------------
(* What the rows of the ledger refer to is there: the snapshot of a row     *)
(* with custody, whole, and an association bound to the ledger up to the    *)
(* row itself, whoever aborted, failed or was killed in between.            *)
ReferencesHold ==
  \A i \in 1..Len(ledger) : ledger[i] \in Keeping =>
    /\ snaps[Digest[ledger[i]]] = "whole"
    /\ ledger[i] \in Retained =>
         Len(assoc[ledger[i]]) = i /\ Prefix(assoc[ledger[i]], ledger)

(* "Refusal preserves the previous ledger bytes" and cleans up: without a   *)
(* fault no call leaves a candidate (but a refused marker), a snapshot or   *)
(* an association no row refers to, or history without its name; an         *)
(* association without its row would make every later candidate invalid.    *)
AbortLeavesNothing ==
  (faults = 0 /\ lock = Nobody) =>
    /\ temp = NoTemp \/ \E s \in Seals : temp.rows = <<s>>
    /\ \A d \in Digests : snaps[d] # "absent" =>
         \E r \in Keeping : Digest[r] = d /\ Holds(ledger, r)
    /\ \A r \in Retained : assoc[r] # <<>> => Holds(ledger, r)
    /\ blob \in {"none", "published"}

(* A lock file with a holder in it does not stay: a writer that has got     *)
(* past its lock line gives it up on success, on every refusal and on every *)
(* failure, and when it is killed, or cannot give it up, an operator finds  *)
(* its pid dead. One whose line could not be written names no pid to look   *)
(* for, and nothing removes it.                                             *)
LockIsReleased == []<>(lock = Nobody \/ \E p \in Procs : pc[p] = "unnamed")

(* The files implement the log of LedgerLog: rows are added one at a time   *)
(* to what they settle or close, success is told of rows that are there,    *)
(* and only an exact marker is ever taken back.                             *)
ImplementsLog == Log!Spec
=============================================================================
