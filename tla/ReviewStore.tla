----------------------------- MODULE ReviewStore -----------------------------
(***************************************************************************)
(* The files behind a review loop's record and the processes that write    *)
(* them (src/scripts/review_loop_state.py): the state file, replaced       *)
(* through a temporary file; the frozen snapshots of the artifact under    *)
(* review; the kernel lock that a crash releases; the recovery of what a   *)
(* crashed owner left. Each call runs one command of an operation id, and  *)
(* is called again with the same id when it had no answer.                 *)
(*                                                                         *)
(* One action is one file operation, or one read with the decision taken   *)
(* on it. A crash ends the process between any two of them.                *)
(***************************************************************************)
EXTENDS Naturals, Sequences, FiniteSets

CONSTANTS
  Procs,        \* processes that call the owner
  Begin, Ops,   \* operation ids: the begin, and all of them
  Freezing,     \* the ids whose command freezes a snapshot (begin, next-round)
  Contents,     \* contents of the artifact file
  MaxReceipts,  \* bound on the receipts drawn
  MaxCrashes    \* bound on crashes

ASSUME OpsAreOps == Begin \in Freezing /\ Freezing \subseteq Ops
ASSUME BoundsAreNumbers ==
  MaxReceipts \in Nat /\ MaxCrashes \in Nat

VARIABLES
  file,       \* the operations in the state file, <<>> when there is no file
  snapshots,  \* snapshot files, [round, content]
  temps,      \* temporary files, [owner, kind]
  holder,     \* who holds the kernel lock
  pc, op,     \* per process: where it is, and the operation it was called for
  content,    \* what the artifact file held when the call read it for its fingerprint,
              \* as a set
  loaded,     \* the operations it has loaded
  created,    \* the snapshot its call has created, as a set
  frozen,     \* the snapshot its round refers to, as a set
  prepared,   \* the operation it is about to commit, as a set
  receipts,   \* receipts drawn so far
  crashes,
  answers     \* history: answers given, [id, receipt]

files  == <<file, snapshots, temps>>
locals == <<op, content, loaded, created, frozen, prepared>>
vars   == <<files, holder, pc, op, content, loaded, created, frozen, prepared, receipts,
            crashes, answers>>

Nobody    == "nobody"

ASSUME FreezingIsFinite == IsFiniteSet(Freezing)
ASSUME NobodyIsNoProc == Nobody \notin Procs

Snapshots == [round : 1..Cardinality(Freezing), content : Contents]
Entries   == [id : Ops, receipt : 1..MaxReceipts, content : SUBSET Contents, snap : SUBSET Snapshots]
Places    == {"idle", "lock", "recover", "load", "freeze", "publish", "decide", "write",
              "replace", "readback", "abort", "unlock", "unlockClean", "look", "unlink"}

SeqSet(s) == {s[i] : i \in 1..Len(s)}

Referenced(ops) == UNION {e.snap : e \in SeqSet(ops)}

TypeOK ==
  /\ SeqSet(file) \subseteq Entries /\ snapshots \subseteq Snapshots
  /\ temps \subseteq [owner : Procs, kind : {"state", "artifact"}]
  /\ holder \in Procs \cup {Nobody}
  /\ pc \in [Procs -> Places] /\ op \in [Procs -> Ops] /\ content \in [Procs -> SUBSET Contents]
  /\ \A p \in Procs : /\ SeqSet(loaded[p]) \subseteq Entries
                      /\ created[p] \subseteq frozen[p] /\ frozen[p] \subseteq Snapshots
                      /\ prepared[p] \subseteq Entries
  /\ receipts \in 0..MaxReceipts /\ crashes \in 0..MaxCrashes
  /\ answers \subseteq [id : Ops, receipt : 1..MaxReceipts]

Init ==
  /\ file = <<>> /\ snapshots = {} /\ temps = {} /\ holder = Nobody
  /\ pc = [p \in Procs |-> "idle"]
  /\ op = [p \in Procs |-> Begin]
  /\ content = [p \in Procs |-> {}]
  /\ loaded = [p \in Procs |-> <<>>]
  /\ created = [p \in Procs |-> {}] /\ frozen = [p \in Procs |-> {}]
  /\ prepared = [p \in Procs |-> {}]
  /\ receipts = 0 /\ crashes = 0 /\ answers = {}

-----------------------------------------------------------------------------
Goto(p, place) == pc' = [pc EXCEPT ![p] = place]

Temp(p, k) == [owner |-> p, kind |-> k]

(* What a process has in memory goes with its call.                         *)
End(p) ==
  /\ Goto(p, "idle")
  /\ op' = [op EXCEPT ![p] = Begin]
  /\ created' = [created EXCEPT ![p] = {}] /\ frozen' = [frozen EXCEPT ![p] = {}]
  /\ loaded' = [loaded EXCEPT ![p] = <<>>] /\ prepared' = [prepared EXCEPT ![p] = {}]
  /\ content' = [content EXCEPT ![p] = {}]

Move(p, place) == Goto(p, place) /\ UNCHANGED locals

(* A call: which operation, and what the artifact file holds, if it is read.*)
Call(p) ==
  /\ pc[p] = "idle" /\ Goto(p, "lock")
  /\ \E o \in Ops : op' = [op EXCEPT ![p] = o]
  /\ \E c \in Contents : content' = [content EXCEPT ![p] = IF op'[p] \in Freezing THEN {c} ELSE {}]
  /\ UNCHANGED <<files, holder, loaded, created, frozen, prepared, receipts, crashes, answers>>

AnyoneLocks == holder \in Procs \cup {Nobody}   \* mutant of Lockable: file presence only

(* The kernel lock, not waited for.                                         *)
Lockable == holder = Nobody

Lock(p) ==
  /\ pc[p] = "lock"
  /\ IF Lockable THEN holder' = p /\ Move(p, "recover")
                 ELSE End(p) /\ UNCHANGED holder   \* RLSTATE_LOCKED
  /\ UNCHANGED <<files, receipts, crashes, answers>>

OrphanStateTemps == {t \in temps : t.kind = "state"}   \* mutant of OrphanTemps

(* What no record refers to.                                                *)
OrphanTemps == temps
OrphanSnapshots == snapshots \ Referenced(file)

(* _recover_owned_resources, one file at a time; RLSTATE_RECOVERY_REQUIRED  *)
(* when there is no record and the command needs one.                       *)
Recover(p) ==
  /\ pc[p] = "recover"
  /\ \/ file = <<>> /\ op[p] # Begin /\ Goto(p, "unlock") /\ UNCHANGED files
     \/ /\ file # <<>> \/ op[p] = Begin
        /\ \/ \E t \in OrphanTemps : temps' = temps \ {t} /\ UNCHANGED <<snapshots, pc>>
           \/ \E s \in OrphanSnapshots :
                snapshots' = snapshots \ {s} /\ UNCHANGED <<temps, pc>>
           \/ /\ OrphanTemps = {} /\ OrphanSnapshots = {}
              /\ Goto(p, "load") /\ UNCHANGED <<temps, snapshots>>
        /\ UNCHANGED file
  /\ UNCHANGED <<holder, locals, receipts, crashes, answers>>

ReplayedRounds(p) == {e \in SeqSet(file) : e.id = op[p] /\ e.snap # {}}   \* mutant of Replayed

(* _operation: the entry already committed under the call's operation id.   *)
Replayed(p) == {e \in SeqSet(file) : e.id = op[p]}

(* The fingerprint of a freezing command covers the content it read.        *)
SamePayload(p, e) == e.content = content[p]

(* Load, replay or conflict, and _verify_artifacts.                         *)
Load(p) ==
  /\ pc[p] = "load"
  /\ loaded' = [loaded EXCEPT ![p] = file]
  /\ \/ /\ Replayed(p) # {} /\ Goto(p, "unlock")
        /\ answers' = answers \cup {[id |-> e.id, receipt |-> e.receipt] :
                                     e \in {f \in Replayed(p) : SamePayload(p, f)}}
     \/ /\ Replayed(p) = {} /\ UNCHANGED answers
        /\ IF op[p] = Begin
             THEN Goto(p, IF file = <<>> THEN "freeze" ELSE "unlock")
             ELSE Goto(p, IF ~(Referenced(file) \subseteq snapshots) THEN "unlock"
                          ELSE IF op[p] \in Freezing THEN "freeze" ELSE "decide")
  /\ UNCHANGED <<files, holder, op, content, created, frozen, prepared, receipts, crashes>>

(* _freeze_snapshot: copy to a temporary file, then give it its name; a     *)
(* file that has the name already has the same content and is reused. The   *)
(* artifact file may have been edited since the call read it.               *)
Freeze(p) ==
  /\ pc[p] = "freeze"
  /\ temps' = temps \cup {Temp(p, "artifact")}
  /\ \E place \in {"publish", "abort"} : Goto(p, place)
  /\ UNCHANGED <<file, snapshots, holder, locals, receipts, crashes, answers>>

RoundOfLog(p) == 1 + Len(loaded[p])   \* mutant of RoundNumber: rounds counted as operations

RoundNumber(p) == 1 + Cardinality({e \in SeqSet(loaded[p]) : e.id \in Freezing})

Publish(p) ==
  /\ pc[p] = "publish"
  /\ \E c \in Contents : LET s == [round |-> RoundNumber(p), content |-> c] IN
       /\ snapshots' = snapshots \cup {s}
       /\ created' = [created EXCEPT ![p] = {s} \ snapshots]
       /\ frozen' = [frozen EXCEPT ![p] = {s}]
  /\ temps' = temps \ {Temp(p, "artifact")}
  /\ Goto(p, "decide")
  /\ UNCHANGED <<file, holder, op, content, loaded, prepared, receipts, crashes, answers>>

(* "next round requires a changed artifact revision": another content than  *)
(* the round before was frozen with.                                        *)
Changed(p) ==
  \A s \in frozen[p], t \in Referenced(loaded[p]) :
    s.round = t.round + 1 => s.content # t.content

(* The transition of the command accepts or refuses (ReviewLoop says when), *)
(* after the freeze; an accepted one draws fresh ids for its receipt.       *)
Decide(p) ==
  /\ pc[p] = "decide"
  /\ \/ /\ Changed(p)
        /\ receipts < MaxReceipts /\ receipts' = receipts + 1
        /\ prepared' = [prepared EXCEPT ![p] =
             {[id |-> op[p], receipt |-> receipts + 1, content |-> content[p], snap |-> frozen[p]]}]
        /\ Goto(p, "write")
     \/ Goto(p, "abort") /\ UNCHANGED <<receipts, prepared>>
  /\ UNCHANGED <<files, holder, op, content, loaded, created, frozen, crashes, answers>>

(* _atomic_write: write a temporary file, put it in place, read it back.    *)
Write(p) ==
  /\ pc[p] = "write"
  /\ temps' = temps \cup {Temp(p, "state")}
  /\ \E place \in {"replace", "abort"} : Goto(p, place)
  /\ UNCHANGED <<file, snapshots, holder, locals, receipts, crashes, answers>>

Replace(p) ==
  /\ pc[p] = "replace"
  /\ \/ /\ \E e \in prepared[p] : file' = Append(loaded[p], e)
        /\ temps' = temps \ {Temp(p, "state")} /\ Goto(p, "readback")
     \/ Goto(p, "abort") /\ UNCHANGED <<file, temps>>
  /\ UNCHANGED <<snapshots, holder, locals, receipts, crashes, answers>>

(* RLSTATE_COMMIT_UNCERTAIN when the read-back does not settle.             *)
Readback(p) ==
  /\ pc[p] = "readback"
  /\ \/ /\ answers' = answers \cup {[id |-> e.id, receipt |-> e.receipt] : e \in prepared[p]}
        /\ Goto(p, "unlock")
     \/ Goto(p, "abort") /\ UNCHANGED answers
  /\ UNCHANGED <<files, holder, locals, receipts, crashes>>

(* An exception: the owner removes its temporary files; begin cleans up its *)
(* snapshot under the lock, next-round after it has left the lock.          *)
Abort(p) ==
  /\ pc[p] = "abort"
  /\ temps' = {t \in temps : t.owner # p}
  /\ Goto(p, IF created[p] = {} THEN "unlock"
             ELSE IF op[p] = Begin THEN "look" ELSE "unlockClean")
  /\ UNCHANGED <<file, snapshots, holder, locals, receipts, crashes, answers>>

Released(p) == IF holder = p THEN Nobody ELSE holder

Unlock(p) ==
  /\ pc[p] \in {"unlock", "unlockClean"}
  /\ holder' = Released(p)
  /\ IF pc[p] = "unlock" THEN End(p) ELSE Move(p, "look")
  /\ UNCHANGED <<files, receipts, crashes, answers>>

UnlinkAnyway(p) == created[p] \subseteq snapshots   \* mutant of Unlinkable: referenced or not

UnlinkBegun(p) ==   \* mutant of Unlinkable: only begin cleans up
  op[p] = Begin /\ created[p] \subseteq snapshots /\ created[p] \cap Referenced(file) = {}

(* _cleanup_if_unreferenced: read the record, then unlink.                  *)
Unlinkable(p) == created[p] \subseteq snapshots /\ created[p] \cap Referenced(file) = {}

CleanedUp(p) == IF holder = p THEN Move(p, "unlock") ELSE End(p)

Look(p) ==
  /\ pc[p] = "look"
  /\ IF Unlinkable(p) THEN Move(p, "unlink") ELSE CleanedUp(p)
  /\ UNCHANGED <<files, holder, receipts, crashes, answers>>

Unlink(p) ==
  /\ pc[p] = "unlink"
  /\ snapshots' = snapshots \ created[p]
  /\ CleanedUp(p)
  /\ UNCHANGED <<file, temps, holder, receipts, crashes, answers>>

(* The process ends; the kernel releases its lock.                          *)
Crash(p) ==
  /\ pc[p] # "idle" /\ crashes < MaxCrashes
  /\ crashes' = crashes + 1
  /\ holder' = Released(p) /\ End(p)
  /\ UNCHANGED <<files, receipts, answers>>

Next ==
  \E p \in Procs :
    \/ Call(p) \/ Lock(p) \/ Recover(p) \/ Load(p) \/ Freeze(p) \/ Publish(p) \/ Decide(p)
    \/ Write(p) \/ Replace(p) \/ Readback(p) \/ Abort(p) \/ Unlock(p) \/ Look(p)
    \/ Unlink(p) \/ Crash(p)

Spec == Init /\ [][Next]_vars

-----------------------------------------------------------------------------
(* A record is only ever extended from what is in the file: a writer's      *)
(* loaded record is current until it has replaced it (_mutate under _Lock). *)
NoStaleWrite ==
  \A p \in Procs : pc[p] \in {"freeze", "publish", "decide", "write", "replace"} =>
    loaded[p] = file

(* What a crash has left is gone before the next command reads the record:  *)
(* "the next lock-owning invocation reconciles".                            *)
RecoveredBeforeUse ==
  \A p \in Procs : pc[p] = "load" => temps = {} /\ snapshots \subseteq Referenced(file)

(* "Graceful cancellation cleans owned uncommitted resources": without a    *)
(* crash nothing unreferenced is left when no call is in progress.          *)
GracefulLeavesNothing ==
  (crashes = 0 /\ \A p \in Procs : pc[p] = "idle") =>
    temps = {} /\ snapshots \subseteq Referenced(file)

(* "reconciles only unreferenced engine-owned resources": the snapshots     *)
(* the committed record refers to are there.                                *)
ReferencedExist == Referenced(file) \subseteq snapshots

(* The same for as long as only one process calls the owner: no crash,      *)
(* uncertain commit, call again or cleanup of its own loses a snapshot.     *)
ReferencedExistAlone ==
  \A p \in Procs : [](\A q \in Procs \ {p} : pc[q] = "idle") => []ReferencedExist

(* The store implements the operation log of ReviewLog: the record is that  *)
(* log, an id is committed once, and every answer is its receipt, across    *)
(* crashes, uncertain commits and calls again with the same id.             *)
Log == INSTANCE ReviewLog WITH
  Receipts <- 1..MaxReceipts,
  log <- [i \in 1..Len(file) |-> [id |-> file[i].id, receipt |-> file[i].receipt]]

ImplementsLog == Log!Spec
=============================================================================
