---------------------------- MODULE ProcessGroup ----------------------------
(***************************************************************************)
(* One private POSIX process group and the owner that starts and settles   *)
(* it (PosixProcessGroupOwnerV1,                                           *)
(* src/scripts/process_supervision/posix_process_group.py), for several    *)
(* one-shot owners in threads of one process. On Linux an owner holds a    *)
(* global lock from acquire to the end of settle or close, because it      *)
(* makes the whole process a child subreaper meanwhile; elsewhere owners   *)
(* run side by side and orphans go to init.                                *)
(*                                                                         *)
(* Members of the group are the direct child and descendants that stay in  *)
(* the group. The kernel's part (fork, exit, reparenting, reaping by other *)
(* parents) is external: members do as they like at any time. So SIGTERM   *)
(* changes nothing here, and after SIGKILL a member forks no more but may  *)
(* take any time to end. Deadlines pass at any time.                       *)
(***************************************************************************)
EXTENDS FiniteSets

CONSTANTS Owners, Direct, Kids, NoOwner

Members == {Direct} \cup Kids

ASSUME NamesDistinct ==
  /\ Direct \notin Kids /\ NoOwner \notin Owners
  /\ {"us", "init"} \cap Members = {}

VARIABLES
  linux,     \* self._linux, the same for every owner
  initial,   \* the subreaper flag of the process before any owner
  flag,      \* the subreaper flag of the process
  holder,    \* who holds _LINUX_SUBREAPER_LOCK
  pc,        \* where the owner's thread is
  libc,      \* self._libc is set: the flag is to be restored
  prior,     \* self._prior_child_subreaper
  restored,  \* child_subreaper_restored, what the closure says
  refused,   \* the kernel refused to restore the flag (auxiliary: only the
             \* properties read it)
  life,      \* the state of each member
  parent,    \* whose child each descendant is
  status,    \* the direct process' exit status was collected by its Popen
  attended,  \* settle has the direct process (close has not)
  expired,   \* the deadline of the settlement's current loop has passed
  absent     \* group_absent

kernel  == <<life, parent>>
global  == <<linux, initial>>
closing == <<restored, refused>>
vars == <<linux, initial, flag, holder, pc, libc, prior, restored, refused,
          life, parent, status, attended, expired, absent>>

Places == {"idle", "get", "set", "spawn", "work", "reap", "term", "grace",
           "graceLook", "kill", "force", "forceLook", "last", "lastLook",
           "restore", "release", "closed", "unclosed", "undo", "undone",
           "failed"}

(* An owner's end: closed, left unbound by a close that raised, or never   *)
(* handed out because acquire raised.                                      *)
Ended == {"closed", "unclosed", "failed"}

(* The restoration was tried.                                              *)
After == {"release", "undone"} \cup Ended

Lives  == {"none", "alive", "dying", "zombie", "gone"}

TypeOK ==
  /\ linux \in BOOLEAN /\ initial \in BOOLEAN /\ flag \in BOOLEAN
  /\ holder \in {NoOwner} \cup (IF linux THEN Owners ELSE {})
  /\ pc \in [Owners -> Places]
  /\ libc \in [Owners -> BOOLEAN] /\ prior \in [Owners -> BOOLEAN]
  /\ restored \in [Owners -> BOOLEAN] /\ refused \in [Owners -> BOOLEAN]
  /\ life \in [Owners -> [Members -> Lives]]
  /\ parent \in [Owners -> [Kids -> Members \cup {"us", "init"}]]
  /\ status \in [Owners -> BOOLEAN] /\ attended \in [Owners -> BOOLEAN]
  /\ expired \in [Owners -> BOOLEAN] /\ absent \in [Owners -> BOOLEAN]

Init ==
  /\ linux \in BOOLEAN /\ initial \in BOOLEAN
  /\ flag = initial
  /\ holder = NoOwner
  /\ pc = [o \in Owners |-> "idle"]
  /\ libc = [o \in Owners |-> FALSE]
  /\ prior = [o \in Owners |-> FALSE]
  /\ restored = [o \in Owners |-> TRUE]
  /\ refused = [o \in Owners |-> FALSE]
  /\ life = [o \in Owners |-> [m \in Members |-> "none"]]
  /\ parent = [o \in Owners |-> [k \in Kids |-> "us"]]
  /\ status = [o \in Owners |-> FALSE]
  /\ attended = [o \in Owners |-> FALSE]
  /\ expired = [o \in Owners |-> FALSE]
  /\ absent = [o \in Owners |-> FALSE]

Goto(o, from, to) == pc[o] = from /\ pc' = [pc EXCEPT ![o] = to]

-----------------------------------------------------------------------------
(* The members of the group: external.                                     *)

Running(o, m) == life[o][m] = "alive"
Ending(o, m)  == life[o][m] \in {"alive", "dying"}

(* A running member starts a descendant.                                   *)
Forks(o, m, k) ==
  /\ Running(o, m) /\ life[o][k] = "none"
  /\ life' = [life EXCEPT ![o][k] = "alive"]
  /\ parent' = [parent EXCEPT ![o][k] = m]
  /\ UNCHANGED <<global, flag, holder, pc, libc, prior, closing, status,
                 attended, expired, absent>>

Heir == IF linux /\ flag THEN "us" ELSE "init"

(* A member ends; its children get another parent: this process while it   *)
(* is a subreaper, or init, which stands for every other ancestor.         *)
Ends(o, m) ==
  /\ Ending(o, m)
  /\ life' = [life EXCEPT ![o][m] = "zombie"]
  /\ parent' = [parent EXCEPT ![o] =
       [k \in Kids |-> IF parent[o][k] = m THEN Heir ELSE parent[o][k]]]
  /\ UNCHANGED <<global, flag, holder, pc, libc, prior, closing, status,
                 attended, expired, absent>>

(* A descendant is reaped by a parent other than this process.             *)
ReapedElsewhere(o, k) ==
  /\ life[o][k] = "zombie" /\ parent[o][k] # "us"
  /\ life' = [life EXCEPT ![o][k] = "gone"]
  /\ UNCHANGED <<global, flag, holder, pc, libc, prior, closing, parent,
                 status, attended, expired, absent>>

(* The caller polls the direct process while it reads its output.          *)
CallerPolls(o) ==
  /\ pc[o] = "work" /\ life[o][Direct] = "zombie"
  /\ life' = [life EXCEPT ![o][Direct] = "gone"]
  /\ status' = [status EXCEPT ![o] = TRUE]
  /\ UNCHANGED <<global, flag, holder, pc, libc, prior, closing, parent,
                 attended, expired, absent>>

KernelStep(o) ==
  \/ \E m \in Members : Ends(o, m) \/ (\E k \in Kids : Forks(o, m, k))
  \/ \E k \in Kids : ReapedElsewhere(o, k)

-----------------------------------------------------------------------------
(* acquire, spawn and bind.                                                *)

(* Mutant of Acquire: the platform is not looked at.                       *)
AcquireAnywhere(o) ==
  /\ Goto(o, "idle", "get") /\ holder = NoOwner /\ holder' = o
  /\ UNCHANGED <<global, flag, libc, prior, closing, kernel, status,
                 attended, expired, absent>>

Acquire(o) ==
  /\ Goto(o, "idle", IF linux THEN "get" ELSE "spawn")
  /\ linux => holder = NoOwner
  /\ holder' = IF linux THEN o ELSE holder
  /\ UNCHANGED <<global, flag, libc, prior, closing, kernel, status,
                 attended, expired, absent>>

(* PR_GET_CHILD_SUBREAPER; a failure leaves _libc unset, so that acquire,  *)
(* which undoes what it did and raises, has nothing to restore.            *)
GetFlag(o) ==
  /\ \/ /\ Goto(o, "get", "set")
        /\ libc' = [libc EXCEPT ![o] = TRUE]
        /\ prior' = [prior EXCEPT ![o] = flag]
     \/ /\ Goto(o, "get", "undo")
        /\ UNCHANGED <<libc, prior>>
  /\ UNCHANGED <<global, flag, holder, closing, kernel, status, attended,
                 expired, absent>>

(* Mutant of SetFlag: the flag that was read is the one that is set.       *)
SetFlagAsRead(o) ==
  /\ \/ Goto(o, "set", "spawn") /\ flag' = prior[o]
     \/ Goto(o, "set", "undo") /\ UNCHANGED flag
  /\ UNCHANGED <<global, holder, libc, prior, closing, kernel, status,
                 attended, expired, absent>>

(* PR_SET_CHILD_SUBREAPER; an interrupt may come when it has succeeded.    *)
SetFlag(o) ==
  /\ \/ Goto(o, "set", "spawn") /\ flag' = TRUE
     \/ Goto(o, "set", "undo") /\ flag' \in {flag, TRUE}
  /\ UNCHANGED <<global, holder, libc, prior, closing, kernel, status,
                 attended, expired, absent>>

(* bind_process_group after a spawn; the other outcome is a spawn that     *)
(* raised, after which the caller closes the unbound owner.                *)
Bind(o) ==
  /\ \/ /\ Goto(o, "spawn", "work")
        /\ life' = [life EXCEPT ![o][Direct] = "alive"]
     \/ Goto(o, "spawn", "restore") /\ UNCHANGED life
  /\ UNCHANGED <<global, flag, holder, libc, prior, closing, parent, status,
                 attended, expired, absent>>

-----------------------------------------------------------------------------
(* settle, or close of a bound owner, which settles without the Popen.     *)

Settle(o) ==
  /\ Goto(o, "work", "reap")
  /\ \E a \in BOOLEAN : attended' = [attended EXCEPT ![o] = a]
  /\ UNCHANGED <<global, flag, holder, libc, prior, closing, kernel, status,
                 expired, absent>>

GroupExists(o) == \E m \in Members : life[o][m] \in {"alive", "dying", "zombie"}

(* poll of the direct process says it ended, and collects its status.      *)
PollDirect(o) == attended[o] /\ life[o][Direct] \in {"zombie", "gone"}

(* _reap_group polls on Linux only; the loops poll before it everywhere.   *)
Polls(o) == linux \/ pc[o] \in {"grace", "force"}

(* Mutant of Reapable: the group is reaped before the Popen is asked.      *)
ReapableUnpolled(o) ==
  {m \in Members : linux /\ life[o][m] = "zombie"
                   /\ (m = Direct \/ parent[o][m] = "us")}

(* waitpid(-process_group): ended children of this process, once the       *)
(* direct process is known to have ended.                                  *)
Reapable(o) ==
  {k \in Kids : linux /\ PollDirect(o)
                /\ life[o][k] = "zombie" /\ parent[o][k] = "us"}

Collected(o) == IF Polls(o) /\ PollDirect(o) THEN {Direct} ELSE {}

(* _reap_group raises when it has something to do after the deadline; the  *)
(* loops look at their deadline first, the reaping after them does not.    *)
TooLate(o) == pc[o] = "last" /\ expired[o] /\ linux /\ PollDirect(o)
InTime(o)  == pc[o] \in {"grace", "force"} => ~expired[o]

AfterReap == [reap |-> "term", grace |-> "graceLook",
              force |-> "forceLook", last |-> "lastLook"]

ReapGroup(o) ==
  /\ pc[o] \in DOMAIN AfterReap /\ InTime(o)
  /\ LET reaped == Collected(o) \cup (IF TooLate(o) THEN {} ELSE Reapable(o))
     IN  /\ life' = [life EXCEPT ![o] =
              [m \in Members |-> IF m \in reaped THEN "gone" ELSE life[o][m]]]
         /\ status' = [status EXCEPT ![o] = status[o] \/ Direct \in Collected(o)]
  /\ pc' = [pc EXCEPT ![o] = IF TooLate(o) THEN "restore" ELSE AfterReap[pc[o]]]
  /\ UNCHANGED <<global, flag, holder, libc, prior, closing, parent,
                 attended, expired, absent>>

(* Mutant of SeesAbsent: the end of the direct process is enough.          *)
SeesDirectEnd(o) == PollDirect(o)

(* The group is absent when no member is left and the direct process was   *)
(* seen to end.                                                            *)
SeesAbsent(o) == ~GroupExists(o) /\ PollDirect(o)

Look(o) ==
  /\ \/ Goto(o, "graceLook", IF SeesAbsent(o) THEN "last" ELSE "grace")
     \/ Goto(o, "forceLook", IF SeesAbsent(o) THEN "last" ELSE "force")
     \/ Goto(o, "lastLook", "restore")
  /\ absent' = [absent EXCEPT ![o] = SeesAbsent(o)]
  /\ expired' = [expired EXCEPT ![o] =
       expired[o] /\ ~(pc[o] = "graceLook" /\ SeesAbsent(o))]
  /\ UNCHANGED <<global, flag, holder, libc, prior, closing, kernel, status,
                 attended>>

(* SIGTERM to what is left of the group.                                   *)
Term(o) ==
  /\ Goto(o, "term", "grace")
  /\ UNCHANGED <<global, flag, holder, libc, prior, closing, kernel, status,
                 attended, expired, absent>>

DeadlinePasses(o) ==
  /\ pc[o] \in {"grace", "graceLook", "force", "forceLook"} /\ ~expired[o]
  /\ expired' = [expired EXCEPT ![o] = TRUE]
  /\ UNCHANGED <<global, flag, holder, pc, libc, prior, closing, kernel,
                 status, attended, absent>>

(* The end of the grace; the deadline of the settlement is a later one.    *)
GraceOver(o) ==
  /\ Goto(o, "grace", "kill") /\ expired[o]
  /\ expired' = [expired EXCEPT ![o] = FALSE]
  /\ UNCHANGED <<global, flag, holder, libc, prior, closing, kernel, status,
                 attended, absent>>

(* SIGKILL to what is left of the group.                                   *)
Kill(o) ==
  /\ Goto(o, "kill", "force")
  /\ life' = [life EXCEPT ![o] = [m \in Members |->
       IF Running(o, m) THEN "dying" ELSE life[o][m]]]
  /\ UNCHANGED <<global, flag, holder, libc, prior, closing, parent, status,
                 attended, expired, absent>>

ForceOver(o) ==
  /\ Goto(o, "force", "last") /\ expired[o]
  /\ UNCHANGED <<global, flag, holder, libc, prior, closing, kernel, status,
                 attended, expired, absent>>

(* A signal that is not permitted, a deadline inside the reaping loop or   *)
(* an interrupt: what the settlement saw so far stands.                    *)
SettleRaises(o) ==
  /\ pc[o] \in {"reap", "term", "grace", "graceLook", "kill", "force",
                "forceLook", "last", "lastLook"}
  /\ pc' = [pc EXCEPT ![o] = "restore"]
  /\ UNCHANGED <<global, flag, holder, libc, prior, closing, kernel, status,
                 attended, expired, absent>>

-----------------------------------------------------------------------------
(* _restore_and_release: the flag, then, whatever came of it, the lock.    *)
(* Called by settle and close, and by an acquire that failed.              *)

(* Mutant of Restore: the flag is switched off, not given back.            *)
RestoreOff(o) ==
  /\ Goto(o, "restore", "release") \/ Goto(o, "undo", "undone")
  /\ \E done \in BOOLEAN :
       /\ flag' = IF libc[o] /\ done THEN FALSE ELSE flag
       /\ restored' = [restored EXCEPT ![o] = done \/ ~libc[o]]
       /\ refused' = [refused EXCEPT ![o] = libc[o] /\ ~done]
  /\ libc' = [libc EXCEPT ![o] = FALSE]
  /\ UNCHANGED <<global, holder, prior, kernel, status, attended, expired,
                 absent>>

Restore(o) ==
  /\ Goto(o, "restore", "release") \/ Goto(o, "undo", "undone")
  /\ \E done \in BOOLEAN :
       /\ flag' = IF libc[o] /\ done THEN prior[o] ELSE flag
       /\ restored' = [restored EXCEPT ![o] = done \/ ~libc[o]]
       /\ refused' = [refused EXCEPT ![o] = libc[o] /\ ~done]
  /\ libc' = [libc EXCEPT ![o] = FALSE]
  /\ UNCHANGED <<global, holder, prior, kernel, status, attended, expired,
                 absent>>

(* A process group was bound.                                              *)
Bound(o) == life[o][Direct] # "none"

(* Mutant of Release: a restoration that failed skips the release.         *)
ReleaseRestored(o) ==
  /\ \/ Goto(o, "release", IF Bound(o) \/ restored[o] THEN "closed" ELSE "unclosed")
     \/ Goto(o, "undone", "failed")
  /\ holder' = IF holder = o /\ restored[o] THEN NoOwner ELSE holder
  /\ absent' = [absent EXCEPT ![o] = absent[o] \/ (pc'[o] = "closed" /\ ~Bound(o))]
  /\ UNCHANGED <<global, flag, libc, prior, closing, kernel, status,
                 attended, expired>>

(* settle stores the closure of a bound owner whatever happened; close of  *)
(* an unbound one stores it, with the group absent, unless the restoration *)
(* was refused: then close raises, and no closure is kept. acquire raises  *)
(* its first error and hands out no owner.                                 *)
Release(o) ==
  /\ \/ Goto(o, "release", IF Bound(o) \/ restored[o] THEN "closed" ELSE "unclosed")
     \/ Goto(o, "undone", "failed")
  /\ holder' = IF holder = o THEN NoOwner ELSE holder
  /\ absent' = [absent EXCEPT ![o] = absent[o] \/ (pc'[o] = "closed" /\ ~Bound(o))]
  /\ UNCHANGED <<global, flag, libc, prior, closing, kernel, status,
                 attended, expired>>

(* close of an unbound owner whose first close raised: no _libc is left to *)
(* restore with and no lock to release, so the closure that is stored now  *)
(* says restored. Nobody has to call it.                                   *)
CloseAgain(o) ==
  /\ Goto(o, "unclosed", "closed")
  /\ restored' = [restored EXCEPT ![o] = TRUE]
  /\ absent' = [absent EXCEPT ![o] = TRUE]
  /\ UNCHANGED <<global, flag, holder, libc, prior, refused, kernel, status,
                 attended, expired>>

-----------------------------------------------------------------------------
OwnerStep(o) ==
  \/ GetFlag(o) \/ SetFlag(o) \/ Bind(o)
  \/ Settle(o) \/ ReapGroup(o) \/ Look(o) \/ Term(o) \/ Kill(o)
  \/ GraceOver(o) \/ ForceOver(o) \/ Restore(o) \/ Release(o)

(* No owner is at work; one that has not begun need never begin.           *)
Finished ==
  /\ \A o \in Owners : pc[o] \in {"idle"} \cup Ended
  /\ UNCHANGED vars

Next ==
  \/ \E o \in Owners : \/ Acquire(o) \/ OwnerStep(o) \/ DeadlinePasses(o) \/ SettleRaises(o)
                       \/ CallerPolls(o) \/ CloseAgain(o) \/ KernelStep(o)
  \/ Finished

(* A thread that has acquired runs on, and its caller reads the output     *)
(* under a deadline. The clock passes every deadline.                      *)
Fairness ==
  \A o \in Owners : WF_vars(OwnerStep(o)) /\ WF_vars(DeadlinePasses(o))

Spec == Init /\ [][Next]_vars /\ Fairness

-----------------------------------------------------------------------------
(* A settlement that reports the group absent is right, and stays right:   *)
(* no member, not even an unreaped one, is left to write after the caller  *)
(* was told the tree is empty (PosixProcessGroupClosureV1.complete).       *)
AbsentIsGone == \A o \in Owners : absent[o] => ~GroupExists(o)

(* Reaping the group never takes the direct process' exit status from the  *)
(* Popen that waits for it (_reap_group polls it first).                   *)
StatusIsKept ==
  \A o \in Owners : life[o][Direct] = "gone" => status[o]

(* Between owners the process is what it was before the first one, unless  *)
(* the kernel refused a restoration. The closure of an owner with a bound  *)
(* group says whether its own was refused. Others do not: an acquire that  *)
(* failed swallows the refusal, and an unbound owner that is closed again  *)
(* after one (CloseAgain) says restored.                                   *)
FlagGivenBack ==
  /\ holder = NoOwner => flag = initial \/ \E o \in Owners : refused[o]
  /\ \A o \in Owners : pc[o] = "closed" /\ Bound(o) => restored[o] = ~refused[o]

(* On Linux an orphan of a group that is not settled comes to this         *)
(* process, where it can be reaped, whatever other owners do meanwhile.    *)
OrphansComeHome ==
  linux => \A o \in Owners :
    pc[o] \notin After => \A k \in Kids : parent[o][k] # "init"

(* Every owner lets go of the lock, whatever fails: no settlement and no   *)
(* acquire that raises blocks the next acquire for good.                   *)
LockIsReleased ==
  \A o \in Owners : pc[o] # "idle" ~> pc[o] \in Ended /\ holder # o
=============================================================================
