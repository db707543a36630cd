------------------------------ MODULE WorkItems ------------------------------
(***************************************************************************)
(* One work item and the owner that ends it                                *)
(* (src/scripts/mutate-work-item.py): archive_with_successor, a journaled  *)
(* transition over many files (the bug records it terminalizes, the        *)
(* closure, the status, a receipt of the bugs, the move of the directory,  *)
(* the successor's candidate, README.md, the settlement receipt) with its  *)
(* recovery; close_item, the same without a journal but with compensation; *)
(* and the commands that write beside them: create, start, update and the  *)
(* refresh of README.md.                                                   *)
(*                                                                         *)
(* Every call runs under one kernel lock, not waited for; a process may    *)
(* die between any two of its file operations, and leaves what it wrote.   *)
(* All requests for the item carry the same closure and successor. A       *)
(* digest of a file is modelled by what the file was made from.            *)
(***************************************************************************)
EXTENDS Naturals

CONSTANTS
  Procs,      \* processes that call the owner
  Ops,        \* operation ids of archive_with_successor
  Close,      \* stands for a call without an operation id
  Nobody,     \* nobody holds the lock
  Bugs,       \* bug records the item terminalizes
  Others,     \* slugs of unrelated candidates
  MaxEdits,   \* bound on status updates
  MaxFaults   \* bound on crashes and failures

ASSUME NamesAreNames == Close \notin Ops /\ Nobody \notin Procs
ASSUME BoundsAreNats == MaxEdits \in Nat /\ MaxFaults \in Nat

VARIABLES
  \* the files
  at,          \* the item's directory: active/ or archive/
  edit,        \* its status text, numbered
  terminal,    \* that text is terminalized
  closure,     \* closure.md
  bug,         \* per bug record: open, marked terminal in place, moved
  bugReceipt,  \* bug-dispositions receipt: the README it names, as a set
  receipt,     \* settlement receipt in that directory, [op, board], as a set
  succ,        \* the successor's slug: see Successors
  others,      \* unrelated candidates present
  readme,      \* what README.md was rendered from
  intent,      \* per operation id: its journal record, as a set
  \* the processes
  lock, pc, job,
  \* history
  told,        \* ids answered with success
  torn,        \* an ordinary close died or could not compensate
  mixed,       \* ids another call ran beside while their intent was pending
  faults

texts  == <<edit, terminal, closure>>
papers == <<bugReceipt, receipt>>
files  == <<at, edit, terminal, closure, bug, bugReceipt, receipt, succ, others, readme, intent>>
ghosts == <<told, torn, mixed, faults>>
vars   == <<files, lock, pc, job, ghosts>>

(* The slug is free; in the backlog with this item's bytes, or with others; *)
(* started, so active; or both started and in the backlog.                  *)
Successors == {"absent", "own", "foreign", "started", "both"}

Boards   == [at : {"active", "archive"}, edit : 0..MaxEdits, terminal : BOOLEAN,
             succ : Successors, others : SUBSET Others]
Closures == {"none", "final"}
Intents  == [edit : 0..MaxEdits, closure : Closures, readme : Boards, final : Boards]
Images   == [edit : 0..MaxEdits, closure : Closures, readme : Boards,
             bugReceipt : SUBSET Boards]

Undoing   == {"undoBugs", "undoClosure", "undoReceipt", "undoSuccessor", "undoRetire"}
Forward   == {"successor", "board", "settle", "retire"}
Closing   == {"closeBoard", "closeReceipt", "closeSettle", "closeVerify"}
Comping   == {"compSettle", "compReceipt", "compMove", "compClosure", "compStatus",
              "compBugs"}
Places    == {"idle", "admit", "bugs", "status", "bugReceipt", "move", "refresh", "answer"} \cup Undoing \cup Forward \cup Closing \cup Comping

Kinds == {"none", "archive", "recover", "close", "other"}
NoJob == [kind |-> "none", op |-> Close, kept |-> {}]

(* README.md is rendered from these.                                        *)
Board == [at |-> at, edit |-> edit, terminal |-> terminal, succ |-> succ, others |-> others]

(* Two places of one slug: WI-CATEGORY-DUAL-LOCATION, nothing is rendered.  *)
Renders == succ # "both"

(* The README a transition admitted now will end with.                      *)
FinalBoard == [Board EXCEPT !.at = "archive", !.terminal = TRUE, !.succ = "own"]

Image == [edit |-> edit, closure |-> closure, readme |-> readme, bugReceipt |-> bugReceipt]

TypeOK ==
  /\ Board \in Boards /\ closure \in Closures
  /\ bug \in [Bugs -> {"open", "marked", "moved"}]
  /\ bugReceipt \subseteq Boards
  /\ receipt \subseteq [op : Ops \cup {Close}, board : Boards]
  /\ readme \in Boards
  /\ intent \in [Ops -> SUBSET Intents]
  /\ lock \in Procs \cup {Nobody}
  /\ pc \in [Procs -> Places]
  /\ job \in [Procs -> [kind : Kinds, op : Ops \cup {Close}, kept : SUBSET Images]]
  /\ \A p \in Procs : pc[p] # "idle" => lock = p
  /\ told \subseteq Ops \cup {Close} /\ torn \in BOOLEAN /\ mixed \subseteq Ops
  /\ faults \in 0..MaxFaults

Init ==
  /\ at = "active" /\ edit = 0 /\ terminal = FALSE /\ closure = "none"
  /\ bug = [b \in Bugs |-> "open"] /\ bugReceipt = {} /\ receipt = {}
  /\ succ = "absent" /\ others = {} /\ readme = Board
  /\ intent = [o \in Ops |-> {}]
  /\ lock = Nobody /\ pc = [p \in Procs |-> "idle"] /\ job = [p \in Procs |-> NoJob]
  /\ told = {} /\ torn = FALSE /\ mixed = {} /\ faults = 0

-----------------------------------------------------------------------------
(* Calls and the lock *)

AnyoneEnters == lock \in Procs \cup {Nobody}   \* mutant of Lockable: the file, not the lock

(* The lock is taken or the call is refused.                                *)
Lockable == lock = Nobody

Pending(o) == {x \in Ops \ {o} : intent[x] # {}}

Enter(p, kind, o, kept, place) ==
  /\ pc[p] = "idle" /\ Lockable
  /\ lock' = p
  /\ pc' = [pc EXCEPT ![p] = place]
  /\ job' = [job EXCEPT ![p] = [kind |-> kind, op |-> o, kept |-> kept]]
  /\ mixed' = mixed \cup Pending(o)
  /\ UNCHANGED <<told, torn, faults>>

(* The call ends, with an error unless it has been answered.                *)
Return(p) ==
  /\ lock' = Nobody
  /\ pc' = [pc EXCEPT ![p] = "idle"]
  /\ job' = [job EXCEPT ![p] = NoJob]

GiveUp(p) == Return(p) /\ UNCHANGED <<files, ghosts>>

Within(p, from) == pc[p] = from /\ UNCHANGED <<lock, job, ghosts>>

Goto(p, place) == pc' = [pc EXCEPT ![p] = place]

Answer(p) ==
  /\ pc[p] = "answer"
  /\ told' = told \cup {job[p].op}
  /\ Return(p)
  /\ UNCHANGED <<files, torn, mixed, faults>>

Untouched == \A b \in Bugs : bug[b] = "open"

-----------------------------------------------------------------------------
(* What archive_with_successor and recover_transition read before they act *)

(* _verify_settlement, on the receipt r.                                    *)
Verified(r) == readme = r.board /\ succ \in {"own", "both"}

BeforeImages(i) == edit = i.edit /\ ~terminal /\ closure = i.closure   \* mutant of RollsBack

(* Status and closure hold a before- or an after-image of the intent.       *)
RollsBack(i) == at = "active" /\ edit = i.edit /\ closure \in {i.closure, "final"}

(* The archived files are the intent's after-images.                        *)
RollsForward(i) ==
  /\ at = "archive" /\ edit = i.edit /\ terminal
  /\ closure = "final" /\ bugReceipt = {i.final}

(* A pending intent is undone when the item is still active, and completed  *)
(* when it is archived.                                                     *)
Resumption(i) == IF RollsBack(i) THEN "undoBugs" ELSE "successor"

Resumes(i) == RollsBack(i) \/ RollsForward(i)

Admissible(asked) ==
  /\ at = "active" /\ succ = "absent" /\ ~terminal
  /\ readme = asked
  /\ Untouched /\ bugReceipt = {}

(* The receipt at its place in the archive.                                 *)
Settlement == IF at = "archive" THEN receipt ELSE {}

Archive(p, o) ==
  /\ \A r \in Settlement : r.op = o /\ Verified(r)
  /\ \/ \E i \in intent[o] :
          Resumes(i) /\ Enter(p, "archive", o, {[Image EXCEPT !.readme = i.readme]}, Resumption(i))
     \/ intent[o] = {} /\ Settlement # {} /\ Enter(p, "archive", o, {}, "answer")
     \/ /\ intent[o] = {} /\ Settlement = {} /\ Admissible(readme)
        /\ Enter(p, "archive", o, {Image}, "admit")
  /\ UNCHANGED files

Recover(p, o) ==
  /\ \E i \in intent[o] : Resumes(i) /\ Enter(p, "recover", o, {}, Resumption(i))
  /\ UNCHANGED files

-----------------------------------------------------------------------------
(* The steps of a transition; an ordinary close shares four of them *)

(* Admission, with the README digest the request was made for, and the      *)
(* intent.                                                                  *)
Admit(p) ==
  /\ pc[p] = "admit"
  /\ \E k \in job[p].kept :
       IF Admissible(k.readme)
       THEN /\ intent' = [intent EXCEPT ![job[p].op] =
                 {[edit |-> edit, closure |-> closure, readme |-> readme, final |-> FinalBoard]}]
            /\ Goto(p, "bugs") /\ UNCHANGED <<lock, job, ghosts>>
       ELSE Return(p) /\ UNCHANGED <<intent, ghosts>>
  /\ UNCHANGED <<at, texts, bug, papers, succ, others, readme>>

(* One bug record after the other is written and moved.                     *)
TerminalizeBug(p) ==
  /\ Within(p, "bugs")
  /\ \E b \in Bugs :
       \/ /\ bug[b] = "open" /\ \A c \in Bugs : bug[c] # "marked"
          /\ bug' = [bug EXCEPT ![b] = "marked"]
       \/ bug[b] = "marked" /\ bug' = [bug EXCEPT ![b] = "moved"]
  /\ UNCHANGED <<at, texts, papers, succ, others, readme, intent, pc>>

AllMoved == \A b \in Bugs : bug[b] = "moved"

WriteClosure(p) ==
  /\ Within(p, "bugs") /\ AllMoved
  /\ closure' = "final" /\ Goto(p, "status")
  /\ UNCHANGED <<at, edit, terminal, bug, papers, succ, others, readme, intent>>

WriteStatus(p) ==
  /\ Within(p, "status")
  /\ terminal' = TRUE
  /\ Goto(p, IF job[p].kind = "archive" THEN "bugReceipt" ELSE "move")
  /\ UNCHANGED <<at, edit, closure, bug, papers, succ, others, readme, intent>>

WriteBugReceipt(p) ==
  /\ Within(p, "bugReceipt")
  /\ \E i \in intent[job[p].op] : bugReceipt' = {i.final}
  /\ Goto(p, "move")
  /\ UNCHANGED <<at, texts, bug, receipt, succ, others, readme, intent>>

Move(p) ==
  /\ Within(p, "move")
  /\ at' = "archive"
  /\ Goto(p, IF job[p].kind = "archive" THEN "successor" ELSE "closeBoard")
  /\ UNCHANGED <<texts, bug, papers, succ, others, readme, intent>>

(* The successor is written to the backlog unless it is there already.      *)
WriteSuccessor(p) ==
  /\ pc[p] = "successor"
  /\ \/ succ = "foreign" /\ GiveUp(p)
     \/ /\ Within(p, "successor") /\ succ # "foreign"
        /\ succ' = CASE succ = "absent" -> "own" [] succ = "started" -> "both" [] OTHER -> succ
        /\ Goto(p, "board")
        /\ UNCHANGED <<at, texts, bug, papers, others, readme, intent>>

RefreshBoard(p) ==
  /\ pc[p] = "board"
  /\ \/ ~Renders /\ GiveUp(p)
     \/ /\ Renders /\ readme' = Board
        /\ \E i \in intent[job[p].op] :
             IF Board = i.final THEN Goto(p, "settle") /\ UNCHANGED <<lock, job>> ELSE Return(p)
        /\ UNCHANGED <<at, texts, bug, papers, succ, others, intent, ghosts>>

AnyReceipt(r) == r \in [op : Ops \cup {Close}, board : Boards]   \* mutant of MySettlement

(* The receipt in the archive is absent or has the bytes about to be written. *)
MySettlement(r) == receipt \in {{}, {r}}

Settle(p) ==
  LET r == [op |-> job[p].op, board |-> readme]
  IN /\ pc[p] = "settle"
     /\ \/ ~MySettlement(r) /\ GiveUp(p)
        \/ /\ Within(p, "settle") /\ MySettlement(r)
           /\ receipt' = {r} /\ Goto(p, "retire")
           /\ UNCHANGED <<at, texts, bug, bugReceipt, succ, others, readme, intent>>

Retire(p) ==
  /\ Within(p, "retire")
  /\ intent' = [intent EXCEPT ![job[p].op] = {}]
  /\ Goto(p, "answer")
  /\ UNCHANGED <<at, texts, bug, papers, succ, others, readme>>

-----------------------------------------------------------------------------
(* The rollback of a pending intent *)

UndoBug(p) ==
  /\ Within(p, "undoBugs")
  /\ \E b \in Bugs :
       \/ /\ bug[b] = "moved" /\ \A c \in Bugs : bug[c] # "marked"
          /\ bug' = [bug EXCEPT ![b] = "marked"]
       \/ bug[b] = "marked" /\ bug' = [bug EXCEPT ![b] = "open"]
  /\ UNCHANGED <<at, texts, papers, succ, others, readme, intent, pc>>

MarkedUndone == \A b \in Bugs : bug[b] # "marked"   \* mutant of BugsUndone: moved ones forgotten

BugsUndone == Untouched

UndoStatus(p) ==
  /\ pc[p] = "undoBugs" /\ BugsUndone
  /\ \E i \in intent[job[p].op] :
       \/ bugReceipt \notin {{}, {i.final}} /\ GiveUp(p)
       \/ /\ Within(p, "undoBugs") /\ bugReceipt \in {{}, {i.final}}
          /\ edit' = i.edit /\ terminal' = FALSE /\ Goto(p, "undoClosure")
          /\ UNCHANGED <<at, closure, bug, papers, succ, others, readme, intent>>

UndoClosure(p) ==
  /\ Within(p, "undoClosure")
  /\ \E i \in intent[job[p].op] : closure' = i.closure
  /\ Goto(p, "undoReceipt")
  /\ UNCHANGED <<at, edit, terminal, bug, papers, succ, others, readme, intent>>

UndoReceipt(p) ==
  /\ Within(p, "undoReceipt")
  /\ bugReceipt' = {} /\ Goto(p, "undoSuccessor")
  /\ UNCHANGED <<at, texts, bug, receipt, succ, others, readme, intent>>

UndoSuccessor(p) ==
  /\ pc[p] = "undoSuccessor"
  /\ \/ succ = "foreign" /\ GiveUp(p)
     \/ /\ Within(p, "undoSuccessor") /\ succ # "foreign"
        /\ succ' = CASE succ = "own" -> "absent" [] succ = "both" -> "started" [] OTHER -> succ
        /\ Goto(p, "undoRetire")
        /\ UNCHANGED <<at, texts, bug, papers, others, readme, intent>>

(* recover_transition ends rolled back; archive_with_successor goes on to   *)
(* its own admission.                                                       *)
UndoRetire(p) ==
  /\ pc[p] = "undoRetire"
  /\ intent' = [intent EXCEPT ![job[p].op] = {}]
  /\ IF job[p].kind = "archive" THEN Goto(p, "admit") /\ UNCHANGED <<lock, job>> ELSE Return(p)
  /\ UNCHANGED <<at, texts, bug, papers, succ, others, readme, ghosts>>

-----------------------------------------------------------------------------
(* The ordinary close and its compensation *)

CloseItem(p) ==
  /\ at = "active" /\ ~terminal /\ Untouched /\ Renders /\ receipt = {}
  /\ Enter(p, "close", Close, {Image}, "bugs")
  /\ UNCHANGED files

(* An archived item with its bug receipt: README.md is refreshed again.     *)
CloseReplay(p) ==
  /\ at = "archive" /\ closure = "final" /\ bugReceipt # {} /\ AllMoved /\ Renders
  /\ Enter(p, "other", Close, {}, "answer")
  /\ readme' = Board
  /\ UNCHANGED <<at, texts, bug, papers, succ, others, intent>>

CloseBoard(p) ==
  /\ Within(p, "closeBoard")
  /\ readme' = Board /\ Goto(p, "closeReceipt")
  /\ UNCHANGED <<at, texts, bug, papers, succ, others, intent>>

CloseReceipt(p) ==
  /\ Within(p, "closeReceipt")
  /\ bugReceipt' = {readme} /\ Goto(p, "closeSettle")
  /\ UNCHANGED <<at, texts, bug, receipt, succ, others, readme, intent>>

CloseSettle(p) ==
  /\ Within(p, "closeSettle")
  /\ receipt' = {[op |-> Close, board |-> readme]} /\ Goto(p, "closeVerify")
  /\ UNCHANGED <<at, texts, bug, bugReceipt, succ, others, readme, intent>>

CloseVerify(p) ==
  /\ Within(p, "closeVerify")
  /\ Goto(p, "answer")
  /\ UNCHANGED files

(* A write, a move or a check of the close raises.                          *)
CloseFails(p) ==
  /\ job[p].kind = "close" /\ pc[p] \in {"bugs", "status", "move"} \cup Closing
  /\ faults < MaxFaults /\ faults' = faults + 1
  /\ Goto(p, "compSettle")
  /\ UNCHANGED <<files, lock, job, told, torn, mixed>>

(* The move takes itself back when a check behind its rename raises; when   *)
(* that fails too, the compensation leaves the directory alone.             *)
MoveStays(p) ==
  /\ job[p].kind = "close" /\ pc[p] = "move"
  /\ faults < MaxFaults /\ faults' = faults + 1
  /\ torn' = TRUE
  /\ at' = "archive" /\ Goto(p, "compBugs")
  /\ UNCHANGED <<texts, bug, papers, succ, others, readme, intent, lock, job, told, mixed>>

NextComp == [compSettle |-> "compReceipt", compReceipt |-> "compMove", compMove |-> "compClosure",
             compClosure |-> "compStatus", compStatus |-> "compBugs"]

(* One step of the compensation fails, the others are still tried.          *)
CompFails(p) ==
  /\ pc[p] \in DOMAIN NextComp
  /\ faults < MaxFaults /\ faults' = faults + 1
  /\ torn' = TRUE
  /\ Goto(p, NextComp[pc[p]])
  /\ UNCHANGED <<files, lock, job, told, mixed>>

CompStep(p, from) == Within(p, from) /\ Goto(p, NextComp[from])

CompSettle(p) ==
  /\ CompStep(p, "compSettle")
  /\ receipt' = {}
  /\ UNCHANGED <<at, texts, bug, bugReceipt, succ, others, readme, intent>>

(* Only a receipt this call has written is removed.                         *)
CompReceipt(p) ==
  /\ pc[p] = "compReceipt" /\ Goto(p, "compMove")
  /\ \E k \in job[p].kept :
       \/ at = "archive" /\ bugReceipt # k.bugReceipt /\ bugReceipt' = {} /\ UNCHANGED torn
       \/ /\ at = "archive" /\ bugReceipt = k.bugReceipt /\ UNCHANGED bugReceipt
          /\ torn' = (torn \/ bugReceipt # {})
       \/ at = "active" /\ UNCHANGED <<bugReceipt, torn>>
  /\ UNCHANGED <<at, texts, bug, receipt, succ, others, readme, intent, lock, job, told,
                 mixed, faults>>

CompMove(p) ==
  /\ CompStep(p, "compMove")
  /\ at' = "active"
  /\ UNCHANGED <<texts, bug, papers, succ, others, readme, intent>>

(* The texts are restored in the active directory only.                     *)
CompClosure(p) ==
  /\ CompStep(p, "compClosure")
  /\ \E k \in job[p].kept : closure' = IF at = "active" THEN k.closure ELSE closure
  /\ UNCHANGED <<at, edit, terminal, bug, papers, succ, others, readme, intent>>

CompStatus(p) ==
  /\ CompStep(p, "compStatus")
  /\ terminal' = (at = "archive" /\ terminal)
  /\ UNCHANGED <<at, edit, closure, bug, papers, succ, others, readme, intent>>

CompBug(p) ==
  /\ Within(p, "compBugs")
  /\ \E b \in Bugs :
       \/ bug[b] = "moved" /\ bug' = [bug EXCEPT ![b] = "marked"]
       \/ bug[b] = "marked" /\ bug' = [bug EXCEPT ![b] = "open"]
  /\ UNCHANGED <<at, texts, papers, succ, others, readme, intent, pc>>

RefreshedBoard(k) == readme   \* mutant of BoardBack: README.md is left as refreshed

BoardBack(k) == k.readme

(* README.md last; the close ends with its error.                           *)
CompBoard(p) ==
  /\ pc[p] = "compBugs" /\ BugsUndone
  /\ \E k \in job[p].kept : readme' = BoardBack(k)
  /\ Return(p)
  /\ UNCHANGED <<at, texts, bug, papers, succ, others, intent, ghosts>>

(* A bug record or README.md, the last of all, is not restored.             *)
CompEndsTorn(p) ==
  /\ pc[p] = "compBugs"
  /\ faults < MaxFaults /\ faults' = faults + 1
  /\ torn' = TRUE
  /\ \/ UNCHANGED readme
     \/ ~BugsUndone /\ \E k \in job[p].kept : readme' = BoardBack(k)
  /\ Return(p)
  /\ UNCHANGED <<at, texts, bug, papers, succ, others, intent, told, mixed>>

-----------------------------------------------------------------------------
(* The commands beside it; each writes its file, then README.md *)

Writes(p) == Renders /\ Enter(p, "other", Close, {}, "refresh")

Create(p, x) ==
  /\ x \notin others /\ others' = others \cup {x}
  /\ Writes(p)
  /\ UNCHANGED <<at, texts, bug, papers, succ, readme, intent>>

(* A candidate under the successor's slug.                                  *)
CreateSuccessor(p) ==
  /\ succ = "absent" /\ succ' = "foreign"
  /\ Writes(p)
  /\ UNCHANGED <<at, texts, bug, papers, others, readme, intent>>

Start(p) ==
  /\ succ \in {"own", "foreign"} /\ succ' = "started"
  /\ Writes(p)
  /\ UNCHANGED <<at, texts, bug, papers, others, readme, intent>>

Update(p) ==
  /\ at = "active" /\ ~terminal /\ edit < MaxEdits /\ edit' = edit + 1
  /\ Writes(p)
  /\ UNCHANGED <<at, terminal, closure, bug, papers, succ, others, readme, intent>>

(* The end of those, or the command of its own.                             *)
Refresh(p) ==
  /\ pc[p] = "refresh"
  /\ readme' = Board /\ Return(p)
  /\ UNCHANGED <<at, texts, bug, papers, succ, others, intent, ghosts>>

RefreshOnly(p) ==
  /\ Lockable /\ pc[p] = "idle" /\ Renders /\ readme' = Board
  /\ UNCHANGED <<at, texts, bug, papers, succ, others, intent, lock, pc, job, ghosts>>

(* A process dies; the kernel frees its lock.                               *)
Crash(p) ==
  /\ pc[p] # "idle" /\ faults < MaxFaults /\ faults' = faults + 1
  /\ torn' = (torn \/ job[p].kind = "close")
  /\ Return(p)
  /\ UNCHANGED <<files, told, mixed>>

-----------------------------------------------------------------------------
Transition(p) ==
  \/ Admit(p) \/ TerminalizeBug(p) \/ WriteClosure(p) \/ WriteStatus(p) \/ WriteBugReceipt(p)
  \/ Move(p) \/ WriteSuccessor(p) \/ RefreshBoard(p) \/ Settle(p) \/ Retire(p)

Undo(p) ==
  \/ UndoBug(p) \/ UndoStatus(p) \/ UndoClosure(p) \/ UndoReceipt(p) \/ UndoSuccessor(p)
  \/ UndoRetire(p)

Finish(p) == CloseBoard(p) \/ CloseReceipt(p) \/ CloseSettle(p) \/ CloseVerify(p)

Compensate(p) ==
  \/ CompSettle(p) \/ CompReceipt(p) \/ CompMove(p) \/ CompClosure(p) \/ CompStatus(p)
  \/ CompBug(p) \/ CompBoard(p)

(* The holder of the lock goes on.                                          *)
Step(p) ==
  Transition(p) \/ Undo(p) \/ Finish(p) \/ Compensate(p) \/ Answer(p) \/ Refresh(p)

Fail(p) == CloseFails(p) \/ MoveStays(p) \/ CompFails(p) \/ CompEndsTorn(p) \/ Crash(p)

Beside(p) ==
  \/ \E x \in Others : Create(p, x)
  \/ CreateSuccessor(p) \/ Start(p) \/ Update(p) \/ RefreshOnly(p)

Next ==
  \E p \in Procs :
    \/ \E o \in Ops : Archive(p, o) \/ Recover(p, o)
    \/ CloseItem(p) \/ CloseReplay(p) \/ Beside(p)
    \/ Step(p) \/ Fail(p)

(* A process that holds the lock goes on; an operator calls                 *)
(* recover_transition for a pending intent until it gets the lock.          *)
Fairness ==
  /\ \A p \in Procs : WF_vars(Step(p))
  /\ \A o \in Ops : SF_vars(\E p \in Procs : Recover(p, o))

Spec == Init /\ [][Next]_vars /\ Fairness

-----------------------------------------------------------------------------
(* With nothing under way, no intent pending and no ordinary close cut off,  *)
(* the item is as it was or wholly ended: no bug record, closure, status or  *)
(* receipt of a half-done transition is left by any crash, rollback, retry   *)
(* or call beside it, and the successor a transition wrote is in the backlog *)
(* only beside an archived item.                                             *)
WholeWhenQuiet ==
  (lock = Nobody /\ ~torn /\ \A o \in Ops : intent[o] = {}) =>
    \/ /\ at = "active" /\ ~terminal /\ closure = "none" /\ Untouched
       /\ papers = <<{}, {}>> /\ succ # "own"
    \/ /\ at = "archive" /\ terminal /\ closure = "final" /\ AllMoved
       /\ bugReceipt # {} /\ receipt # {}

(* A close that fails and reports its compensation complete has put back     *)
(* every file it touched, README.md to the bytes it had, stale or not, and   *)
(* leaves no receipt of its own.                                             *)
CloseCompensates ==
  [][\A p \in Procs : (pc[p] = "compBugs" /\ pc'[p] = "idle" /\ ~torn') =>
       /\ at' = "active" /\ ~terminal' /\ \A b \in Bugs : bug'[b] = "open"
       /\ receipt' = {}
       /\ \A k \in job[p].kept : /\ edit' = k.edit /\ closure' = k.closure
                                 /\ readme' = k.readme /\ bugReceipt' \subseteq k.bugReceipt]_vars

(* The whole is an ItemArchive, where an ordinary close counts from the      *)
(* moment it answers, or dies or gives up behind the move: one request       *)
(* settles the item, for good, and only its caller is told so.               *)
Underway == \E p \in Procs : job[p].kind = "close" /\ pc[p] # "answer"
Archived == at = "archive" /\ ~Underway

Abstract == INSTANCE ItemArchive WITH
  item <- IF Archived THEN "archived" ELSE "open",
  by <- IF Archived THEN {r.op : r \in receipt} ELSE {}

ImplementsArchive == Abstract!Spec

(* A pending transition nothing else ran beside is rolled back or settled    *)
(* by recovery, wherever it or an earlier recovery died (a close that could  *)
(* not compensate before it may have left its settlement in the item).       *)
PendingResolves ==
  \A o \in Ops : (intent[o] # {}) ~> (intent[o] = {} \/ o \in mixed \/ torn)

(* The successor's slug is in one place, also after a recovery that runs     *)
(* later than the successor was started.                                     *)
OneLocation == succ # "both"
=============================================================================
