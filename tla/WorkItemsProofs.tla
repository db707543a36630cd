--------------------------- MODULE WorkItemsProofs ---------------------------
(* Proofs about WorkItems for any processes, operation ids, bug records and *)
(* bounds.                                                                  *)
EXTENDS WorkItems, TLAPS

-----------------------------------------------------------------------------
(* The lock, the places and the jobs *)

(* The places a call of each kind can be at.                                *)
Fits(kind, place) ==
  /\ place = "idle" <=> kind = "none"
  /\ place \in {"admit", "bugReceipt"} => kind = "archive"
  /\ place \in {"bugs", "status", "move"} => kind \in {"archive", "close"}
  /\ place \in Undoing \cup Forward => kind \in {"archive", "recover"}
  /\ place \in Closing \cup Comping => kind = "close"
  /\ place = "refresh" => kind = "other"

OpFits(kind, o) == IF kind \in {"archive", "recover"} THEN o \in Ops ELSE o = Close

(* Only the holder of the lock is in a call, and its job fits its place.    *)
Control ==
  /\ lock \in Procs \cup {Nobody}
  /\ pc \in [Procs -> Places]
  /\ job \in [Procs -> [kind : Kinds, op : Ops \cup {Close}, kept : SUBSET Images]]
  /\ \A p \in Procs : pc[p] # "idle" => lock = p
  /\ \A p \in Procs : Fits(job[p].kind, pc[p]) /\ OpFits(job[p].kind, job[p].op)

LEMMA PlaceNames ==
  /\ Undoing \subseteq Places /\ Forward \subseteq Places
  /\ Closing \subseteq Places /\ Comping \subseteq Places
  /\ {"idle", "admit", "bugs", "status", "bugReceipt", "move", "refresh", "answer"} \subseteq Places
BY DEF Places

(* The moves of the control state.                                          *)
LEMMA GotoControl ==
  ASSUME Control, NEW p \in Procs, NEW place \in Places, pc[p] # "idle",
         Goto(p, place), UNCHANGED <<lock, job>>, Fits(job[p].kind, place)
  PROVE  Control'
<1>1. /\ lock' \in Procs \cup {Nobody} /\ pc' \in [Procs -> Places]
      /\ job' \in [Procs -> [kind : Kinds, op : Ops \cup {Close}, kept : SUBSET Images]]
  BY DEF Control, Goto
<1>2. ASSUME NEW q \in Procs
      PROVE  /\ pc'[q] # "idle" => lock' = q
             /\ Fits(job'[q].kind, pc'[q]) /\ OpFits(job'[q].kind, job'[q].op)
  <2>1. CASE q = p  BY <2>1 DEF Control, Goto
  <2>2. CASE q # p  BY <2>2 DEF Control, Goto
  <2> QED BY <2>1, <2>2
<1> QED BY <1>1, <1>2 DEF Control

LEMMA ReturnControl ==
  ASSUME Control, NEW p \in Procs, pc[p] # "idle", Return(p)
  PROVE  Control'
<1>1. lock' = Nobody /\ lock = p  BY DEF Control, Return
<1>2. NoJob \in [kind : Kinds, op : Ops \cup {Close}, kept : SUBSET Images]
  BY DEF NoJob, Kinds
<1>3. /\ pc' \in [Procs -> Places]
      /\ job' \in [Procs -> [kind : Kinds, op : Ops \cup {Close}, kept : SUBSET Images]]
  BY <1>2, PlaceNames DEF Control, Return
<1>4. ASSUME NEW q \in Procs
      PROVE  /\ pc'[q] = "idle"
             /\ Fits(job'[q].kind, pc'[q]) /\ OpFits(job'[q].kind, job'[q].op)
  <2>1. CASE q = p
    <3>1. pc'[q] = "idle" /\ job'[q] = NoJob  BY <2>1 DEF Control, Return
    <3>2. NoJob.kind = "none" /\ NoJob.op = Close  BY DEF NoJob
    <3> QED BY <3>1, <3>2 DEF Fits, OpFits, Undoing, Forward, Closing, Comping
  <2>2. CASE q # p
    <3>1. pc[q] = "idle"  BY <1>1, <2>2 DEF Control
    <3>2. pc'[q] = pc[q] /\ job'[q] = job[q]  BY <2>2 DEF Control, Return
    <3> QED BY <3>1, <3>2 DEF Control
  <2> QED BY <2>1, <2>2
<1> QED BY <1>1, <1>3, <1>4 DEF Control

LEMMA EnterControl ==
  ASSUME Control, NEW p \in Procs, NEW kind \in Kinds, NEW o \in Ops \cup {Close},
         NEW kept \in SUBSET Images, NEW place \in Places,
         Enter(p, kind, o, kept, place), Fits(kind, place), OpFits(kind, o)
  PROVE  Control'
<1>1. lock = Nobody /\ lock' = p  BY DEF Enter, Lockable
<1>2. /\ pc' = [pc EXCEPT ![p] = place]
      /\ job' = [job EXCEPT ![p] = [kind |-> kind, op |-> o, kept |-> kept]]
  BY DEF Enter
<1>3. /\ pc' \in [Procs -> Places]
      /\ job' \in [Procs -> [kind : Kinds, op : Ops \cup {Close}, kept : SUBSET Images]]
  BY <1>2 DEF Control
<1>4. ASSUME NEW q \in Procs
      PROVE  /\ pc'[q] # "idle" => lock' = q
             /\ Fits(job'[q].kind, pc'[q]) /\ OpFits(job'[q].kind, job'[q].op)
  <2>1. CASE q = p  BY <1>1, <1>2, <2>1 DEF Control
  <2>2. CASE q # p
    <3>1. pc[q] = "idle"  BY <1>1, NamesAreNames DEF Control
    <3>2. pc'[q] = pc[q] /\ job'[q] = job[q]  BY <1>2, <2>2 DEF Control
    <3> QED BY <3>1, <3>2 DEF Control
  <2> QED BY <2>1, <2>2
<1> QED BY <1>1, <1>3, <1>4 DEF Control

(* The types of the files and of the history.                               *)
FilesOK ==
  /\ at \in {"active", "archive"} /\ edit \in 0..MaxEdits /\ terminal \in BOOLEAN
  /\ succ \in Successors /\ others \in SUBSET Others
  /\ closure \in Closures
  /\ bug \in [Bugs -> {"open", "marked", "moved"}]
  /\ bugReceipt \subseteq Boards
  /\ receipt \subseteq [op : Ops \cup {Close}, board : Boards]
  /\ readme \in Boards
  /\ intent \in [Ops -> SUBSET Intents]

GhostsOK ==
  /\ told \subseteq Ops \cup {Close} /\ torn \in BOOLEAN /\ mixed \subseteq Ops
  /\ faults \in 0..MaxFaults

LEMMA Counters ==
  /\ 0 \in 0..MaxEdits /\ 0 \in 0..MaxFaults
  /\ \A n \in 0..MaxFaults : n < MaxFaults => n + 1 \in 0..MaxFaults
<1>1. MaxEdits \in Nat /\ MaxFaults \in Nat  BY BoundsAreNats
<1> QED BY <1>1

LEMMA BoardType ==
  FilesOK => /\ Board \in Boards /\ FinalBoard \in Boards /\ Image \in Images
             /\ \A i \in Intents : [Image EXCEPT !.readme = i.readme] \in Images
<1> SUFFICES ASSUME FilesOK
             PROVE  /\ Board \in Boards /\ FinalBoard \in Boards /\ Image \in Images
                    /\ \A i \in Intents : [Image EXCEPT !.readme = i.readme] \in Images
  OBVIOUS
<1>1. Board \in Boards  BY DEF FilesOK, Board, Boards
<1>2. FinalBoard \in Boards  BY DEF FilesOK, FinalBoard, Board, Boards, Successors
<1>3. Image \in Images  BY DEF FilesOK, Image, Images
<1>4. \A i \in Intents : [Image EXCEPT !.readme = i.readme] \in Images
  BY <1>3 DEF Image, Images, Intents
<1> QED BY <1>1, <1>2, <1>3, <1>4

LEMMA TypeParts == FilesOK /\ Control /\ GhostsOK => TypeOK
<1> SUFFICES ASSUME FilesOK, Control, GhostsOK PROVE TypeOK  OBVIOUS
<1>1. Board \in Boards  BY BoardType
<1> QED BY <1>1 DEF TypeOK, FilesOK, Control, GhostsOK

LEMMA JobTypes ==
  ASSUME Control, NEW p \in Procs
  PROVE  /\ job[p].op \in Ops \cup {Close} /\ job[p].kept \in SUBSET Images
         /\ job[p].kind \in Kinds /\ pc[p] \in Places
         /\ job[p].kind \in {"archive", "recover"} => job[p].op \in Ops
         /\ job[p].kind \notin {"archive", "recover"} => job[p].op = Close
<1>1. job[p] \in [kind : Kinds, op : Ops \cup {Close}, kept : SUBSET Images]  BY DEF Control
<1>2. OpFits(job[p].kind, job[p].op)  BY DEF Control
<1> QED BY <1>1, <1>2 DEF Control, OpFits

-----------------------------------------------------------------------------
(* The types of the control state are invariant *)

LEMMA TransitionControl ==
  ASSUME Control, NEW p \in Procs, Transition(p)
  PROVE  Control'
<1> USE PlaceNames DEF Within, GiveUp, Undoing, Forward, Closing, Comping
<1>0. Fits(job[p].kind, pc[p])  BY DEF Control
<1>1. CASE Admit(p)
  <2>1. PICK k \in job[p].kept :
          IF Admissible(k.readme) THEN Goto(p, "bugs") /\ UNCHANGED <<lock, job, ghosts>>
          ELSE Return(p) /\ UNCHANGED ghosts
    BY <1>1 DEF Admit
  <2>2. pc[p] = "admit" /\ job[p].kind = "archive"  BY <1>0, <1>1 DEF Admit, Fits
  <2>3. Fits(job[p].kind, "bugs")  BY <2>2 DEF Fits
  <2> QED BY <2>1, <2>2, <2>3, GotoControl, ReturnControl
<1>2. CASE TerminalizeBug(p)  BY <1>2 DEF TerminalizeBug, Control
<1>3. CASE WriteClosure(p)
  <2>1. Fits(job[p].kind, "status")  BY <1>0, <1>3 DEF WriteClosure, Fits
  <2> QED BY <1>3, <2>1, GotoControl DEF WriteClosure
<1>4. CASE WriteStatus(p)
  <2>1. Fits(job[p].kind, IF job[p].kind = "archive" THEN "bugReceipt" ELSE "move")
    BY <1>0, <1>4 DEF WriteStatus, Fits
  <2> QED BY <1>4, <2>1, GotoControl DEF WriteStatus
<1>5. CASE WriteBugReceipt(p)
  <2>1. Fits(job[p].kind, "move")  BY <1>0, <1>5 DEF WriteBugReceipt, Fits
  <2> QED BY <1>5, <2>1, GotoControl DEF WriteBugReceipt
<1>6. CASE Move(p)
  <2>1. Fits(job[p].kind, IF job[p].kind = "archive" THEN "successor" ELSE "closeBoard")
    BY <1>0, <1>6 DEF Move, Fits
  <2> QED BY <1>6, <2>1, GotoControl DEF Move
<1>7. CASE WriteSuccessor(p)
  <2>1. Fits(job[p].kind, "board")  BY <1>0, <1>7 DEF WriteSuccessor, Fits
  <2>2. pc[p] # "idle"  BY <1>7 DEF WriteSuccessor
  <2>3. CASE GiveUp(p)  BY <2>2, <2>3, ReturnControl
  <2>4. CASE Goto(p, "board") /\ UNCHANGED <<lock, job>>  BY <2>1, <2>2, <2>4, GotoControl
  <2> QED BY <1>7, <2>3, <2>4 DEF WriteSuccessor
<1>8. CASE RefreshBoard(p)
  <2>1. Fits(job[p].kind, "settle")  BY <1>0, <1>8 DEF RefreshBoard, Fits
  <2>2. pc[p] # "idle"  BY <1>8 DEF RefreshBoard
  <2>3. CASE Return(p)  BY <2>2, <2>3, ReturnControl
  <2>4. CASE Goto(p, "settle") /\ UNCHANGED <<lock, job>>  BY <2>1, <2>2, <2>4, GotoControl
  <2> QED BY <1>8, <2>3, <2>4 DEF RefreshBoard
<1>9. CASE Settle(p)
  <2>1. Fits(job[p].kind, "retire")  BY <1>0, <1>9 DEF Settle, Fits
  <2>2. pc[p] # "idle"  BY <1>9 DEF Settle
  <2>3. CASE GiveUp(p)  BY <2>2, <2>3, ReturnControl
  <2>4. CASE Goto(p, "retire") /\ UNCHANGED <<lock, job>>  BY <2>1, <2>2, <2>4, GotoControl
  <2> QED BY <1>9, <2>3, <2>4 DEF Settle
<1>10. CASE Retire(p)
  <2>1. Fits(job[p].kind, "answer")  BY <1>0, <1>10 DEF Retire, Fits
  <2> QED BY <1>10, <2>1, GotoControl DEF Retire
<1> QED BY <1>1, <1>2, <1>3, <1>4, <1>5, <1>6, <1>7, <1>8, <1>9, <1>10 DEF Transition

LEMMA UndoControl ==
  ASSUME Control, NEW p \in Procs, Undo(p)
  PROVE  Control'
<1> USE PlaceNames DEF Within, GiveUp, Undoing, Forward, Closing, Comping
<1>0. Fits(job[p].kind, pc[p])  BY DEF Control
<1>1. CASE UndoBug(p)  BY <1>1 DEF UndoBug, Control
<1>2. CASE UndoStatus(p)
  <2>1. Fits(job[p].kind, "undoClosure")  BY <1>0, <1>2 DEF UndoStatus, Fits
  <2>2. pc[p] # "idle"  BY <1>2 DEF UndoStatus
  <2>3. CASE GiveUp(p)  BY <2>2, <2>3, ReturnControl
  <2>4. CASE Goto(p, "undoClosure") /\ UNCHANGED <<lock, job>>  BY <2>1, <2>2, <2>4, GotoControl
  <2> QED BY <1>2, <2>3, <2>4 DEF UndoStatus
<1>3. CASE UndoClosure(p)
  <2>1. Fits(job[p].kind, "undoReceipt")  BY <1>0, <1>3 DEF UndoClosure, Fits
  <2> QED BY <1>3, <2>1, GotoControl DEF UndoClosure
<1>4. CASE UndoReceipt(p)
  <2>1. Fits(job[p].kind, "undoSuccessor")  BY <1>0, <1>4 DEF UndoReceipt, Fits
  <2> QED BY <1>4, <2>1, GotoControl DEF UndoReceipt
<1>5. CASE UndoSuccessor(p)
  <2>1. Fits(job[p].kind, "undoRetire")  BY <1>0, <1>5 DEF UndoSuccessor, Fits
  <2>2. pc[p] # "idle"  BY <1>5 DEF UndoSuccessor
  <2>3. CASE GiveUp(p)  BY <2>2, <2>3, ReturnControl
  <2>4. CASE Goto(p, "undoRetire") /\ UNCHANGED <<lock, job>>  BY <2>1, <2>2, <2>4, GotoControl
  <2> QED BY <1>5, <2>3, <2>4 DEF UndoSuccessor
<1>6. CASE UndoRetire(p)
  <2>1. pc[p] # "idle"  BY <1>6 DEF UndoRetire
  <2>2. CASE Return(p)  BY <2>1, <2>2, ReturnControl
  <2>3. CASE job[p].kind = "archive" /\ Goto(p, "admit") /\ UNCHANGED <<lock, job>>
    <3>1. Fits(job[p].kind, "admit")  BY <2>3 DEF Fits
    <3> QED BY <2>1, <2>3, <3>1, GotoControl
  <2> QED BY <1>6, <2>2, <2>3 DEF UndoRetire
<1> QED BY <1>1, <1>2, <1>3, <1>4, <1>5, <1>6 DEF Undo

LEMMA CloseControl ==
  ASSUME Control, NEW p \in Procs, Finish(p) \/ Compensate(p) \/ Fail(p)
  PROVE  Control'
<1> USE PlaceNames DEF Within, Undoing, Forward, Closing, Comping
<1>0. Fits(job[p].kind, pc[p])  BY DEF Control
<1>1. CASE Finish(p)
  <2>1. PICK place \in Closing \cup {"answer"} :
          /\ pc[p] \in Closing /\ Goto(p, place) /\ UNCHANGED <<lock, job>>
    BY <1>1 DEF Finish, CloseBoard, CloseReceipt, CloseSettle, CloseVerify
  <2>2. Fits(job[p].kind, place)  BY <1>0, <2>1 DEF Fits
  <2> QED BY <2>1, <2>2, GotoControl
<1>2. CASE CloseFails(p)
  <2>1. Fits(job[p].kind, "compSettle")  BY <1>0, <1>2 DEF CloseFails, Fits
  <2> QED BY <1>2, <2>1, GotoControl DEF CloseFails
<1>8. CASE MoveStays(p)
  <2>1. Fits(job[p].kind, "compBugs")  BY <1>0, <1>8 DEF MoveStays, Fits
  <2> QED BY <1>8, <2>1, GotoControl DEF MoveStays
<1>3. CASE CompFails(p) \/ CompSettle(p) \/ CompReceipt(p) \/ CompMove(p) \/ CompClosure(p)
           \/ CompStatus(p)
  <2>1. PICK place \in Comping :
          /\ pc[p] \in Comping /\ Goto(p, place) /\ UNCHANGED <<lock, job>>
    BY <1>3 DEF CompFails, CompSettle, CompReceipt, CompMove, CompClosure, CompStatus,
                CompStep, NextComp
  <2>2. Fits(job[p].kind, place)  BY <1>0, <2>1 DEF Fits
  <2> QED BY <2>1, <2>2, GotoControl
<1>4. CASE CompBug(p)  BY <1>4 DEF CompBug, Control
<1>5. CASE CompBoard(p)  BY <1>5, ReturnControl DEF CompBoard
<1>6. CASE CompEndsTorn(p)  BY <1>6, ReturnControl DEF CompEndsTorn
<1>7. CASE Crash(p)  BY <1>7, ReturnControl DEF Crash
<1> QED BY <1>1, <1>2, <1>3, <1>4, <1>5, <1>6, <1>7, <1>8 DEF Compensate, Fail

LEMMA CallControl ==
  ASSUME FilesOK, Control, NEW p \in Procs,
         \/ \E o \in Ops : Archive(p, o) \/ Recover(p, o)
         \/ CloseItem(p) \/ CloseReplay(p) \/ Beside(p)
  PROVE  Control'
<1> USE PlaceNames, BoardType DEF Undoing, Forward, Closing, Comping, Kinds
<1>1. ASSUME NEW o \in Ops, Archive(p, o) PROVE Control'
  <2>1. ASSUME NEW i \in intent[o],
               Enter(p, "archive", o, {[Image EXCEPT !.readme = i.readme]}, Resumption(i))
        PROVE  Control'
    <3>1. i \in Intents  BY DEF FilesOK
    <3>2. Resumption(i) \in {"undoBugs", "successor"}  BY DEF Resumption
    <3>3. {[Image EXCEPT !.readme = i.readme]} \in SUBSET Images  BY <3>1
    <3>4. Fits("archive", Resumption(i)) /\ OpFits("archive", o)  BY <3>2 DEF Fits, OpFits
    <3> QED BY <2>1, <3>2, <3>3, <3>4, EnterControl
  <2>2. CASE Enter(p, "archive", o, {}, "answer")
    <3>1. Fits("archive", "answer") /\ OpFits("archive", o)  BY DEF Fits, OpFits
    <3> QED BY <2>2, <3>1, EnterControl
  <2>3. CASE Enter(p, "archive", o, {Image}, "admit")
    <3>1. Fits("archive", "admit") /\ OpFits("archive", o)  BY DEF Fits, OpFits
    <3> QED BY <2>3, <3>1, EnterControl
  <2> QED BY <1>1, <2>1, <2>2, <2>3 DEF Archive
<1>2. ASSUME NEW o \in Ops, Recover(p, o) PROVE Control'
  <2>1. PICK i \in intent[o] : Enter(p, "recover", o, {}, Resumption(i))
    BY <1>2 DEF Recover
  <2>2. Resumption(i) \in {"undoBugs", "successor"}  BY DEF Resumption
  <2>3. Fits("recover", Resumption(i)) /\ OpFits("recover", o)  BY <2>2 DEF Fits, OpFits
  <2> QED BY <2>1, <2>2, <2>3, EnterControl
<1>3. CASE CloseItem(p)
  <2>1. Fits("close", "bugs") /\ OpFits("close", Close)  BY DEF Fits, OpFits
  <2> QED BY <1>3, <2>1, EnterControl DEF CloseItem
<1>4. CASE CloseReplay(p)
  <2>1. Fits("other", "answer") /\ OpFits("other", Close)  BY DEF Fits, OpFits
  <2> QED BY <1>4, <2>1, EnterControl DEF CloseReplay
<1>5. CASE Writes(p)
  <2>1. Fits("other", "refresh") /\ OpFits("other", Close)  BY DEF Fits, OpFits
  <2> QED BY <1>5, <2>1, EnterControl DEF Writes
<1>6. CASE RefreshOnly(p)  BY <1>6 DEF RefreshOnly, Control
<1> QED BY <1>1, <1>2, <1>3, <1>4, <1>5, <1>6
        DEF Beside, Create, CreateSuccessor, Start, Update

LEMMA ControlStep ==
  ASSUME FilesOK, Control, [Next]_vars
  PROVE  Control'
<1>1. CASE UNCHANGED vars  BY <1>1 DEF vars, Control
<1>2. ASSUME NEW p \in Procs, Step(p) \/ Fail(p) PROVE Control'
  <2>1. CASE Answer(p) \/ Refresh(p)  BY <2>1, ReturnControl DEF Answer, Refresh
  <2> QED BY <1>2, <2>1, TransitionControl, UndoControl, CloseControl DEF Step
<1> QED BY <1>1, <1>2, CallControl DEF Next

-----------------------------------------------------------------------------
(* The types of the files and of the history are invariant *)

(* The intents a transition finds under its id, where it has a step to do.  *)
LEMMA IntentTypes ==
  ASSUME FilesOK, Control, NEW p \in Procs,
         pc[p] \in {"admit", "bugReceipt"} \cup Undoing \cup Forward
  PROVE  job[p].op \in Ops /\ intent[job[p].op] \subseteq Intents
<1>1. Fits(job[p].kind, pc[p])  BY DEF Control
<1>2. job[p].kind \in {"archive", "recover"}  BY <1>1 DEF Fits
<1> QED BY <1>2, JobTypes DEF FilesOK

LEMMA TransitionFiles ==
  ASSUME FilesOK, Control, NEW p \in Procs, Transition(p)
  PROVE  FilesOK'
<1> USE BoardType, BoundsAreNats
    DEF FilesOK, Within, GiveUp, Return, texts, papers, files, Undoing, Forward
<1>1. CASE Admit(p)
  <2>1. job[p].op \in Ops  BY <1>1, IntentTypes DEF Admit
  <2>2. [edit |-> edit, closure |-> closure, readme |-> readme, final |-> FinalBoard] \in Intents
    BY DEF Intents
  <2>3. intent' \in [Ops -> SUBSET Intents]
    <3>1. CASE intent' = [intent EXCEPT ![job[p].op] =
                 {[edit |-> edit, closure |-> closure, readme |-> readme, final |-> FinalBoard]}]
      BY <2>1, <2>2, <3>1
    <3>2. CASE intent' = intent  BY <3>2
    <3> QED BY <1>1, <3>1, <3>2 DEF Admit
  <2> QED BY <1>1, <2>3 DEF Admit
<1>2. CASE TerminalizeBug(p)
  <2>1. bug' \in [Bugs -> {"open", "marked", "moved"}]  BY <1>2 DEF TerminalizeBug
  <2> QED BY <1>2, <2>1 DEF TerminalizeBug
<1>3. CASE WriteClosure(p)  BY <1>3 DEF WriteClosure, Closures
<1>4. CASE WriteStatus(p)   BY <1>4 DEF WriteStatus
<1>5. CASE WriteBugReceipt(p)
  <2>1. intent[job[p].op] \subseteq Intents  BY <1>5, IntentTypes DEF WriteBugReceipt
  <2>2. bugReceipt' \subseteq Boards  BY <1>5, <2>1 DEF WriteBugReceipt, Intents
  <2> QED BY <1>5, <2>2 DEF WriteBugReceipt
<1>6. CASE Move(p)  BY <1>6 DEF Move
<1>7. CASE WriteSuccessor(p)
  <2>1. succ' \in Successors  BY <1>7 DEF WriteSuccessor, Successors
  <2> QED BY <1>7, <2>1 DEF WriteSuccessor
<1>8. CASE RefreshBoard(p)  BY <1>8 DEF RefreshBoard
<1>9. CASE Settle(p)
  <2>1. job[p].op \in Ops  BY <1>9, IntentTypes DEF Settle
  <2>2. [op |-> job[p].op, board |-> readme] \in [op : Ops \cup {Close}, board : Boards]
    BY <2>1
  <2>3. receipt' \subseteq [op : Ops \cup {Close}, board : Boards]  BY <1>9, <2>2 DEF Settle
  <2> QED BY <1>9, <2>3 DEF Settle
<1>10. CASE Retire(p)
  <2>1. job[p].op \in Ops  BY <1>10, IntentTypes DEF Retire
  <2>2. intent' \in [Ops -> SUBSET Intents]  BY <1>10, <2>1 DEF Retire
  <2> QED BY <1>10, <2>2 DEF Retire
<1> QED BY <1>1, <1>2, <1>3, <1>4, <1>5, <1>6, <1>7, <1>8, <1>9, <1>10 DEF Transition

LEMMA UndoFiles ==
  ASSUME FilesOK, Control, NEW p \in Procs, Undo(p)
  PROVE  FilesOK'
<1> USE DEF FilesOK, Within, GiveUp, texts, papers, files, Undoing, Forward
<1>1. CASE UndoBug(p)
  <2>1. bug' \in [Bugs -> {"open", "marked", "moved"}]  BY <1>1 DEF UndoBug
  <2> QED BY <1>1, <2>1 DEF UndoBug
<1>2. CASE UndoStatus(p)
  <2>1. intent[job[p].op] \subseteq Intents  BY <1>2, IntentTypes DEF UndoStatus
  <2>2. edit' \in 0..MaxEdits /\ terminal' \in BOOLEAN  BY <1>2, <2>1 DEF UndoStatus, Intents
  <2> QED BY <1>2, <2>2 DEF UndoStatus
<1>3. CASE UndoClosure(p)
  <2>1. intent[job[p].op] \subseteq Intents  BY <1>3, IntentTypes DEF UndoClosure
  <2>2. closure' \in Closures  BY <1>3, <2>1 DEF UndoClosure, Intents
  <2> QED BY <1>3, <2>2 DEF UndoClosure
<1>4. CASE UndoReceipt(p)  BY <1>4 DEF UndoReceipt
<1>5. CASE UndoSuccessor(p)
  <2>1. succ' \in Successors  BY <1>5 DEF UndoSuccessor, Successors
  <2> QED BY <1>5, <2>1 DEF UndoSuccessor
<1>6. CASE UndoRetire(p)
  <2>1. job[p].op \in Ops  BY <1>6, IntentTypes DEF UndoRetire
  <2>2. intent' \in [Ops -> SUBSET Intents]  BY <1>6, <2>1 DEF UndoRetire
  <2> QED BY <1>6, <2>2 DEF UndoRetire
<1> QED BY <1>1, <1>2, <1>3, <1>4, <1>5, <1>6 DEF Undo

LEMMA CloseFiles ==
  ASSUME FilesOK, Control, NEW p \in Procs, Finish(p) \/ Compensate(p) \/ Fail(p)
  PROVE  FilesOK'
<1> USE BoardType DEF FilesOK, Within, CompStep, texts, papers, files
<1>0. \A k \in job[p].kept : k \in Images  BY JobTypes
<1>1. CASE CloseBoard(p)    BY <1>1 DEF CloseBoard
<1>2. CASE CloseReceipt(p)  BY <1>2 DEF CloseReceipt
<1>3. CASE CloseSettle(p)
  <2>1. [op |-> Close, board |-> readme] \in [op : Ops \cup {Close}, board : Boards]  OBVIOUS
  <2>2. receipt' \subseteq [op : Ops \cup {Close}, board : Boards]  BY <1>3, <2>1 DEF CloseSettle
  <2> QED BY <1>3, <2>2 DEF CloseSettle
<1>4. CASE CloseVerify(p)   BY <1>4 DEF CloseVerify
<1>5. CASE CompSettle(p)    BY <1>5 DEF CompSettle
<1>6. CASE CompReceipt(p)   BY <1>6 DEF CompReceipt
<1>7. CASE CompMove(p)      BY <1>7 DEF CompMove
<1>8. CASE CompClosure(p)   BY <1>0, <1>8 DEF CompClosure, Images
<1>9. CASE CompStatus(p)    BY <1>9 DEF CompStatus
<1>10. CASE CompBug(p)
  <2>1. bug' \in [Bugs -> {"open", "marked", "moved"}]  BY <1>10 DEF CompBug
  <2> QED BY <1>10, <2>1 DEF CompBug
<1>11. CASE CompBoard(p) \/ CompEndsTorn(p)
  <2>1. readme' \in Boards  BY <1>0, <1>11 DEF CompBoard, CompEndsTorn, BoardBack, Images
  <2> QED BY <1>11, <2>1 DEF CompBoard, CompEndsTorn
<1>12. CASE CloseFails(p)   BY <1>12 DEF CloseFails
<1>13. CASE CompFails(p)    BY <1>13 DEF CompFails
<1>14. CASE Crash(p)        BY <1>14 DEF Crash
<1>15. CASE MoveStays(p)    BY <1>15 DEF MoveStays
<1> QED BY <1>1, <1>2, <1>3, <1>4, <1>5, <1>6, <1>7, <1>8, <1>9, <1>10, <1>11, <1>12, <1>13,
           <1>14, <1>15 DEF Finish, Compensate, Fail

LEMMA CallFiles ==
  ASSUME FilesOK, NEW p \in Procs,
         \/ \E o \in Ops : Archive(p, o) \/ Recover(p, o)
         \/ CloseItem(p) \/ CloseReplay(p) \/ Beside(p)
  PROVE  FilesOK'
<1> USE BoardType, BoundsAreNats DEF FilesOK, texts, papers, files
<1>1. CASE \E o \in Ops : Archive(p, o) \/ Recover(p, o)  BY <1>1 DEF Archive, Recover
<1>2. CASE CloseItem(p)    BY <1>2 DEF CloseItem
<1>3. CASE CloseReplay(p)  BY <1>3 DEF CloseReplay
<1>4. CASE \E x \in Others : Create(p, x)  BY <1>4 DEF Create
<1>5. CASE CreateSuccessor(p) \/ Start(p)  BY <1>5 DEF CreateSuccessor, Start, Successors
<1>6. CASE Update(p)       BY <1>6 DEF Update
<1>7. CASE RefreshOnly(p)  BY <1>7 DEF RefreshOnly
<1> QED BY <1>1, <1>2, <1>3, <1>4, <1>5, <1>6, <1>7 DEF Beside

LEMMA FilesStep ==
  ASSUME FilesOK, Control, [Next]_vars
  PROVE  FilesOK'
<1>1. CASE UNCHANGED vars  BY <1>1 DEF vars, files, FilesOK
<1>2. ASSUME NEW p \in Procs, Step(p) \/ Fail(p) PROVE FilesOK'
  <2>1. CASE Answer(p)  BY <2>1 DEF Answer, FilesOK, files
  <2>2. CASE Refresh(p)  BY <2>2, BoardType DEF Refresh, FilesOK, texts, papers
  <2> QED BY <1>2, <2>1, <2>2, TransitionFiles, UndoFiles, CloseFiles DEF Step
<1> QED BY <1>1, <1>2, CallFiles DEF Next

LEMMA GhostsStep ==
  ASSUME FilesOK, Control, GhostsOK, [Next]_vars
  PROVE  GhostsOK'
<1> USE DEF GhostsOK, ghosts
<1>1. CASE UNCHANGED vars  BY <1>1 DEF vars
<1>2. ASSUME NEW p \in Procs, Transition(p) PROVE GhostsOK'
  BY <1>2 DEF Transition, Admit, TerminalizeBug, WriteClosure, WriteStatus, WriteBugReceipt,
              Move, WriteSuccessor, RefreshBoard, Settle, Retire, Within, GiveUp
<1>3. ASSUME NEW p \in Procs, Undo(p) PROVE GhostsOK'
  BY <1>3 DEF Undo, UndoBug, UndoStatus, UndoClosure, UndoReceipt, UndoSuccessor, UndoRetire,
              Within, GiveUp
<1>4. ASSUME NEW p \in Procs, Finish(p) PROVE GhostsOK'
  BY <1>4 DEF Finish, CloseBoard, CloseReceipt, CloseSettle, CloseVerify, Within
<1>5. ASSUME NEW p \in Procs, Compensate(p) PROVE GhostsOK'
  BY <1>5 DEF Compensate, CompSettle, CompReceipt, CompMove, CompClosure, CompStatus, CompBug,
              CompBoard, CompStep, Within
<1>6. ASSUME NEW p \in Procs, Answer(p) PROVE GhostsOK'
  BY <1>6, JobTypes DEF Answer
<1>7. ASSUME NEW p \in Procs, Refresh(p) PROVE GhostsOK'  BY <1>7 DEF Refresh
<1>8. ASSUME NEW p \in Procs, Fail(p) PROVE GhostsOK'
  BY <1>8, Counters DEF Fail, CloseFails, MoveStays, CompFails, CompEndsTorn, Crash
<1>9. ASSUME NEW p \in Procs, NEW kind, NEW o, NEW kept, NEW place,
             Enter(p, kind, o, kept, place)
      PROVE  GhostsOK'
  BY <1>9 DEF Enter, Pending
<1>10. ASSUME NEW p \in Procs, NEW o \in Ops, Archive(p, o) \/ Recover(p, o) PROVE GhostsOK'
  BY <1>9, <1>10 DEF Archive, Recover
<1>11. ASSUME NEW p \in Procs, CloseItem(p) \/ CloseReplay(p) \/ Beside(p) PROVE GhostsOK'
  BY <1>9, <1>11
     DEF CloseItem, CloseReplay, Beside, Create, CreateSuccessor, Start, Update, Writes, RefreshOnly
<1> QED BY <1>1, <1>2, <1>3, <1>4, <1>5, <1>6, <1>7, <1>8, <1>10, <1>11 DEF Next, Step

LEMMA InitTypes == Init => FilesOK /\ Control /\ GhostsOK
<1> SUFFICES ASSUME Init PROVE FilesOK /\ Control /\ GhostsOK  OBVIOUS
<1>1. Board \in Boards
  BY Counters DEF Init, Board, Boards, Successors
<1>2. FilesOK  BY <1>1, Counters DEF Init, FilesOK, Closures, Successors
<1>3. Control
  <2>1. Fits("none", "idle") /\ OpFits("none", Close)
    BY DEF Fits, OpFits, Undoing, Forward, Closing, Comping
  <2> QED BY <2>1, PlaceNames DEF Init, Control, NoJob, Kinds
<1>4. GhostsOK  BY Counters DEF Init, GhostsOK
<1> QED BY <1>2, <1>3, <1>4

(* Every reachable state is type correct: in particular, whoever is in a    *)
(* call holds the lifecycle lock, so no two calls are ever under way.       *)
THEOREM TypeCorrect == Spec => []TypeOK
<1> DEFINE Typed == FilesOK /\ Control /\ GhostsOK
<1>1. Init => Typed  BY InitTypes
<1>2. Typed /\ [Next]_vars => Typed'  BY FilesStep, ControlStep, GhostsStep
<1>3. Typed => TypeOK  BY TypeParts
<1> QED BY <1>1, <1>2, <1>3, PTL DEF Spec

-----------------------------------------------------------------------------
(* One call at a time *)

(* Every process but p is outside of the owner.                             *)
OthersIdle(p) == \A q \in Procs \ {p} : pc[q] = "idle" /\ job[q].kind = "none"

OnlyAt(p) == \A q \in Procs \ {p} : pc'[q] = pc[q] /\ job'[q] = job[q]

LEMMA Alone ==
  ASSUME Control, NEW p \in Procs, pc[p] # "idle" \/ lock = Nobody
  PROVE  OthersIdle(p)
<1>1. ASSUME NEW q \in Procs \ {p} PROVE pc[q] = "idle" /\ job[q].kind = "none"
  <2>1. pc[q] = "idle"  BY NamesAreNames DEF Control
  <2>2. Fits(job[q].kind, pc[q])  BY DEF Control
  <2> QED BY <2>1, <2>2 DEF Fits
<1> QED BY <1>1 DEF OthersIdle

Call(p) ==
  \/ \E o \in Ops : Archive(p, o) \/ Recover(p, o)
  \/ CloseItem(p) \/ CloseReplay(p) \/ Beside(p)

Act(p) == Call(p) \/ Step(p) \/ Fail(p)

LEMMA ActAlone ==
  ASSUME Control, NEW p \in Procs, Act(p)
  PROVE  OthersIdle(p) /\ OnlyAt(p)
<1> USE DEF OnlyAt, Control, Goto, Return, Within, GiveUp
<1>1. CASE Transition(p)
  <2>1. OnlyAt(p)
    BY <1>1 DEF Transition, Admit, TerminalizeBug, WriteClosure, WriteStatus, WriteBugReceipt,
                Move, WriteSuccessor, RefreshBoard, Settle, Retire
  <2>2. pc[p] # "idle"
    BY <1>1 DEF Transition, Admit, TerminalizeBug, WriteClosure, WriteStatus, WriteBugReceipt,
                Move, WriteSuccessor, RefreshBoard, Settle, Retire
  <2> QED BY <2>1, <2>2, Alone
<1>2. CASE Undo(p)
  <2>1. OnlyAt(p) /\ pc[p] # "idle"
    BY <1>2 DEF Undo, UndoBug, UndoStatus, UndoClosure, UndoReceipt, UndoSuccessor, UndoRetire
  <2> QED BY <2>1, Alone
<1>3. CASE Finish(p)
  <2>1. OnlyAt(p) /\ pc[p] # "idle"
    BY <1>3 DEF Finish, CloseBoard, CloseReceipt, CloseSettle, CloseVerify
  <2> QED BY <2>1, Alone
<1>4. CASE Compensate(p)
  <2>1. OnlyAt(p) /\ pc[p] # "idle"
    BY <1>4 DEF Compensate, CompSettle, CompReceipt, CompMove, CompClosure, CompStatus, CompBug,
                CompBoard, CompStep
  <2> QED BY <2>1, Alone
<1>5. CASE Answer(p) \/ Refresh(p)
  <2>1. OnlyAt(p) /\ pc[p] # "idle"  BY <1>5 DEF Answer, Refresh
  <2> QED BY <2>1, Alone
<1>6. CASE Fail(p)
  <2>1. OnlyAt(p) /\ pc[p] # "idle"
    BY <1>6 DEF Fail, CloseFails, MoveStays, CompFails, CompEndsTorn, Crash, NextComp, Closing
  <2> QED BY <2>1, Alone
<1>7. ASSUME NEW kind, NEW o, NEW kept, NEW place, Enter(p, kind, o, kept, place)
      PROVE  OthersIdle(p) /\ OnlyAt(p)
  <2>1. OnlyAt(p) /\ lock = Nobody  BY <1>7 DEF Enter, Lockable
  <2> QED BY <2>1, Alone
<1>8. CASE RefreshOnly(p)
  <2>1. OnlyAt(p) /\ lock = Nobody  BY <1>8 DEF RefreshOnly, Lockable
  <2> QED BY <2>1, Alone
<1>9. ASSUME NEW o \in Ops, Archive(p, o) \/ Recover(p, o) PROVE OthersIdle(p) /\ OnlyAt(p)
  BY <1>7, <1>9 DEF Archive, Recover
<1>10. CASE CloseItem(p) \/ CloseReplay(p) \/ Beside(p)
  BY <1>7, <1>8, <1>10
     DEF CloseItem, CloseReplay, Beside, Create, CreateSuccessor, Start, Update, Writes
<1> QED BY <1>1, <1>2, <1>3, <1>4, <1>5, <1>6, <1>9, <1>10 DEF Act, Call, Step

LEMMA NextActs == Next <=> \E p \in Procs : Act(p)
BY DEF Next, Act, Call

-----------------------------------------------------------------------------
(* Where the item is, and whose receipt it has *)

Place(p) ==
  /\ pc[p] \in Forward \cup Closing \cup {"answer"} => at = "archive"
  /\ pc[p] \in Undoing \cup {"admit", "bugs", "status", "bugReceipt", "move"} => at = "active"

Receipts(p) ==
  /\ pc[p] = "closeVerify" => receipt # {}
  /\ job[p].kind = "close" /\ pc[p] # "answer" => \A r \in receipt : r.op = Close
  /\ pc[p] \in {"retire", "answer"} /\ job[p].kind \in {"archive", "recover"} =>
       \E r \in receipt : r.op = job[p].op

(* There is one receipt at most; in an active item, one a close left.       *)
OneReceipt ==
  /\ at = "active" => \A r \in receipt : r.op = Close
  /\ \A r, s \in receipt : r = s

WellPlaced == OneReceipt /\ \A p \in Procs : Place(p) /\ Receipts(p)

(* For the processes outside of the owner there is nothing to show.         *)
LEMMA PlacesOthers ==
  ASSUME Control, Control', NEW p \in Procs, Act(p), OneReceipt', Place(p)', Receipts(p)'
  PROVE  WellPlaced'
<1>1. ASSUME NEW q \in Procs \ {p} PROVE Place(q)' /\ Receipts(q)'
  <2>1. pc'[q] = "idle" /\ job'[q].kind = "none"  BY ActAlone DEF OthersIdle, OnlyAt
  <2> QED BY <2>1 DEF Place, Receipts, Forward, Closing, Undoing
<1> QED BY <1>1 DEF WellPlaced

LEMMA TransitionPlace ==
  ASSUME FilesOK, Control, OneReceipt, NEW p \in Procs, Place(p), Receipts(p), Transition(p)
  PROVE  OneReceipt' /\ Place(p)' /\ Receipts(p)'
<1>0. /\ pc \in [Procs -> Places] /\ Fits(job[p].kind, pc[p])
      /\ job \in [Procs -> [kind : Kinds, op : Ops \cup {Close}, kept : SUBSET Images]]
      /\ NoJob.kind = "none" /\ at \in {"active", "archive"}
  BY DEF Control, NoJob, FilesOK
<1> USE <1>0 DEF Place, Receipts, OneReceipt, Fits, Within, GiveUp, Goto, Return, texts, papers,
                 files, Undoing, Forward, Closing, Comping
<1>1. CASE Admit(p)            BY <1>1 DEF Admit
<1>2. CASE TerminalizeBug(p)   BY <1>2 DEF TerminalizeBug
<1>3. CASE WriteClosure(p)     BY <1>3 DEF WriteClosure
<1>4. CASE WriteStatus(p)      BY <1>4 DEF WriteStatus
<1>5. CASE WriteBugReceipt(p)  BY <1>5 DEF WriteBugReceipt
<1>6. CASE Move(p)             BY <1>6 DEF Move
<1>7. CASE WriteSuccessor(p)   BY <1>7 DEF WriteSuccessor
<1>8. CASE RefreshBoard(p)     BY <1>8 DEF RefreshBoard
<1>9. CASE Settle(p)           BY <1>9 DEF Settle
<1>10. CASE Retire(p)          BY <1>10 DEF Retire
<1> QED BY <1>1, <1>2, <1>3, <1>4, <1>5, <1>6, <1>7, <1>8, <1>9, <1>10 DEF Transition

LEMMA UndoPlace ==
  ASSUME FilesOK, Control, OneReceipt, NEW p \in Procs, Place(p), Receipts(p), Undo(p)
  PROVE  OneReceipt' /\ Place(p)' /\ Receipts(p)'
<1>0. /\ pc \in [Procs -> Places] /\ Fits(job[p].kind, pc[p])
      /\ job \in [Procs -> [kind : Kinds, op : Ops \cup {Close}, kept : SUBSET Images]]
      /\ NoJob.kind = "none" /\ at \in {"active", "archive"}
  BY DEF Control, NoJob, FilesOK
<1> USE <1>0 DEF Place, Receipts, OneReceipt, Fits, Within, GiveUp, Goto, Return, texts, papers,
                 files, Undoing, Forward, Closing, Comping
<1>1. CASE UndoBug(p)        BY <1>1 DEF UndoBug
<1>2. CASE UndoStatus(p)     BY <1>2 DEF UndoStatus
<1>3. CASE UndoClosure(p)    BY <1>3 DEF UndoClosure
<1>4. CASE UndoReceipt(p)    BY <1>4 DEF UndoReceipt
<1>5. CASE UndoSuccessor(p)  BY <1>5 DEF UndoSuccessor
<1>6. CASE UndoRetire(p)     BY <1>6 DEF UndoRetire
<1> QED BY <1>1, <1>2, <1>3, <1>4, <1>5, <1>6 DEF Undo

LEMMA ClosePlace ==
  ASSUME FilesOK, Control, OneReceipt, NEW p \in Procs, Place(p), Receipts(p),
         Finish(p) \/ Compensate(p) \/ Fail(p) \/ Answer(p) \/ Refresh(p)
  PROVE  OneReceipt' /\ Place(p)' /\ Receipts(p)'
<1>0. /\ pc \in [Procs -> Places] /\ Fits(job[p].kind, pc[p])
      /\ job \in [Procs -> [kind : Kinds, op : Ops \cup {Close}, kept : SUBSET Images]]
      /\ NoJob.kind = "none" /\ at \in {"active", "archive"}
  BY DEF Control, NoJob, FilesOK
<1> USE <1>0 DEF Place, Receipts, OneReceipt, Fits, Within, CompStep, NextComp, Goto, Return, texts,
                 papers, files, Undoing, Forward, Closing, Comping
<1>1. CASE CloseBoard(p)    BY <1>1 DEF CloseBoard
<1>2. CASE CloseReceipt(p)  BY <1>2 DEF CloseReceipt
<1>3. CASE CloseSettle(p)   BY <1>3 DEF CloseSettle
<1>4. CASE CloseVerify(p)   BY <1>4 DEF CloseVerify
<1>5. CASE CompSettle(p)    BY <1>5 DEF CompSettle
<1>6. CASE CompReceipt(p)   BY <1>6 DEF CompReceipt
<1>7. CASE CompMove(p)      BY <1>7 DEF CompMove
<1>8. CASE CompClosure(p)   BY <1>8 DEF CompClosure
<1>9. CASE CompStatus(p)    BY <1>9 DEF CompStatus
<1>10. CASE CompBug(p)      BY <1>10 DEF CompBug
<1>11. CASE CompBoard(p)    BY <1>11 DEF CompBoard
<1>12. CASE CompEndsTorn(p) BY <1>12 DEF CompEndsTorn
<1>13. CASE CloseFails(p)   BY <1>13 DEF CloseFails
<1>14. CASE CompFails(p)    BY <1>14 DEF CompFails
<1>15. CASE Crash(p)        BY <1>15 DEF Crash
<1>16. CASE Answer(p)       BY <1>16 DEF Answer
<1>17. CASE Refresh(p)      BY <1>17 DEF Refresh
<1>18. CASE MoveStays(p)    BY <1>18 DEF MoveStays
<1> QED BY <1>1, <1>2, <1>3, <1>4, <1>5, <1>6, <1>7, <1>8, <1>9, <1>10, <1>11, <1>12, <1>13,
           <1>14, <1>15, <1>16, <1>17, <1>18 DEF Finish, Compensate, Fail

LEMMA CallPlace ==
  ASSUME FilesOK, Control, OneReceipt, NEW p \in Procs, Place(p), Receipts(p), Call(p)
  PROVE  OneReceipt' /\ Place(p)' /\ Receipts(p)'
<1>0. /\ pc \in [Procs -> Places] /\ at \in {"active", "archive"}
      /\ job \in [Procs -> [kind : Kinds, op : Ops \cup {Close}, kept : SUBSET Images]]
  BY DEF Control, FilesOK
<1>1. ASSUME NEW kind, NEW o, NEW kept, NEW place, Enter(p, kind, o, kept, place)
      PROVE  pc'[p] = place /\ job'[p].kind = kind /\ job'[p].op = o
  BY <1>0, <1>1 DEF Enter
<1> USE <1>0 DEF Place, Receipts, OneReceipt, texts, papers, files, Undoing, Forward, Closing
<1>2. ASSUME NEW o \in Ops, Archive(p, o) PROVE OneReceipt' /\ Place(p)' /\ Receipts(p)'
  <2>1. UNCHANGED <<at, receipt>>  BY <1>2 DEF Archive
  <2>2. ASSUME NEW i \in intent[o], Resumes(i),
               Enter(p, "archive", o, {[Image EXCEPT !.readme = i.readme]}, Resumption(i))
        PROVE  OneReceipt' /\ Place(p)' /\ Receipts(p)'
    <3>1. pc'[p] = Resumption(i) /\ job'[p].kind = "archive"  BY <1>1, <2>2
    <3> QED BY <2>1, <2>2, <3>1 DEF Resumes, Resumption, RollsBack, RollsForward
  <2>3. CASE Settlement # {} /\ Enter(p, "archive", o, {}, "answer")
    <3>1. pc'[p] = "answer" /\ job'[p].kind = "archive" /\ job'[p].op = o  BY <1>1, <2>3
    <3>2. at = "archive" /\ \E r \in receipt : r.op = o  BY <1>2, <2>3 DEF Archive, Settlement
    <3> QED BY <2>1, <3>1, <3>2
  <2>4. CASE Admissible(readme) /\ Enter(p, "archive", o, {Image}, "admit")
    <3>1. pc'[p] = "admit" /\ job'[p].kind = "archive"  BY <1>1, <2>4
    <3> QED BY <2>1, <2>4, <3>1 DEF Admissible
  <2> QED BY <1>2, <2>2, <2>3, <2>4 DEF Archive
<1>3. ASSUME NEW o \in Ops, Recover(p, o) PROVE OneReceipt' /\ Place(p)' /\ Receipts(p)'
  <2>1. PICK i \in intent[o] : Resumes(i) /\ Enter(p, "recover", o, {}, Resumption(i))
    BY <1>3 DEF Recover
  <2>2. pc'[p] = Resumption(i) /\ job'[p].kind = "recover"  BY <1>1, <2>1
  <2> QED BY <1>3, <2>1, <2>2 DEF Recover, Resumes, Resumption, RollsBack, RollsForward
<1>4. CASE CloseItem(p)
  <2>1. pc'[p] = "bugs" /\ job'[p].kind = "close"  BY <1>1, <1>4 DEF CloseItem
  <2> QED BY <1>4, <2>1 DEF CloseItem
<1>5. CASE CloseReplay(p)
  <2>1. pc'[p] = "answer" /\ job'[p].kind = "other"  BY <1>1, <1>5 DEF CloseReplay
  <2> QED BY <1>5, <2>1 DEF CloseReplay
<1>6. CASE Writes(p) /\ UNCHANGED <<at, receipt>>
  <2>1. pc'[p] = "refresh" /\ job'[p].kind = "other"  BY <1>1, <1>6 DEF Writes
  <2> QED BY <1>6, <2>1
<1>7. CASE RefreshOnly(p)  BY <1>7 DEF RefreshOnly
<1> QED BY <1>2, <1>3, <1>4, <1>5, <1>6, <1>7
        DEF Call, Beside, Create, CreateSuccessor, Start, Update

LEMMA PlacesStep ==
  ASSUME FilesOK, Control, WellPlaced, [Next]_vars
  PROVE  WellPlaced'
<1>1. CASE UNCHANGED vars
  BY <1>1 DEF vars, files, papers, texts, WellPlaced, OneReceipt, Place, Receipts
<1>2. ASSUME NEW p \in Procs, Act(p) PROVE WellPlaced'
  <2>1. OneReceipt /\ Place(p) /\ Receipts(p)  BY DEF WellPlaced
  <2>2. OneReceipt' /\ Place(p)' /\ Receipts(p)'
    BY <1>2, <2>1, TransitionPlace, UndoPlace, ClosePlace, CallPlace DEF Act, Step
  <2>3. Next  BY <1>2, NextActs
  <2> QED BY <1>2, <2>2, <2>3, PlacesOthers, ControlStep
<1> QED BY <1>1, <1>2, NextActs

-----------------------------------------------------------------------------
(* The owner implements ItemArchive *)

Item == IF Archived THEN "archived" ELSE "open"
By   == IF Archived THEN {r.op : r \in receipt} ELSE {}

(* Up to the moment the item counts as archived, every step is a stutter;   *)
(* that one archives it, settled by the ordinary close or by nobody yet.    *)
LEMMA StepsBefore ==
  ASSUME FilesOK, FilesOK', ~Archived, told' = told, Archived' => \A r \in receipt' : r.op = Close
  PROVE  [Abstract!Next]_<<Item, By, told>>
<1>1. CASE ~Archived'
  BY <1>1 DEF Item, By
<1>2. CASE Archived' /\ receipt' = {}
  <2>1. By' = {} /\ Item' = "archived" /\ Item = "open" /\ By = {}  BY <1>2 DEF Item, By
  <2>2. Abstract!Archive  BY <2>1 DEF Abstract!Archive, Item, By
  <2> QED BY <2>2 DEF Abstract!Next
<1>3. CASE Archived' /\ receipt' # {}
  <2>1. {r.op : r \in receipt'} = {Close}  BY <1>3
  <2>2. By' = {Close} /\ Item' = "archived" /\ Item = "open" /\ By = {}
    BY <1>3, <2>1 DEF Item, By
  <2>3. Abstract!CloseOut  BY <2>2 DEF Abstract!CloseOut, Item, By
  <2> QED BY <2>3 DEF Abstract!Next
<1> QED BY <1>1, <1>2, <1>3

LEMMA StepsAfter ==
  ASSUME Archived, Archived', UNCHANGED <<receipt, told>>
  PROVE  [Abstract!Next]_<<Item, By, told>>
BY DEF Item, By

(* An archived item is never under way again.                               *)
LEMMA CloseHolds ==
  ASSUME FilesOK, Control, NEW p \in Procs, Act(p)
  PROVE  /\ job'[p].kind = "close" /\ pc'[p] # "answer" =>
              (job[p].kind = "close" /\ pc[p] # "answer") \/ at' = "active"
         /\ at = "archive" /\ at' = "active" => job[p].kind = "close" /\ pc[p] # "answer"
<1>0. /\ pc \in [Procs -> Places] /\ at \in {"active", "archive"} /\ Fits(job[p].kind, pc[p])
      /\ job \in [Procs -> [kind : Kinds, op : Ops \cup {Close}, kept : SUBSET Images]]
      /\ NoJob.kind = "none"
  BY DEF Control, FilesOK, NoJob
<1> USE <1>0 DEF Fits, Goto, Return, Within, GiveUp, texts, papers, files, Undoing, Forward, Closing, Comping
<1>1. CASE Transition(p)
  BY <1>1 DEF Transition, Admit, TerminalizeBug, WriteClosure, WriteStatus, WriteBugReceipt,
              Move, WriteSuccessor, RefreshBoard, Settle, Retire
<1>2. CASE Undo(p)
  BY <1>2 DEF Undo, UndoBug, UndoStatus, UndoClosure, UndoReceipt, UndoSuccessor, UndoRetire
<1>3. CASE Finish(p)
  BY <1>3 DEF Finish, CloseBoard, CloseReceipt, CloseSettle, CloseVerify
<1>4. CASE Compensate(p)
  BY <1>4 DEF Compensate, CompSettle, CompReceipt, CompMove, CompClosure, CompStatus, CompBug,
              CompBoard, CompStep
<1>5. CASE Answer(p) \/ Refresh(p)  BY <1>5 DEF Answer, Refresh
<1>6. CASE Fail(p)
  BY <1>6 DEF Fail, CloseFails, MoveStays, CompFails, CompEndsTorn, Crash, NextComp
<1>7. ASSUME NEW kind, NEW o, NEW kept, NEW place, Enter(p, kind, o, kept, place)
      PROVE  job'[p].kind = kind
  BY <1>7 DEF Enter
<1>8. ASSUME NEW o \in Ops, Archive(p, o) \/ Recover(p, o)
      PROVE  job'[p].kind # "close" /\ at' = at
  BY <1>7, <1>8 DEF Archive, Recover
<1>9. CASE CloseItem(p)  BY <1>9 DEF CloseItem
<1>10. CASE CloseReplay(p) \/ Beside(p)
  BY <1>7, <1>10 DEF CloseReplay, Beside, Create, CreateSuccessor, Start, Update, Writes, RefreshOnly
<1> QED BY <1>1, <1>2, <1>3, <1>4, <1>5, <1>6, <1>8, <1>9, <1>10 DEF Act, Call, Step

(* Only these write the settlement or tell a caller.                        *)
LEMMA FewWrite ==
  ASSUME NEW p \in Procs, Act(p), ~Settle(p), ~Answer(p)
  PROVE  /\ told' = told
         /\ receipt' # receipt => CloseSettle(p) \/ CompSettle(p)
<1> USE DEF Within, GiveUp, texts, papers, files, ghosts
<1>1. CASE Transition(p)
  BY <1>1 DEF Transition, Admit, TerminalizeBug, WriteClosure, WriteStatus, WriteBugReceipt,
              Move, WriteSuccessor, RefreshBoard, Retire
<1>2. CASE Undo(p)
  BY <1>2 DEF Undo, UndoBug, UndoStatus, UndoClosure, UndoReceipt, UndoSuccessor, UndoRetire
<1>3. CASE Finish(p)
  BY <1>3 DEF Finish, CloseBoard, CloseReceipt, CloseSettle, CloseVerify
<1>4. CASE Compensate(p)
  BY <1>4 DEF Compensate, CompSettle, CompReceipt, CompMove, CompClosure, CompStatus, CompBug,
              CompBoard, CompStep
<1>5. CASE Refresh(p)  BY <1>5 DEF Refresh
<1>6. CASE Fail(p)
  BY <1>6 DEF Fail, CloseFails, MoveStays, CompFails, CompEndsTorn, Crash
<1>7. CASE \E o \in Ops : Archive(p, o) \/ Recover(p, o)
  BY <1>7 DEF Archive, Recover, Enter
<1>8. CASE CloseItem(p) \/ CloseReplay(p) \/ Beside(p)
  BY <1>8 DEF CloseItem, CloseReplay, Beside, Create, CreateSuccessor, Start, Update, Writes,
              RefreshOnly, Enter
<1> QED BY <1>1, <1>2, <1>3, <1>4, <1>5, <1>6, <1>7, <1>8 DEF Act, Call, Step

Safe == FilesOK /\ Control /\ GhostsOK /\ WellPlaced

LEMMA SafeIsInvariant == Init => Safe
<1> SUFFICES ASSUME Init PROVE WellPlaced  BY InitTypes DEF Safe
<1> QED BY DEF Init, WellPlaced, OneReceipt, Place, Receipts, NoJob, Undoing, Forward, Closing

LEMMA SafeStep == Safe /\ [Next]_vars => Safe'
BY FilesStep, ControlStep, GhostsStep, PlacesStep DEF Safe

LEMMA StepImplements ==
  ASSUME Safe, Safe', [Next]_vars
  PROVE  [Abstract!Next]_<<Item, By, told>>
<1>1. CASE UNCHANGED vars
  BY <1>1 DEF vars, files, papers, texts, ghosts, Item, By, Archived, Underway
<1>2. ASSUME NEW p \in Procs, Act(p) PROVE [Abstract!Next]_<<Item, By, told>>
  <2>0. /\ FilesOK /\ FilesOK' /\ Control /\ Control' /\ at \in {"active", "archive"}
        /\ OneReceipt /\ Place(p) /\ Receipts(p) /\ OneReceipt' /\ Receipts(p)'
        /\ Fits(job[p].kind, pc[p]) /\ at' \in {"active", "archive"}
    BY DEF Safe, WellPlaced, Control, FilesOK
  <2>1. OthersIdle(p) /\ OthersIdle(p)'
    BY <1>2, <2>0, ActAlone DEF OthersIdle, OnlyAt
  <2>2. /\ Underway <=> job[p].kind = "close" /\ pc[p] # "answer"
        /\ Underway' <=> job'[p].kind = "close" /\ pc'[p] # "answer"
    BY <2>1 DEF OthersIdle, Underway
  <2>3. CASE Settle(p)
    <3>1. job[p].op \in Ops /\ job[p].kind # "close"
      BY <2>0, <2>3, IntentTypes DEF Settle, Fits, Forward
    <3>2. Archived /\ Archived'
      BY <2>0, <2>2, <2>3, <3>1, CloseHolds, <1>2
         DEF Settle, Archived, Place, Forward, Within, GiveUp, Return, files, texts
    <3>3. CASE receipt' = receipt /\ told' = told  BY <3>2, <3>3, StepsAfter
    <3>4. CASE receipt = {} /\ receipt' = {[op |-> job[p].op, board |-> readme]} /\ told' = told
      <4>1. By = {} /\ By' = {job[p].op} /\ Item = "archived" /\ Item' = "archived"
        BY <3>2, <3>4 DEF By, Item
      <4>2. \E o \in Ops : Abstract!Settle(o)
        BY <3>1, <3>4, <4>1 DEF Abstract!Settle, By, Item
      <4> QED BY <4>2 DEF Abstract!Next
    <3>5. told' = told  BY <2>3 DEF Settle, GiveUp, Within, ghosts
    <3>6. CASE GiveUp(p)  BY <3>3, <3>5, <3>6 DEF GiveUp, files, papers
    <3>7. CASE /\ receipt \in {{}, {[op |-> job[p].op, board |-> readme]}}
               /\ receipt' = {[op |-> job[p].op, board |-> readme]}
      BY <3>3, <3>4, <3>5, <3>7
    <3> QED BY <2>3, <3>6, <3>7 DEF Settle, MySettlement
  <2>4. CASE Answer(p)
    <3>1. /\ at = "archive" /\ at' = at /\ receipt' = receipt
          /\ told' = told \cup {job[p].op} /\ pc'[p] = "idle"
      BY <2>0, <2>4 DEF Answer, Place, files, papers, Return, Control
    <3>2. Archived /\ Archived'
      BY <2>2, <2>4, <3>1, <1>2, <2>0, CloseHolds DEF Archived, Answer
    <3>3. By' = By /\ Item' = Item /\ Item = "archived" /\ By = {r.op : r \in receipt}
      BY <3>1, <3>2 DEF By, Item
    <3>4. job[p].op \in Ops \cup {Close} /\ (job[p].op = Close \/ By = {job[p].op})
      <4>1. CASE job[p].kind \in {"archive", "recover"}
        <5>1. PICK r \in receipt : r.op = job[p].op
          BY <2>0, <2>4, <4>1 DEF Receipts, Answer
        <5>2. receipt = {r}  BY <2>0, <5>1 DEF OneReceipt
        <5> QED BY <2>0, <3>3, <5>1, <5>2, JobTypes
      <4>2. CASE job[p].kind \notin {"archive", "recover"}
        BY <2>0, <4>2, JobTypes
      <4> QED BY <4>1, <4>2
    <3>5. Abstract!Tell(job[p].op)  BY <3>1, <3>3, <3>4 DEF Abstract!Tell, By, Item
    <3> QED BY <3>4, <3>5 DEF Abstract!Next
  <2>5. CASE ~Settle(p) /\ ~Answer(p)
    <3>1. told' = told /\ (receipt' # receipt => CloseSettle(p) \/ CompSettle(p))
      BY <1>2, <2>5, FewWrite
    <3>2. CASE Archived
      <4>1. Archived'  BY <1>2, <2>0, <2>2, <3>2, CloseHolds DEF Archived
      <4>2. receipt' = receipt
        <5>1. CASE CloseSettle(p) \/ CompSettle(p)
          <6>1. job[p].kind = "close" /\ pc[p] # "answer"
            BY <2>0, <5>1 DEF CloseSettle, CompSettle, CompStep, Within, Fits, Closing, Comping
          <6> QED BY <2>2, <3>2, <6>1 DEF Archived
        <5> QED BY <3>1, <5>1
      <4> QED BY <3>1, <3>2, <4>1, <4>2, StepsAfter
    <3>3. CASE ~Archived
      <4>1. \A r \in receipt : r.op = Close
        BY <2>0, <2>2, <3>3 DEF Archived, OneReceipt, Receipts
      <4>2. \A r \in receipt' : r.op = Close
        <5>1. CASE receipt' = receipt  BY <4>1, <5>1
        <5>2. CASE CloseSettle(p)  BY <5>2 DEF CloseSettle
        <5>3. CASE CompSettle(p)  BY <5>3 DEF CompSettle
        <5> QED BY <3>1, <5>1, <5>2, <5>3
      <4> QED BY <2>0, <3>1, <3>3, <4>2, StepsBefore
    <3> QED BY <3>2, <3>3
  <2> QED BY <2>3, <2>4, <2>5
<1> QED BY <1>1, <1>2, NextActs

(* Whatever crashes, failures and interleaved calls there are, the item is  *)
(* archived once, settled by one request, and a transition is answered with *)
(* success only when it is the one that settled it.                         *)
THEOREM ArchiveRefined == Spec => ImplementsArchive
<1>1. Init => Item = "open" /\ By = {} /\ told = {}
  BY DEF Init, Item, By, Archived
<1>2. Init => Abstract!Init  BY <1>1 DEF Abstract!Init, Item, By
<1>3. Safe /\ Safe' /\ [Next]_vars => [Abstract!Next]_<<Item, By, told>>  BY StepImplements
<1> QED BY <1>2, <1>3, SafeIsInvariant, SafeStep, PTL
        DEF Spec, ImplementsArchive, Abstract!Spec, Item, By

-----------------------------------------------------------------------------
(* The compensation of an ordinary close *)

AfterReceipt == {"compMove", "compClosure", "compStatus", "compBugs"}

(* What the close with the images k has not touched yet or has restored.    *)
Stage(p, k) ==
  /\ job[p].kept = {k} /\ edit = k.edit
  /\ at = "active" /\ pc[p] \notin AfterReceipt => bugReceipt = k.bugReceipt
  /\ ~torn =>
       /\ pc[p] = "compReceipt" \/ pc[p] \in AfterReceipt => receipt = {}
       /\ pc[p] \in AfterReceipt => bugReceipt \subseteq k.bugReceipt
       /\ pc[p] \in {"compClosure", "compStatus", "compBugs"} => at = "active"
       /\ pc[p] \in {"compStatus", "compBugs"} => closure = k.closure
       /\ pc[p] = "compBugs" => ~terminal

Kept(p) ==
  job[p].kind = "close" /\ pc[p] # "answer" => \A k \in job[p].kept : Stage(p, k)

LEMMA KeptStep ==
  ASSUME Safe, NEW p \in Procs, Kept(p), Act(p)
  PROVE  Kept(p)'
<1>0. /\ pc \in [Procs -> Places] /\ Fits(job[p].kind, pc[p])
      /\ job \in [Procs -> [kind : Kinds, op : Ops \cup {Close}, kept : SUBSET Images]]
      /\ NoJob.kind = "none" /\ at \in {"active", "archive"} /\ torn \in BOOLEAN
      /\ Place(p)
  BY DEF Safe, Control, FilesOK, GhostsOK, WellPlaced, NoJob
<1> USE <1>0 DEF Kept, Stage, AfterReceipt, Place, Fits, Within, GiveUp, Goto, Return, texts,
                 papers, files, ghosts, Undoing, Forward, Closing, Comping
<1>1. CASE Transition(p)
  <2>1. CASE Admit(p)  BY <2>1 DEF Admit
  <2>2. CASE TerminalizeBug(p) \/ WriteClosure(p)  BY <2>2 DEF TerminalizeBug, WriteClosure
  <2>3. CASE WriteStatus(p) \/ Move(p)  BY <2>3 DEF WriteStatus, Move
  <2>4. CASE WriteBugReceipt(p) \/ WriteSuccessor(p) \/ RefreshBoard(p) \/ Settle(p) \/ Retire(p)
    BY <2>4 DEF WriteBugReceipt, WriteSuccessor, RefreshBoard, Settle, Retire
  <2> QED BY <1>1, <2>1, <2>2, <2>3, <2>4 DEF Transition
<1>2. CASE Undo(p)
  BY <1>2 DEF Undo, UndoBug, UndoStatus, UndoClosure, UndoReceipt, UndoSuccessor, UndoRetire
<1>3. CASE Finish(p)
  BY <1>3 DEF Finish, CloseBoard, CloseReceipt, CloseSettle, CloseVerify
<1>4. CASE Compensate(p)
  <2> USE DEF CompStep, NextComp
  <2>1. CASE CompSettle(p)   BY <2>1 DEF CompSettle
  <2>2. CASE CompReceipt(p)
    <3>1. PICK k \in job[p].kept :
            \/ bugReceipt' = {} /\ UNCHANGED torn
            \/ bugReceipt' = bugReceipt /\ torn' = (torn \/ bugReceipt # {})
            \/ at = "active" /\ UNCHANGED <<bugReceipt, torn>>
      BY <2>2 DEF CompReceipt
    <3> QED BY <2>2, <3>1 DEF CompReceipt
  <2>3. CASE CompMove(p)     BY <2>3 DEF CompMove
  <2>4. CASE CompClosure(p)  BY <2>4 DEF CompClosure
  <2>5. CASE CompStatus(p)   BY <2>5 DEF CompStatus
  <2>6. CASE CompBug(p)      BY <2>6 DEF CompBug
  <2>7. CASE CompBoard(p)    BY <2>7 DEF CompBoard
  <2> QED BY <1>4, <2>1, <2>2, <2>3, <2>4, <2>5, <2>6, <2>7 DEF Compensate
<1>5. CASE Answer(p) \/ Refresh(p)  BY <1>5 DEF Answer, Refresh
<1>6. CASE Fail(p)
  <2>1. CASE CloseFails(p)  BY <2>1 DEF CloseFails
  <2>2. CASE CompFails(p)   BY <2>2 DEF CompFails, NextComp
  <2>3. CASE CompEndsTorn(p) \/ Crash(p)  BY <2>3 DEF CompEndsTorn, Crash
  <2>4. CASE MoveStays(p)   BY <2>4 DEF MoveStays
  <2> QED BY <1>6, <2>1, <2>2, <2>3, <2>4 DEF Fail
<1>7. ASSUME NEW kind, NEW o, NEW kept, NEW place, Enter(p, kind, o, kept, place)
      PROVE  job'[p].kind = kind /\ job'[p].kept = kept /\ pc'[p] = place
  BY <1>7 DEF Enter
<1>8. CASE \E o \in Ops : Archive(p, o) \/ Recover(p, o)
  <2>1. PICK o \in Ops : Archive(p, o) \/ Recover(p, o)  BY <1>8
  <2>2. \E kept, place : \/ Enter(p, "archive", o, kept, place)
                         \/ Enter(p, "recover", o, kept, place)
    BY <2>1 DEF Archive, Recover
  <2>3. job'[p].kind # "close"  BY <1>7, <2>2
  <2> QED BY <2>3
<1>9. CASE CloseItem(p)
  <2>1. job'[p].kept = {Image} /\ pc'[p] = "bugs"  BY <1>7, <1>9 DEF CloseItem
  <2>2. Image.edit = edit /\ Image.bugReceipt = bugReceipt  BY DEF Image
  <2> QED BY <1>9, <2>1, <2>2 DEF CloseItem
<1>10. CASE CloseReplay(p) \/ Writes(p)
  <2>1. job'[p].kind # "close"  BY <1>7, <1>10 DEF CloseReplay, Writes
  <2> QED BY <2>1
<1>11. CASE RefreshOnly(p)  BY <1>11 DEF RefreshOnly
<1> QED BY <1>1, <1>2, <1>3, <1>4, <1>5, <1>6, <1>8, <1>9, <1>10, <1>11
        DEF Act, Call, Step, Beside, Create, CreateSuccessor, Start, Update

Sound == Safe /\ \A p \in Procs : Kept(p)

LEMMA SoundIsInvariant == Init => Sound
<1> SUFFICES ASSUME Init PROVE \A p \in Procs : Kept(p)  BY SafeIsInvariant DEF Sound
<1> QED BY DEF Init, Kept, NoJob

LEMMA SoundStep == Sound /\ [Next]_vars => Sound'
<1> SUFFICES ASSUME Sound, [Next]_vars PROVE Sound'  OBVIOUS
<1>0. Safe'  BY SafeStep DEF Sound
<1>1. CASE UNCHANGED vars
  BY <1>0, <1>1 DEF vars, files, papers, texts, ghosts, Sound, Kept, Stage, AfterReceipt
<1>2. ASSUME NEW p \in Procs, Act(p) PROVE Sound'
  <2>1. Kept(p)'  BY <1>2, KeptStep DEF Sound
  <2>2. ASSUME NEW q \in Procs \ {p} PROVE Kept(q)'
    <3>1. job'[q].kind = "none"
      BY <1>2, ActAlone DEF OthersIdle, OnlyAt, Sound, Safe
    <3> QED BY <3>1 DEF Kept
  <2> QED BY <1>0, <2>1, <2>2 DEF Sound
<1> QED BY <1>1, <1>2, NextActs

LEMMA CompensationStep ==
  ASSUME Sound, [Next]_vars, NEW p \in Procs, pc[p] = "compBugs", pc'[p] = "idle", ~torn'
  PROVE  /\ at' = "active" /\ ~terminal' /\ \A b \in Bugs : bug'[b] = "open"
         /\ receipt' = {}
         /\ \A k \in job[p].kept : /\ edit' = k.edit /\ closure' = k.closure
                                   /\ readme' = k.readme /\ bugReceipt' \subseteq k.bugReceipt
<1>0. /\ Control /\ pc \in [Procs -> Places] /\ Fits(job[p].kind, pc[p]) /\ Kept(p)
      /\ \A k \in job[p].kept : Stage(p, k)
  BY DEF Sound, Safe, Control, Kept, Fits, Comping
<1>1. PICK q \in Procs : Act(q)
  <2>1. ~UNCHANGED vars  BY DEF vars
  <2> QED BY <2>1, NextActs
<1>2. q = p
  BY <1>0, <1>1, ActAlone DEF OthersIdle, OnlyAt
<1>3. CompBoard(p)
  <2> USE <1>0, <1>2 DEF Within, GiveUp, Goto, Return
  <2>1. ~Transition(p)
    BY DEF Transition, Admit, TerminalizeBug, WriteClosure, WriteStatus, WriteBugReceipt,
           Move, WriteSuccessor, RefreshBoard, Settle, Retire
  <2>2. ~Undo(p)
    BY DEF Undo, UndoBug, UndoStatus, UndoClosure, UndoReceipt, UndoSuccessor, UndoRetire
  <2>3. ~Finish(p) /\ ~Answer(p) /\ ~Refresh(p)
    BY DEF Finish, CloseBoard, CloseReceipt, CloseSettle, CloseVerify, Answer, Refresh
  <2>4. ~Fail(p)
    BY DEF Fail, CloseFails, MoveStays, CompFails, CompEndsTorn, Crash, NextComp, Closing, Fits, Comping,
           Sound, Safe, GhostsOK
  <2>5. ~Call(p)
    BY DEF Call, Archive, Recover, CloseItem, CloseReplay, Beside, Create, CreateSuccessor,
           Start, Update, Writes, RefreshOnly, Enter
  <2>6. Compensate(p)  BY <1>1, <2>1, <2>2, <2>3, <2>4, <2>5 DEF Act, Step
  <2> QED BY <2>6 DEF Compensate, CompSettle, CompReceipt, CompMove, CompClosure, CompStatus,
                      CompBug, CompStep
<1>4. /\ BugsUndone /\ UNCHANGED <<at, texts, bug, papers, torn>>
      /\ \E k \in job[p].kept : readme' = k.readme
  BY <1>3 DEF CompBoard, BoardBack, ghosts
<1>5. \A k \in job[p].kept : job[p].kept = {k}  BY <1>0 DEF Stage
<1> QED BY <1>0, <1>4, <1>5 DEF Stage, AfterReceipt, texts, papers, BugsUndone, Untouched

(* Where a close dies or fails, and in which order its compensation runs,   *)
(* do not matter: a compensation reported complete has restored everything. *)
THEOREM CompensationRestores == Spec => CloseCompensates
<1>1. Sound /\ [Next]_vars =>
        \A p \in Procs : (pc[p] = "compBugs" /\ pc'[p] = "idle" /\ ~torn') =>
          /\ at' = "active" /\ ~terminal' /\ \A b \in Bugs : bug'[b] = "open"
          /\ receipt' = {}
          /\ \A k \in job[p].kept : /\ edit' = k.edit /\ closure' = k.closure
                                    /\ readme' = k.readme /\ bugReceipt' \subseteq k.bugReceipt
  BY CompensationStep
<1> QED BY <1>1, SoundIsInvariant, SoundStep, PTL DEF Spec, CloseCompensates

-----------------------------------------------------------------------------
(* Half-done work is explained by a pending intent *)

SomePending == \E o \in Ops : intent[o] # {}

(* Intents that remember the item without a closure: the closure of an      *)
(* active item comes from one of them.                                      *)
Origin == \E o \in Ops : \E i \in intent[o] : i.closure = "none"

OneIntent == \A o \in Ops : \A i, j \in intent[o] : i = j

Busy(p) == job[p].kind = "close" /\ pc[p] # "answer"

(* Unless an ordinary close is under way (u) or was cut off, an active item *)
(* is untouched or has a pending intent that remembers how it was, and an   *)
(* archived one is complete but for a receipt a pending intent will write.  *)
Explained(u) ==
  /\ (at = "active" /\ ~u /\ ~torn) =>
       /\ receipt = {}
       /\ closure # "none" => Origin
       /\ ~SomePending => ~terminal /\ Untouched /\ bugReceipt = {}
  /\ (at = "archive" /\ ~u /\ ~torn) =>
       /\ AllMoved /\ terminal /\ closure = "final" /\ bugReceipt # {}
       /\ receipt # {} \/ SomePending
  /\ (at = "active" \/ u) => succ \notin {"own", "both"}

InTransition == {"bugs", "status", "bugReceipt", "move"}

(* How far the call of p has come.                                          *)
Way(p) ==
  /\ pc[p] = "admit" => intent[job[p].op] = {}
  /\ pc[p] \in InTransition \cup Undoing \cup Forward /\ job[p].kind \in {"archive", "recover"} =>
       intent[job[p].op] # {}
  /\ pc[p] \in InTransition /\ job[p].kind = "archive" /\ ~torn => Origin
  /\ pc[p] \in {"status", "bugReceipt", "move"} \cup Closing => AllMoved /\ closure = "final"
  /\ pc[p] \in {"bugReceipt", "move"} \cup Closing => terminal
  /\ pc[p] = "move" /\ job[p].kind = "archive" => bugReceipt # {}
  /\ pc[p] \in {"closeSettle", "closeVerify"} => bugReceipt # {}
  /\ pc[p] \in {"undoBugs", "undoClosure"} =>
       \A i \in intent[job[p].op] : closure \in {i.closure, "final"}
  /\ pc[p] \in Undoing \ {"undoBugs"} => ~terminal /\ Untouched
  /\ pc[p] \in {"undoReceipt", "undoSuccessor", "undoRetire"} =>
       \A i \in intent[job[p].op] : closure = i.closure
  /\ pc[p] \in {"undoSuccessor", "undoRetire"} => bugReceipt = {}

(* What a close restores was explained when it began.                       *)
KeptExplained(p) ==
  Busy(p) /\ ~torn =>
    \A k \in job[p].kept : /\ k.closure # "none" => Origin
                           /\ k.bugReceipt # {} => SomePending

Told(p) == Explained(Busy(p)) /\ OneIntent /\ Way(p) /\ KeptExplained(p)

(* What a step that leaves the intents or the bugs alone keeps.             *)
LEMMA IntentsKept ==
  ASSUME intent' = intent
  PROVE  (SomePending' <=> SomePending) /\ (Origin' <=> Origin) /\ (OneIntent' <=> OneIntent)
BY DEF SomePending, Origin, OneIntent

LEMMA BugsKept ==
  ASSUME bug' = bug
  PROVE  (Untouched' <=> Untouched) /\ (AllMoved' <=> AllMoved)
BY DEF Untouched, AllMoved

(* The shape of the control state, as the steps below use it.               *)
LEMMA ControlAt ==
  ASSUME Sound, NEW p \in Procs
  PROVE  /\ pc \in [Procs -> Places] /\ Fits(job[p].kind, pc[p])
         /\ job \in [Procs -> [kind : Kinds, op : Ops \cup {Close}, kept : SUBSET Images]]
         /\ NoJob.kind = "none" /\ at \in {"active", "archive"} /\ torn \in BOOLEAN
         /\ closure \in Closures /\ Place(p) /\ Receipts(p) /\ OneReceipt /\ Kept(p)
         /\ intent \in [Ops -> SUBSET Intents] /\ terminal \in BOOLEAN
BY DEF Sound, Safe, Control, FilesOK, GhostsOK, WellPlaced, NoJob

LEMMA AdmitTold ==
  ASSUME Sound, NEW p \in Procs, Told(p), Admit(p)
  PROVE  Told(p)'
<1>0. /\ pc \in [Procs -> Places] /\ pc[p] = "admit" /\ job[p].kind = "archive"
      /\ job \in [Procs -> [kind : Kinds, op : Ops \cup {Close}, kept : SUBSET Images]]
      /\ job[p].op \in Ops /\ intent \in [Ops -> SUBSET Intents] /\ NoJob.kind = "none"
      /\ at = "active" /\ closure \in {"none", "final"} /\ intent[job[p].op] = {}
  BY ControlAt, IntentTypes DEF Sound, Safe, Admit, Fits, Place, Told, Way, Closures
<1>1. UNCHANGED <<at, texts, bug, papers, succ, others, readme, torn>>
  BY DEF Admit, ghosts
<1>2. CASE Return(p) /\ UNCHANGED intent
  <2>1. pc'[p] = "idle" /\ job'[p].kind = "none"  BY <1>0, <1>2 DEF Return
  <2>2. Explained(Busy(p))'
    BY <1>0, <1>1, <1>2, <2>1, IntentsKept, BugsKept
       DEF Told, Explained, Busy, texts, papers
  <2>3. OneIntent'  BY <1>2, IntentsKept DEF Told
  <2> QED BY <2>1, <2>2, <2>3
          DEF Told, Way, KeptExplained, Busy, InTransition, Undoing, Forward, Closing
<1>3. CASE /\ intent' = [intent EXCEPT ![job[p].op] =
                 {[edit |-> edit, closure |-> closure, readme |-> readme, final |-> FinalBoard]}]
           /\ Goto(p, "bugs") /\ UNCHANGED job
  <2> DEFINE i == [edit |-> edit, closure |-> closure, readme |-> readme, final |-> FinalBoard]
  <2>1. pc'[p] = "bugs" /\ job'[p] = job[p]  BY <1>0, <1>3 DEF Goto
  <2>2. /\ intent'[job[p].op] = {i}
        /\ \A o \in Ops \ {job[p].op} : intent'[o] = intent[o]
    BY <1>0, <1>3
  <2>3. SomePending'  BY <1>0, <2>2 DEF SomePending
  <2>4. OneIntent'  BY <2>2 DEF OneIntent, Told
  <2>5. closure = "none" => Origin'
    <3>1. i.closure = closure  OBVIOUS
    <3> QED BY <1>0, <2>2, <3>1 DEF Origin
  <2>6. Origin => Origin'
    <3> SUFFICES ASSUME Origin PROVE Origin'  OBVIOUS
    <3>1. PICK o \in Ops : \E j \in intent[o] : j.closure = "none"  BY DEF Origin
    <3>2. intent'[o] = intent[o]  BY <1>0, <2>2, <3>1
    <3> QED BY <3>1, <3>2 DEF Origin
  <2>7. ~torn => Origin' /\ receipt = {}
    BY <1>0, <2>5, <2>6 DEF Told, Explained, Busy
  <2>8. Explained(Busy(p))'
    BY <1>0, <1>1, <2>1, <2>3, <2>7 DEF Told, Explained, Busy, papers
  <2>9. Way(p)'
    BY <1>0, <1>1, <2>1, <2>2, <2>7 DEF Way, InTransition, Undoing, Forward, Closing
  <2> QED BY <1>0, <2>1, <2>4, <2>8, <2>9 DEF Told, KeptExplained, Busy
<1> QED BY <1>2, <1>3 DEF Admit

LEMMA TransitionTold ==
  ASSUME Sound, NEW p \in Procs, Told(p), Transition(p), ~Admit(p), ~Retire(p)
  PROVE  Told(p)'
<1>0. intent' = intent
  BY DEF Transition, TerminalizeBug, WriteClosure, WriteStatus, WriteBugReceipt, Move,
         WriteSuccessor, RefreshBoard, Settle, GiveUp, files
<1>1. /\ (SomePending' <=> SomePending) /\ (Origin' <=> Origin) /\ (OneIntent' <=> OneIntent)
  BY <1>0, IntentsKept
<1>2. bug' = bug => (Untouched' <=> Untouched) /\ (AllMoved' <=> AllMoved)
  BY BugsKept
<1>3. pc[p] \in InTransition \cup Forward /\ job[p].kind # "close" => SomePending
  <2>1. job[p].op \in Ops \/ job[p].kind \notin {"archive", "recover"}
    BY JobTypes DEF Sound, Safe
  <2> QED BY <2>1, ControlAt DEF Told, Way, SomePending, Fits, InTransition, Forward
<1>4. /\ pc \in [Procs -> Places] /\ Fits(job[p].kind, pc[p]) /\ Place(p)
      /\ job \in [Procs -> [kind : Kinds, op : Ops \cup {Close}, kept : SUBSET Images]]
      /\ NoJob.kind = "none" /\ at \in {"active", "archive"} /\ torn \in BOOLEAN
  BY ControlAt
<1> USE <1>0, <1>1, <1>2, <1>3, <1>4
    DEF Told, Explained, Busy, Way, KeptExplained, Place, Fits, Within, GiveUp, Goto, Return,
        texts, papers, files, ghosts, InTransition, Undoing, Forward, Closing, Comping
<1>5. CASE TerminalizeBug(p)   BY <1>5 DEF TerminalizeBug
<1>6. CASE WriteClosure(p)     BY <1>6 DEF WriteClosure
<1>7. CASE WriteStatus(p)      BY <1>7 DEF WriteStatus
<1>8. CASE WriteBugReceipt(p)
  <2>1. bugReceipt' # {}  BY <1>8 DEF WriteBugReceipt
  <2> QED BY <1>8, <2>1 DEF WriteBugReceipt
<1>9. CASE Move(p)             BY <1>9 DEF Move
<1>10. CASE WriteSuccessor(p)
  <2>1. CASE GiveUp(p)
    <3>1. pc[p] = "successor"  BY <1>10 DEF WriteSuccessor
    <3> QED BY <2>1, <3>1
  <2>2. CASE ~GiveUp(p)
    <3>1. /\ pc[p] = "successor" /\ pc'[p] = "board" /\ job' = job
          /\ UNCHANGED <<at, texts, bug, papers, torn>>
      BY <1>10, <2>2 DEF WriteSuccessor
    <3>2. at = "archive" /\ job[p].kind # "close"  BY <3>1
    <3> QED BY <3>1, <3>2
  <2> QED BY <2>1, <2>2
<1>11. CASE RefreshBoard(p)    BY <1>11 DEF RefreshBoard
<1>12. CASE Settle(p)          BY <1>12 DEF Settle
<1> QED BY <1>5, <1>6, <1>7, <1>8, <1>9, <1>10, <1>11, <1>12 DEF Transition

LEMMA RetireTold ==
  ASSUME Sound, NEW p \in Procs, Told(p), Retire(p)
  PROVE  Told(p)'
<1>0. /\ pc \in [Procs -> Places] /\ pc[p] = "retire" /\ job[p].kind \in {"archive", "recover"}
      /\ job[p].op \in Ops /\ intent \in [Ops -> SUBSET Intents] /\ at = "archive"
      /\ receipt # {}
  BY ControlAt, IntentTypes
     DEF Sound, Safe, Retire, Within, Fits, Place, Receipts, Forward
<1>1. /\ UNCHANGED <<at, texts, bug, papers, succ, torn, job>> /\ pc'[p] = "answer"
      /\ intent' = [intent EXCEPT ![job[p].op] = {}]
  BY <1>0 DEF Retire, Within, Goto, ghosts
<1>2. OneIntent'  BY <1>0, <1>1 DEF OneIntent, Told
<1>3. Explained(Busy(p))'
  BY <1>0, <1>1, BugsKept DEF Told, Explained, Busy, texts, papers
<1> QED BY <1>0, <1>1, <1>2, <1>3
        DEF Told, Way, KeptExplained, Busy, InTransition, Undoing, Forward, Closing

LEMMA UndoTold ==
  ASSUME Sound, NEW p \in Procs, Told(p), Undo(p), ~UndoRetire(p)
  PROVE  Told(p)'
<1>0. intent' = intent
  BY DEF Undo, UndoBug, UndoStatus, UndoClosure, UndoReceipt, UndoSuccessor, GiveUp, files
<1>1. /\ (SomePending' <=> SomePending) /\ (Origin' <=> Origin) /\ (OneIntent' <=> OneIntent)
  BY <1>0, IntentsKept
<1>2. bug' = bug => (Untouched' <=> Untouched) /\ (AllMoved' <=> AllMoved)
  BY BugsKept
<1>3. /\ pc \in [Procs -> Places] /\ Fits(job[p].kind, pc[p]) /\ Place(p)
      /\ job \in [Procs -> [kind : Kinds, op : Ops \cup {Close}, kept : SUBSET Images]]
      /\ NoJob.kind = "none" /\ at \in {"active", "archive"} /\ torn \in BOOLEAN
      /\ closure \in Closures
  BY ControlAt
<1>4. pc[p] \in Undoing
  BY DEF Undo, UndoBug, UndoStatus, UndoClosure, UndoReceipt, UndoSuccessor, UndoRetire, Within,
         Undoing
<1>5. job[p].op \in Ops /\ intent[job[p].op] \subseteq Intents
  BY <1>4, IntentTypes DEF Sound, Safe
<1>6. \A i, j \in intent[job[p].op] : i = j
  BY <1>5 DEF Told, OneIntent
<1>7. SomePending
  BY <1>3, <1>4, <1>5 DEF Told, Way, SomePending, Fits
<1>8. at = "active" /\ ~Busy(p)
  BY <1>3, <1>4 DEF Place, Busy, Fits
<1> USE <1>0, <1>1, <1>2, <1>3, <1>7, <1>8
    DEF Told, Explained, Busy, Way, KeptExplained, Within, GiveUp, Goto, Return, texts, papers,
        files, ghosts, InTransition, Undoing, Forward, Closing, Closures
<1>9. CASE UndoBug(p)  BY <1>9 DEF UndoBug
<1>10. CASE UndoStatus(p)
  <2>1. CASE GiveUp(p)  BY <1>4, <2>1
  <2>2. CASE ~GiveUp(p)
    <3>1. /\ pc[p] = "undoBugs" /\ pc'[p] = "undoClosure" /\ job' = job /\ BugsUndone
          /\ ~terminal' /\ UNCHANGED <<at, closure, bug, papers, succ, torn>>
      BY <1>10, <2>2 DEF UndoStatus
    <3> QED BY <3>1 DEF BugsUndone
  <2> QED BY <2>1, <2>2
<1>11. CASE UndoClosure(p)
  <2>1. PICK i \in intent[job[p].op] : closure' = i.closure  BY <1>11 DEF UndoClosure
  <2>2. \A j \in intent[job[p].op] : closure' = j.closure  BY <1>6, <2>1
  <2>3. closure' # "none" => closure = "final"
    BY <1>5, <1>11, <2>1 DEF UndoClosure, Intents
  <2>4. /\ pc[p] = "undoClosure" /\ pc'[p] = "undoReceipt" /\ job' = job
        /\ UNCHANGED <<at, terminal, bug, papers, succ, torn>>
    BY <1>11 DEF UndoClosure
  <2> QED BY <2>2, <2>3, <2>4
<1>12. CASE UndoReceipt(p)  BY <1>12 DEF UndoReceipt
<1>13. CASE UndoSuccessor(p)
  <2>1. CASE GiveUp(p)  BY <1>4, <2>1
  <2>2. CASE ~GiveUp(p)
    <3>1. /\ pc[p] = "undoSuccessor" /\ pc'[p] = "undoRetire" /\ job' = job
          /\ UNCHANGED <<at, texts, bug, papers, torn>>
      BY <1>13, <2>2 DEF UndoSuccessor
    <3>2. succ' \notin {"own", "both"}
      BY <1>13, <2>2 DEF UndoSuccessor
    <3> QED BY <3>1, <3>2
  <2> QED BY <2>1, <2>2
<1> QED BY <1>9, <1>10, <1>11, <1>12, <1>13 DEF Undo

LEMMA UndoRetireTold ==
  ASSUME Sound, NEW p \in Procs, Told(p), UndoRetire(p)
  PROVE  Told(p)'
<1>0. /\ pc \in [Procs -> Places] /\ pc[p] = "undoRetire"
      /\ job \in [Procs -> [kind : Kinds, op : Ops \cup {Close}, kept : SUBSET Images]]
      /\ job[p].kind \in {"archive", "recover"} /\ NoJob.kind = "none"
      /\ job[p].op \in Ops /\ intent \in [Ops -> SUBSET Intents] /\ at = "active"
      /\ closure \in {"none", "final"}
  BY ControlAt, IntentTypes DEF Sound, Safe, UndoRetire, Fits, Place, Undoing, Closures
<1>1. /\ UNCHANGED <<at, texts, bug, papers, succ, torn>>
      /\ intent' = [intent EXCEPT ![job[p].op] = {}]
  BY DEF UndoRetire, ghosts
<1>2. \/ pc'[p] = "idle" /\ job'[p].kind = "none"
      \/ pc'[p] = "admit" /\ job'[p] = job[p]
  BY <1>0 DEF UndoRetire, Return, Goto
<1>3. OneIntent'  BY <1>0, <1>1 DEF OneIntent, Told
<1>4. /\ ~terminal /\ Untouched /\ bugReceipt = {}
      /\ \A i \in intent[job[p].op] : closure = i.closure
  BY <1>0 DEF Told, Way, Undoing
<1>5. Origin /\ closure # "none" => Origin'
  <2> SUFFICES ASSUME Origin, closure # "none" PROVE Origin'  OBVIOUS
  <2>1. PICK o \in Ops : \E i \in intent[o] : i.closure = "none"  BY DEF Origin
  <2>2. o # job[p].op  BY <1>4, <2>1
  <2>3. intent'[o] = intent[o]  BY <1>0, <1>1, <2>2
  <2> QED BY <2>1, <2>3 DEF Origin
<1>6. Explained(Busy(p))'
  BY <1>0, <1>1, <1>2, <1>4, <1>5, BugsKept DEF Told, Explained, Busy, texts, papers
<1>7. intent'[job[p].op] = {}  BY <1>0, <1>1
<1>8. Way(p)'
  BY <1>2, <1>7 DEF Way, InTransition, Undoing, Forward, Closing
<1> QED BY <1>0, <1>2, <1>3, <1>6, <1>8 DEF Told, KeptExplained, Busy

LEMMA CloseTold ==
  ASSUME Sound, NEW p \in Procs, Told(p),
         Finish(p) \/ Compensate(p) \/ Fail(p) \/ Answer(p) \/ Refresh(p)
  PROVE  Told(p)'
<1>0. intent' = intent
  BY DEF Finish, CloseBoard, CloseReceipt, CloseSettle, CloseVerify, Compensate, CompSettle,
         CompReceipt, CompMove, CompClosure, CompStatus, CompBug, CompBoard, Fail, CloseFails,
         MoveStays, CompFails, CompEndsTorn, Crash, Answer, Refresh, files
<1>1. /\ (SomePending' <=> SomePending) /\ (Origin' <=> Origin) /\ (OneIntent' <=> OneIntent)
  BY <1>0, IntentsKept
<1>2. bug' = bug => (Untouched' <=> Untouched) /\ (AllMoved' <=> AllMoved)
  BY BugsKept
<1>3. /\ pc \in [Procs -> Places] /\ Fits(job[p].kind, pc[p]) /\ Place(p) /\ Kept(p)
      /\ job \in [Procs -> [kind : Kinds, op : Ops \cup {Close}, kept : SUBSET Images]]
      /\ NoJob.kind = "none" /\ at \in {"active", "archive"} /\ torn \in BOOLEAN
      /\ Receipts(p)
  BY ControlAt
<1> USE <1>0, <1>1, <1>2, <1>3
    DEF Told, Explained, Busy, Way, KeptExplained, Place, Fits, Within, CompStep, Goto, Return,
        texts, papers, files, ghosts, InTransition, Undoing, Forward, Closing, Comping
<1>4. CASE CloseBoard(p)    BY <1>4 DEF CloseBoard
<1>5. CASE CloseReceipt(p)
  <2>1. bugReceipt' # {}  BY <1>5 DEF CloseReceipt
  <2> QED BY <1>5, <2>1 DEF CloseReceipt
<1>6. CASE CloseSettle(p)   BY <1>6 DEF CloseSettle
<1>7. CASE CloseVerify(p)   BY <1>7 DEF CloseVerify, Receipts
<1>8. CASE CompSettle(p)    BY <1>8 DEF CompSettle, NextComp
<1>9. CASE CompReceipt(p)
  <2>1. /\ pc[p] = "compReceipt" /\ pc'[p] = "compMove" /\ job' = job /\ (torn => torn')
        /\ UNCHANGED <<at, texts, bug, receipt, succ>>
    BY <1>9 DEF CompReceipt
  <2> QED BY <2>1
<1>10. CASE CompMove(p)     BY <1>10 DEF CompMove, NextComp
<1>11. CASE CompClosure(p)  BY <1>11 DEF CompClosure, NextComp
<1>12. CASE CompStatus(p)   BY <1>12 DEF CompStatus, NextComp
<1>13. CASE CompBug(p)      BY <1>13 DEF CompBug
<1>14. CASE CompBoard(p)
  <2>1. PICK k \in job[p].kept : readme' = BoardBack(k)  BY <1>14 DEF CompBoard
  <2>2. /\ pc[p] = "compBugs" /\ pc'[p] = "idle" /\ job'[p].kind = "none" /\ Untouched
        /\ UNCHANGED <<at, texts, bug, papers, succ, torn>>
    BY <1>14 DEF CompBoard, BugsUndone
  <2>3. ~torn => /\ at = "active" /\ receipt = {} /\ closure = k.closure /\ ~terminal
                 /\ bugReceipt \subseteq k.bugReceipt
    BY <2>2 DEF Kept, Stage, AfterReceipt
  <2>4. ~torn => (closure # "none" => Origin) /\ (~SomePending => bugReceipt = {})
    BY <2>2, <2>3
  <2>5. succ \notin {"own", "both"}  BY <2>2
  <2> QED BY <2>2, <2>3, <2>4, <2>5
<1>15. CASE CompEndsTorn(p) BY <1>15 DEF CompEndsTorn
<1>16. CASE CloseFails(p)   BY <1>16 DEF CloseFails
<1>17. CASE CompFails(p)    BY <1>17 DEF CompFails, NextComp
<1>18. CASE Crash(p)        BY <1>18 DEF Crash
<1>19. CASE Answer(p)       BY <1>19 DEF Answer
<1>20. CASE Refresh(p)      BY <1>20 DEF Refresh
<1>21. CASE MoveStays(p)    BY <1>21 DEF MoveStays
<1> QED BY <1>4, <1>5, <1>6, <1>7, <1>8, <1>9, <1>10, <1>11, <1>12, <1>13, <1>14, <1>15, <1>16,
           <1>17, <1>18, <1>19, <1>20, <1>21 DEF Finish, Compensate, Fail

LEMMA CallTold ==
  ASSUME Sound, NEW p \in Procs, Told(p), Call(p)
  PROVE  Told(p)'
<1>0. intent' = intent /\ UNCHANGED <<at, terminal, closure, bug, papers, torn>>
  <2> USE DEF Enter, files, texts, papers, ghosts
  <2>1. CASE \E o \in Ops : Archive(p, o) \/ Recover(p, o)  BY <2>1 DEF Archive, Recover
  <2>2. CASE CloseItem(p)           BY <2>2 DEF CloseItem
  <2>3. CASE CloseReplay(p)         BY <2>3 DEF CloseReplay
  <2>4. CASE \E x \in Others : Create(p, x)  BY <2>4 DEF Create, Writes
  <2>5. CASE CreateSuccessor(p)     BY <2>5 DEF CreateSuccessor, Writes
  <2>6. CASE Start(p)               BY <2>6 DEF Start, Writes
  <2>7. CASE Update(p)              BY <2>7 DEF Update, Writes
  <2>8. CASE RefreshOnly(p)         BY <2>8 DEF RefreshOnly
  <2> QED BY <2>1, <2>2, <2>3, <2>4, <2>5, <2>6, <2>7, <2>8 DEF Call, Beside
<1>1. /\ (SomePending' <=> SomePending) /\ (Origin' <=> Origin) /\ (OneIntent' <=> OneIntent)
      /\ (Untouched' <=> Untouched) /\ (AllMoved' <=> AllMoved)
  BY <1>0, IntentsKept, BugsKept
<1>2. /\ pc \in [Procs -> Places] /\ pc[p] = "idle" /\ job[p].kind = "none"
      /\ job \in [Procs -> [kind : Kinds, op : Ops \cup {Close}, kept : SUBSET Images]]
  BY ControlAt DEF Fits, Call, Archive, Recover, CloseItem, CloseReplay, Beside, Create,
         CreateSuccessor, Start, Update, Writes, RefreshOnly, Enter
<1>3. ASSUME NEW kind, NEW o, NEW kept, NEW place, Enter(p, kind, o, kept, place)
      PROVE  pc'[p] = place /\ job'[p].kind = kind /\ job'[p].op = o /\ job'[p].kept = kept
  BY <1>2, <1>3 DEF Enter
<1>4. ~Busy(p) /\ Explained(FALSE)  BY <1>2 DEF Busy, Told
<1>5. ASSUME ~Busy(p)', succ' = succ PROVE Explained(Busy(p))' /\ KeptExplained(p)'
  BY <1>0, <1>1, <1>4, <1>5 DEF Explained, KeptExplained, papers
<1>6. ASSUME NEW o \in Ops, Archive(p, o) PROVE Told(p)'
  <2>1. succ' = succ  BY <1>6 DEF Archive, files
  <2>2. ASSUME NEW i \in intent[o], Resumes(i),
               Enter(p, "archive", o, {[Image EXCEPT !.readme = i.readme]}, Resumption(i))
        PROVE  Told(p)'
    <3>1. pc'[p] = Resumption(i) /\ job'[p].kind = "archive" /\ job'[p].op = o  BY <1>3, <2>2
    <3>2. \A j \in intent[o] : j = i  BY <2>2 DEF Told, OneIntent
    <3>3. Resumption(i) = "undoBugs" => closure \in {i.closure, "final"}
      BY DEF Resumption, RollsBack
    <3>4. Resumption(i) \in {"undoBugs", "successor"}  BY DEF Resumption
    <3>5. Way(p)'
      BY <1>0, <3>1, <3>2, <3>3, <3>4 DEF Way, InTransition, Undoing, Forward, Closing
    <3>6. ~Busy(p)'  BY <3>1 DEF Busy
    <3> QED BY <1>1, <1>5, <2>1, <3>5, <3>6 DEF Told
  <2>3. CASE Enter(p, "archive", o, {}, "answer")
    <3>1. pc'[p] = "answer" /\ job'[p].kind = "archive"  BY <1>3, <2>3
    <3>2. Way(p)' /\ ~Busy(p)'
      BY <3>1 DEF Way, Busy, InTransition, Undoing, Forward, Closing
    <3> QED BY <1>1, <1>5, <2>1, <3>2 DEF Told
  <2>4. CASE intent[o] = {} /\ Enter(p, "archive", o, {Image}, "admit")
    <3>1. pc'[p] = "admit" /\ job'[p].kind = "archive" /\ job'[p].op = o  BY <1>3, <2>4
    <3>2. Way(p)' /\ ~Busy(p)'
      BY <1>0, <2>4, <3>1 DEF Way, Busy, InTransition, Undoing, Forward, Closing
    <3> QED BY <1>1, <1>5, <2>1, <3>2 DEF Told
  <2> QED BY <1>6, <2>2, <2>3, <2>4 DEF Archive
<1>7. ASSUME NEW o \in Ops, Recover(p, o) PROVE Told(p)'
  <2>1. PICK i \in intent[o] : Resumes(i) /\ Enter(p, "recover", o, {}, Resumption(i))
    BY <1>7 DEF Recover
  <2>2. succ' = succ  BY <1>7 DEF Recover, files
  <2>3. pc'[p] = Resumption(i) /\ job'[p].kind = "recover" /\ job'[p].op = o  BY <1>3, <2>1
  <2>4. \A j \in intent[o] : j = i  BY <2>1 DEF Told, OneIntent
  <2>5. Resumption(i) = "undoBugs" => closure \in {i.closure, "final"}
    BY DEF Resumption, RollsBack
  <2>6. Resumption(i) \in {"undoBugs", "successor"}  BY DEF Resumption
  <2>7. Way(p)'
    BY <1>0, <2>1, <2>3, <2>4, <2>5, <2>6 DEF Way, InTransition, Undoing, Forward, Closing
  <2>8. ~Busy(p)'  BY <2>3 DEF Busy
  <2> QED BY <1>1, <1>5, <2>2, <2>7, <2>8 DEF Told
<1>8. CASE CloseItem(p)
  <2>1. /\ pc'[p] = "bugs" /\ job'[p].kind = "close" /\ job'[p].kept = {Image}
        /\ at = "active" /\ succ' = succ
    BY <1>3, <1>8 DEF CloseItem, files
  <2>2. ~torn => (closure # "none" => Origin) /\ (bugReceipt # {} => SomePending)
    BY <1>4, <2>1 DEF Explained
  <2>3. Image.closure = closure /\ Image.bugReceipt = bugReceipt  BY DEF Image
  <2>4. KeptExplained(p)'  BY <1>0, <1>1, <2>1, <2>2, <2>3 DEF KeptExplained
  <2>5. Explained(Busy(p))'  BY <1>0, <1>1, <1>4, <2>1 DEF Explained, Busy
  <2>6. Way(p)'  BY <2>1 DEF Way, InTransition, Undoing, Forward, Closing
  <2> QED BY <1>1, <2>4, <2>5, <2>6 DEF Told
<1>9. CASE CloseReplay(p)
  <2>1. pc'[p] = "answer" /\ job'[p].kind = "other" /\ succ' = succ
    BY <1>3, <1>9 DEF CloseReplay
  <2>2. Way(p)' /\ ~Busy(p)'  BY <2>1 DEF Way, Busy, InTransition, Undoing, Forward, Closing
  <2> QED BY <1>1, <1>5, <2>1, <2>2 DEF Told
<1>10. CASE Writes(p) /\ succ' \in {succ, "foreign", "started"}
  <2>1. pc'[p] = "refresh" /\ job'[p].kind = "other"  BY <1>3, <1>10 DEF Writes
  <2>2. Way(p)' /\ ~Busy(p)' /\ KeptExplained(p)'
    BY <2>1 DEF Way, Busy, KeptExplained, InTransition, Undoing, Forward, Closing
  <2>3. Explained(Busy(p))'  BY <1>0, <1>1, <1>4, <1>10, <2>2 DEF Explained, papers
  <2> QED BY <1>1, <2>2, <2>3 DEF Told
<1>11. CASE RefreshOnly(p)
  <2>1. pc' = pc /\ job' = job /\ succ' = succ  BY <1>11 DEF RefreshOnly
  <2>2. Way(p)' /\ ~Busy(p)'
    BY <1>2, <2>1 DEF Way, Busy, InTransition, Undoing, Forward, Closing
  <2> QED BY <1>1, <1>5, <2>1, <2>2 DEF Told
<1> QED BY <1>6, <1>7, <1>8, <1>9, <1>10, <1>11
        DEF Call, Beside, Create, CreateSuccessor, Start, Update

(* The inductive invariant of the module.                                   *)
IInv == Sound /\ Explained(Underway) /\ OneIntent /\ \A p \in Procs : Way(p) /\ KeptExplained(p)

(* Beside idle processes, what is under way is what p does.                 *)
LEMMA BusyAlone ==
  ASSUME NEW p \in Procs, OthersIdle(p)
  PROVE  Underway <=> Busy(p)
BY DEF OthersIdle, Underway, Busy

LEMMA IdleWay ==
  ASSUME NEW q \in Procs, pc[q] = "idle", job[q].kind = "none"
  PROVE  Way(q) /\ KeptExplained(q)
BY DEF Way, KeptExplained, Busy, InTransition, Undoing, Forward, Closing

LEMMA IInvInit == Init => IInv
<1> SUFFICES ASSUME Init PROVE IInv  OBVIOUS
<1>1. Sound  BY SoundIsInvariant
<1>2. ASSUME NEW p \in Procs PROVE pc[p] = "idle" /\ job[p].kind = "none"
  BY DEF Init, NoJob
<1>3. \A p \in Procs : Way(p) /\ KeptExplained(p)  BY <1>2, IdleWay
<1>4. OneIntent  BY DEF Init, OneIntent
<1>5. Untouched  BY DEF Init, Untouched
<1>6. Explained(Underway)  BY <1>5 DEF Init, Explained
<1> QED BY <1>1, <1>3, <1>4, <1>6 DEF IInv

LEMMA IInvAct ==
  ASSUME IInv, [Next]_vars, NEW p \in Procs, Act(p)
  PROVE  IInv'
<1>1. Sound /\ Sound' /\ OthersIdle(p) /\ OnlyAt(p)
  BY SoundStep, ActAlone DEF IInv, Sound, Safe
<1>2. Told(p)
  <2>1. Underway <=> Busy(p)  BY <1>1, BusyAlone
  <2>2. Explained(Busy(p))
    <3>1. CASE Busy(p)   BY <2>1, <3>1 DEF IInv, Explained
    <3>2. CASE ~Busy(p)  BY <2>1, <3>2 DEF IInv, Explained
    <3> QED BY <3>1, <3>2
  <2> QED BY <2>2 DEF IInv, Told
<1>3. Told(p)'
  <2>1. CASE Transition(p)
    BY <1>1, <1>2, <2>1, AdmitTold, RetireTold, TransitionTold
  <2>2. CASE Undo(p)  BY <1>1, <1>2, <2>2, UndoTold, UndoRetireTold
  <2>3. CASE Finish(p) \/ Compensate(p) \/ Fail(p) \/ Answer(p) \/ Refresh(p)
    BY <1>1, <1>2, <2>3, CloseTold
  <2>4. CASE Call(p)  BY <1>1, <1>2, <2>4, CallTold
  <2> QED BY <2>1, <2>2, <2>3, <2>4 DEF Act, Step
<1>4. ASSUME NEW q \in Procs \ {p}
      PROVE  pc'[q] = "idle" /\ job'[q].kind = "none"
  BY <1>1 DEF OthersIdle, OnlyAt
<1>5. ASSUME NEW q \in Procs \ {p} PROVE Way(q)' /\ KeptExplained(q)'
  BY <1>4 DEF Way, KeptExplained, Busy, InTransition, Undoing, Forward, Closing
<1>6. Explained(Underway)'
  <2>1. Underway' <=> Busy(p)'  BY <1>4 DEF Underway, Busy
  <2>2. CASE Busy(p)'   BY <1>3, <2>1, <2>2 DEF Told, Explained
  <2>3. CASE ~Busy(p)'  BY <1>3, <2>1, <2>3 DEF Told, Explained
  <2> QED BY <2>2, <2>3
<1> QED BY <1>1, <1>3, <1>5, <1>6 DEF IInv, Told

LEMMA IInvStep == IInv /\ [Next]_vars => IInv'
<1> SUFFICES ASSUME IInv, [Next]_vars PROVE IInv'  OBVIOUS
<1>1. CASE UNCHANGED vars
  <2>1. Sound'  BY SoundStep DEF IInv
  <2>2. UNCHANGED <<files, pc, job, torn>>  BY <1>1 DEF vars, ghosts
  <2>3. Underway' <=> Underway  BY <2>2 DEF Underway
  <2>4. Explained(Underway)'
    <3>1. CASE Underway   BY <2>2, <2>3, <3>1
      DEF IInv, Explained, SomePending, Origin, Untouched, AllMoved, files, papers, texts
    <3>2. CASE ~Underway  BY <2>2, <2>3, <3>2
      DEF IInv, Explained, SomePending, Origin, Untouched, AllMoved, files, papers, texts
    <3> QED BY <3>1, <3>2
  <2>5. OneIntent'  BY <2>2 DEF IInv, OneIntent, files
  <2>6. ASSUME NEW q \in Procs PROVE Way(q)' /\ KeptExplained(q)'
    BY <2>2 DEF IInv, Way, KeptExplained, Busy, SomePending, Origin, Untouched, AllMoved, files,
                papers, texts
  <2> QED BY <2>1, <2>4, <2>5, <2>6 DEF IInv
<1>2. ASSUME NEW p \in Procs, Act(p) PROVE IInv'  BY <1>2, IInvAct
<1> QED BY <1>1, <1>2, NextActs

(* However transitions, recoveries, closes, commands beside them and        *)
(* crashes follow one another: with nothing under way, no intent pending    *)
(* and no ordinary close cut off, the item is as it was or wholly ended.    *)
THEOREM WholeInQuiet == Spec => []WholeWhenQuiet
<1>1. IInv => WholeWhenQuiet
  <2> SUFFICES ASSUME IInv, lock = Nobody, ~torn, \A o \in Ops : intent[o] = {}
               PROVE  \/ /\ at = "active" /\ ~terminal /\ closure = "none" /\ Untouched
                         /\ papers = <<{}, {}>> /\ succ # "own"
                      \/ /\ at = "archive" /\ terminal /\ closure = "final" /\ AllMoved
                         /\ bugReceipt # {} /\ receipt # {}
    BY DEF WholeWhenQuiet
  <2>1. ~Underway
    <3>1. ASSUME NEW p \in Procs PROVE job[p].kind # "close"
      <4>1. Control  BY DEF IInv, Sound, Safe
      <4>2. pc[p] = "idle"  BY <4>1, NamesAreNames DEF Control
      <4>3. Fits(job[p].kind, pc[p])  BY <4>1 DEF Control
      <4> QED BY <4>2, <4>3 DEF Fits
    <3> QED BY <3>1 DEF Underway
  <2>2. ~SomePending /\ ~Origin  BY DEF SomePending, Origin
  <2>3. at \in {"active", "archive"}  BY DEF IInv, Sound, Safe, FilesOK
  <2> QED BY <2>1, <2>2, <2>3 DEF IInv, Explained, papers
<1> QED BY <1>1, IInvInit, IInvStep, PTL DEF Spec
=============================================================================
