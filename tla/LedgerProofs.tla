---------------------------- MODULE LedgerProofs ----------------------------
(* Proofs about Ledger for any processes, rows, seals, digests and bounds:  *)
(* it is a LedgerLog, and what its rows refer to is there, for any number   *)
(* of crashes, failures and operators.                                      *)
EXTENDS Ledger, SequenceTheorems, TLAPS

Act(p) ==
  \/ Call(p) \/ Acquire(p) \/ GiveUp(p) \/ Step(p)
  \/ Fail(p) \/ Crash(p) \/ Unnamed(p) \/ Undone(p) \/ RemoveLock(p)

-----------------------------------------------------------------------------
(* Types *)

LEMMA CallRows ==
  /\ NoCall.row = Legacy
  /\ \A c \in Calls : c.row \in Entries
  /\ \A c \in Calls : c.op \in {"append", "settle", "recover", "dispose"} =>
       c.row \in Rows /\ Kind[c.row] # "broken"
  /\ \A c \in Calls : c.op \in {"append", "settle", "recover", "dispose", "apply", "rollback"}
  /\ \A c \in Calls : c.op \in {"apply", "rollback"} => c.row \in Seals
BY RowsAreRows DEF Calls, NoCall, Entries

LEMMA Appended ==
  ASSUME NEW s \in Seq(Entries), NEW e \in Entries
  PROVE  /\ Append(s, e) \in Seq(Entries) /\ Len(Append(s, e)) = Len(s) + 1
         /\ \A i \in 1..Len(s) : Append(s, e)[i] = s[i]
         /\ Append(s, e)[Len(s) + 1] = e
OBVIOUS

LEMMA Singles == (\A e \in Entries : <<e>> \in Seq(Entries)) /\ Legacy \in Entries /\ Rows \subseteq Entries
BY DEF Entries

LEMMA TempTyped ==
  \A k \in {"absent", "torn", "whole"}, t \in Seq(Entries) :
    [is |-> k, rows |-> t] \in [is : {"absent", "torn", "whole"}, rows : Seq(Entries)]
OBVIOUS

LEMMA TypesAtFirst == Init => TypeOK
<1> SUFFICES ASSUME Init PROVE TypeOK
  OBVIOUS
<1>1. ledger \in Seq(Entries)
  <2>1. CASE ledger = <<>>  BY <2>1
  <2>2. CASE ledger = <<Legacy>>  BY <2>2, Singles
  <2>3. CASE \E r \in Rows : ledger = <<r>>  BY <2>3, Singles
  <2> QED BY <2>1, <2>2, <2>3 DEF Init, Log!Beginnings
<1> QED BY <1>1, BoundsAreNumbers
     DEF Init, TypeOK, NoTemp, Places, Inside, Appending, Sealing

LEMMA TypesStay == ASSUME TypeOK, NEW p \in Procs, Act(p) PROVE TypeOK'
<1>0. Row(p) \in Entries /\ Legacy \in Entries  BY CallRows DEF TypeOK, Row, Entries
<1> USE DEF TypeOK, Goto, files, locals
<1>1. CASE Call(p)  BY <1>1 DEF Call, Places, Inside, Appending, Sealing
<1>2. CASE Acquire(p)  BY <1>2, CallRows DEF Acquire, Places, Inside, Appending, Sealing
<1>3. CASE GiveUp(p)  BY <1>3 DEF GiveUp, Forget, Places, Inside, Appending, Sealing
<1>4. CASE Done(p)  BY <1>4 DEF Done, Forget, Places, Inside, Appending, Sealing
<1>5. CASE RemoveLock(p)  BY <1>5 DEF RemoveLock, Forget, Places, Inside, Appending, Sealing
<1>6. CASE Replay(p)  BY <1>6 DEF Replay, Places, Inside, Appending, Sealing
<1>7. CASE Capture(p)  BY <1>7, <1>0, Appended DEF Capture, Places, Inside, Appending, Sealing
<1>8. CASE Snapshot(p)
  <2>1. pc' \in [Procs -> Places]  BY <1>8 DEF Snapshot, AfterSnap, Places, Inside, Appending
  <2>2. snaps' \in [Digests -> {"absent", "torn", "whole"}]
    <3>1. CASE snaps' = [snaps EXCEPT ![Digest[Row(p)]] = "torn"]  BY <3>1
    <3>2. CASE UNCHANGED snaps  BY <3>2
    <3> QED BY <1>8, <3>1, <3>2 DEF Snapshot
  <2>3. made' \in [Procs -> SUBSET {"snapshot", "association"}]
    <3>1. CASE made' = [made EXCEPT ![p] = {"snapshot"}]  BY <3>1
    <3>2. CASE UNCHANGED made  BY <3>2
    <3> QED BY <1>8, <3>1, <3>2 DEF Snapshot
  <2>4. UNCHANGED <<ledger, temp, assoc, blob, lock, req, base, img, faults>>
    BY <1>8 DEF Snapshot
  <2> QED BY <2>1, <2>2, <2>3, <2>4
<1>9. CASE SnapFill(p)
  <2>1. pc' \in [Procs -> Places]  BY <1>9 DEF SnapFill, AfterSnap, Places, Inside, Appending
  <2> QED BY <1>9, <2>1, <1>0 DEF SnapFill
<1>10. CASE Create(p)
  <2>1. pc' \in [Procs -> Places]
    <3>1. CASE Goto(p, "fill")  BY <3>1 DEF Places, Inside, Appending
    <3>2. CASE Goto(p, "abort")  BY <3>2 DEF Places, Inside, Appending
    <3> QED BY <1>10, <3>1, <3>2 DEF Create
  <2>2. temp' \in [is : {"absent", "torn", "whole"}, rows : Seq(Entries)]
    <3>1. CASE temp' = [is |-> "torn", rows |-> <<>>]
      <4>1. <<>> \in Seq(Entries)  OBVIOUS
      <4> QED BY <3>1, <4>1, TempTyped
    <3>2. CASE UNCHANGED temp  BY <3>2
    <3> QED BY <1>10, <3>1, <3>2 DEF Create
  <2>3. UNCHANGED <<ledger, snaps, assoc, blob, lock, locals, faults>>  BY <1>10 DEF Create
  <2> QED BY <2>1, <2>2, <2>3
<1>11. CASE Fill(p)  BY <1>11 DEF Fill, Places, Inside, Appending, Sealing
<1>12. CASE Judge(p)  BY <1>12 DEF Judge, Places, Inside, Appending, Sealing
<1>13. CASE Link(p)
  <2>1. pc' \in [Procs -> Places]  BY <1>13 DEF Link, Places, Inside, Appending, Sealing
  <2> QED BY <1>13, <2>1, <1>0 DEF Link
<1>14. CASE Place(p)
  <2>1. pc' \in [Procs -> Places]
    <3>1. CASE Goto(p, "return")  BY <3>1 DEF Places, Inside
    <3>2. CASE Goto(p, "leave")  BY <3>2 DEF Places, Inside
    <3>3. CASE Goto(p, "untie")  BY <3>3 DEF Places, Inside, Appending
    <3> QED BY <1>14, <3>1, <3>2, <3>3 DEF Place
  <2>2. temp' \in [is : {"absent", "torn", "whole"}, rows : Seq(Entries)]
    <3>1. CASE temp' = NoTemp
      <4>1. <<>> \in Seq(Entries)  OBVIOUS
      <4> QED BY <3>1, <4>1, TempTyped DEF NoTemp
    <3>2. CASE UNCHANGED temp  BY <3>2
    <3> QED BY <1>14, <3>1, <3>2 DEF Place
  <2>3. ledger' \in Seq(Entries)  BY <1>14 DEF Place
  <2> QED BY <1>14, <2>1, <2>2, <2>3 DEF Place
<1>15. CASE Untie(p)
  <2>1. pc' \in [Procs -> Places]  BY <1>15 DEF Untie, Places, Inside, Appending, Sealing
  <2> QED BY <1>15, <2>1, <1>0 DEF Untie, NoTemp
<1>16. CASE Refuse(p)  BY <1>16 DEF Refuse, Places, Inside, Appending, Sealing
<1>17. CASE Clean(p)
  <2>1. pc' \in [Procs -> Places]  BY <1>17 DEF Clean, Places, Inside, Appending, Sealing
  <2> QED BY <1>17, <2>1, <1>0 DEF Clean, NoTemp
<1>18. CASE Abort(p)
  <2>1. pc' \in [Procs -> Places]  BY <1>18 DEF Abort, Places, Inside, Appending, Sealing
  <2> QED BY <1>18, <2>1, <1>0 DEF Abort
<1>19. CASE Inspect(p)
  <2>1. pc' \in [Procs -> Places]
    <3>1. CASE Goto(p, "retire")  BY <3>1 DEF Places, Inside, Sealing
    <3>2. CASE Goto(p, "draft")  BY <3>2 DEF Places, Inside, Sealing
    <3>3. CASE Goto(p, "stage")  BY <3>3 DEF Places, Inside, Sealing
    <3>4. CASE Goto(p, "return")  BY <3>4 DEF Places, Inside
    <3>5. CASE Goto(p, "leave")  BY <3>5 DEF Places, Inside
    <3> QED BY <1>19, <3>1, <3>2, <3>3, <3>4, <3>5 DEF Inspect
  <2>2. img' \in [Procs -> Seq(Entries)]
    <3>1. CASE UNCHANGED img  BY <3>1
    <3>2. CASE img' = [img EXCEPT ![p] = <<Row(p)>>]  BY <3>2, <1>0, Singles
    <3>3. CASE img' = [img EXCEPT ![p] = <<Legacy>>]  BY <3>3, <1>0, Singles
    <3> QED BY <1>19, <3>1, <3>2, <3>3 DEF Inspect
  <2> QED BY <1>19, <2>1, <2>2 DEF Inspect
<1>20. CASE Stage(p)  BY <1>20 DEF Stage, Places, Inside, Appending, Sealing
<1>21. CASE PublishHistory(p)  BY <1>21 DEF PublishHistory, Places, Inside, Appending, Sealing
<1>22. CASE Draft(p)
  <2>1. pc' \in [Procs -> Places]
    <3>1. CASE Goto(p, "draftFill")  BY <3>1 DEF Places, Inside, Sealing
    <3>2. CASE Goto(p, "check")  BY <3>2 DEF Places, Inside, Sealing
    <3>3. CASE Goto(p, "leave")  BY <3>3 DEF Places, Inside
    <3> QED BY <1>22, <3>1, <3>2, <3>3 DEF Draft
  <2>2. temp' \in [is : {"absent", "torn", "whole"}, rows : Seq(Entries)]
    <3>1. CASE temp' = [is |-> "torn", rows |-> <<>>]
      <4>1. <<>> \in Seq(Entries)  OBVIOUS
      <4> QED BY <3>1, <4>1, TempTyped
    <3>2. CASE UNCHANGED temp  BY <3>2
    <3> QED BY <1>22, <3>1, <3>2 DEF Draft
  <2>3. UNCHANGED <<ledger, snaps, assoc, blob, lock, locals, faults>>  BY <1>22 DEF Draft
  <2> QED BY <2>1, <2>2, <2>3
<1>23. CASE DraftFill(p)
  <2>1. pc' \in [Procs -> Places]  BY <1>23 DEF DraftFill, Places, Inside, Appending, Sealing
  <2> QED BY <1>23, <2>1, <1>0 DEF DraftFill
<1>24. CASE Check(p)  BY <1>24 DEF Check, Places, Inside, Appending, Sealing
<1>25. CASE Handoff(p)
  <2>1. pc' \in [Procs -> Places]  BY <1>25 DEF Handoff, Places, Inside, Appending, Sealing
  <2> QED BY <1>25, <2>1, <1>0 DEF Handoff, NoTemp
<1>26. CASE Swap(p)
  <2>1. pc' \in [Procs -> Places]
    <3>1. CASE Goto(p, "return")  BY <3>1 DEF Places, Inside
    <3>2. CASE Goto(p, "leave")  BY <3>2 DEF Places, Inside
    <3> QED BY <1>26, <3>1, <3>2 DEF Swap
  <2> QED BY <1>26, <2>1, <1>0 DEF Swap
<1>27. CASE Fail(p)
  <2>1. pc' \in [Procs -> Places]  BY <1>27 DEF Fail, Places, Inside, Appending, Sealing
  <2> QED BY <1>27, <2>1, <1>0, BoundsAreNumbers DEF Fail
<1>28. CASE Crash(p)
  <2>1. pc' \in [Procs -> Places]  BY <1>28 DEF Crash, Places, Inside, Appending, Sealing
  <2> QED BY <1>28, <2>1, <1>0, BoundsAreNumbers DEF Crash
<1>29. CASE Unnamed(p)
  <2>1. pc' \in [Procs -> Places]  BY <1>29 DEF Unnamed, Places
  <2> QED BY <1>29, <2>1, BoundsAreNumbers DEF Unnamed, Forget
<1>30. CASE Undone(p)
  <2>1. pc' \in [Procs -> Places]  BY <1>30 DEF Undone, Places
  <2> QED BY <1>30, <2>1, BoundsAreNumbers DEF Undone
<1> QED BY <1>1, <1>2, <1>3, <1>4, <1>5, <1>6, <1>7, <1>8, <1>9, <1>10, <1>11, <1>12,
     <1>13, <1>14, <1>15, <1>16, <1>17, <1>18, <1>19, <1>20, <1>21, <1>22,
     <1>23, <1>24, <1>25, <1>26, <1>27, <1>28, <1>29, <1>30 DEF Act, Step
-----------------------------------------------------------------------------
(* The inductive invariant *)

Exclusive == \A p \in Procs : pc[p] \in Inside \cup {"dead", "unnamed"} => lock = p

Drawing == {"snap", "snapFill", "create", "fill", "judge", "publish", "link", "place"}

(* What a call is about, where it is.                                       *)
Asked(p) ==
  /\ pc[p] \in Appending => Row(p) \in Rows /\ Kind[Row(p)] # "broken"
  /\ pc[p] \in Sealing => req[p].op \in {"apply", "rollback"} /\ Row(p) \in Seals
  /\ pc[p] = "snap" => Kind[Row(p)] = "custody"
  /\ pc[p] = "snapFill" => Row(p) \in Keeping
  /\ pc[p] \in {"publish", "link"} => Row(p) \in Retained

(* From the capture to the placement the ledger stays as it was captured,   *)
(* and from the judgement on the row is known to be acceptable.             *)
Drawn(p) ==
  /\ pc[p] \in Drawing => img[p] = Append(ledger, Row(p))
  /\ (pc[p] \in {"publish", "link", "place"} \/ (pc[p] = "snapFill" /\ Row(p) \in Retained)) =>
       Acceptable(ledger, Row(p))

(* The custody files a call has made are no row's, and those its row needs  *)
(* are there when it is placed.                                             *)
Keeps(p) ==
  /\ pc[p] \in {"idle", "wait", "capture"} => made[p] = {}
  /\ pc[p] \in Drawing \cup {"clean", "abort"} /\ "snapshot" \in made[p] =>
       \A r \in Keeping : Digest[r] = Digest[Row(p)] => ~Holds(ledger, r)
  /\ pc[p] \in Drawing \cup {"clean", "abort"} /\ "association" \in made[p] => ~Holds(ledger, Row(p))
  /\ pc[p] \in {"create", "fill", "judge", "place"} /\ Kind[Row(p)] = "custody" =>
       snaps[Digest[Row(p)]] = "whole"
  /\ pc[p] \in {"link", "place"} /\ Row(p) \in Retained => snaps[Digest[Row(p)]] = "whole"
  /\ pc[p] = "place" /\ Row(p) \in Retained => assoc[Row(p)] = img[p]

(* A recovery replaces history by its marker, or its own marker by history. *)
SealDrawn(p) ==
  pc[p] \in Sealing \ {"inspect"} =>
    \/ req[p].op = "apply" /\ ledger = <<Legacy>> /\ img[p] = <<Row(p)>>
    \/ req[p].op = "rollback" /\ ledger = <<Row(p)>> /\ img[p] = <<Legacy>>

Answered(p) == pc[p] \in {"untie", "return"} /\ Row(p) \in Rows => Holds(ledger, Row(p))

Ready(p) == Asked(p) /\ Drawn(p) /\ Keeps(p) /\ SealDrawn(p) /\ Answered(p)

IInv == TypeOK /\ Exclusive /\ ReferencesHold /\ \A p \in Procs : Ready(p)

LEMMA Bystanders ==
  ASSUME TypeOK, NEW p \in Procs, Act(p), NEW q \in Procs \ {p}
  PROVE  /\ pc'[q] = pc[q] /\ req'[q] = req[q] /\ img'[q] = img[q] /\ made'[q] = made[q]
         /\ pc[p] \notin Inside => UNCHANGED files
<1> USE DEF TypeOK, Goto, files, locals, Inside, Appending, Sealing
<1>1. CASE Call(p)  BY <1>1 DEF Call
<1>2. CASE Acquire(p)  BY <1>2 DEF Acquire
<1>3. CASE GiveUp(p)  BY <1>3 DEF GiveUp, Forget
<1>4. CASE Done(p)  BY <1>4 DEF Done, Forget
<1>5. CASE RemoveLock(p)  BY <1>5 DEF RemoveLock, Forget
<1>6. CASE Replay(p)  BY <1>6 DEF Replay
<1>7. CASE Capture(p)  BY <1>7 DEF Capture
<1>8. CASE Snapshot(p)  BY <1>8 DEF Snapshot
<1>9. CASE SnapFill(p)  BY <1>9 DEF SnapFill
<1>10. CASE Create(p)  BY <1>10 DEF Create
<1>11. CASE Fill(p)  BY <1>11 DEF Fill
<1>12. CASE Judge(p)  BY <1>12 DEF Judge
<1>13. CASE Link(p)  BY <1>13 DEF Link
<1>14. CASE Place(p)  BY <1>14 DEF Place
<1>15. CASE Untie(p)  BY <1>15 DEF Untie
<1>16. CASE Refuse(p)  BY <1>16 DEF Refuse
<1>17. CASE Clean(p)  BY <1>17 DEF Clean
<1>18. CASE Abort(p)  BY <1>18 DEF Abort
<1>19. CASE Inspect(p)  BY <1>19 DEF Inspect
<1>20. CASE Stage(p)  BY <1>20 DEF Stage
<1>21. CASE PublishHistory(p)  BY <1>21 DEF PublishHistory
<1>22. CASE Draft(p)  BY <1>22 DEF Draft
<1>23. CASE DraftFill(p)  BY <1>23 DEF DraftFill
<1>24. CASE Check(p)  BY <1>24 DEF Check
<1>25. CASE Handoff(p)  BY <1>25 DEF Handoff
<1>26. CASE Swap(p)  BY <1>26 DEF Swap
<1>27. CASE Fail(p)  BY <1>27 DEF Fail, Failing
<1>28. CASE Crash(p)  BY <1>28 DEF Crash
<1>29. CASE Unnamed(p)  BY <1>29 DEF Unnamed, Forget
<1>30. CASE Undone(p)  BY <1>30 DEF Undone
<1> QED BY <1>1, <1>2, <1>3, <1>4, <1>5, <1>6, <1>7, <1>8, <1>9, <1>10, <1>11,
     <1>12, <1>13, <1>14, <1>15, <1>16, <1>17, <1>18, <1>19, <1>20,
     <1>21, <1>22, <1>23, <1>24, <1>25, <1>26, <1>27, <1>28, <1>29,
     <1>30 DEF Act, Step

LEMMA ExclusiveStays ==
  ASSUME TypeOK, Exclusive, NEW p \in Procs, Act(p) PROVE Exclusive'
<1>0. \A q \in Procs \ {p} : pc'[q] = pc[q]  BY Bystanders
<1>a. lock # Nobody => lock = p \/ pc[p] \notin Inside \cup {"dead", "unnamed"}  BY DEF Exclusive
<1> USE NamesApart, <1>0, <1>a DEF TypeOK, Goto, Exclusive, Inside, Appending, Sealing
<1>1. CASE Call(p)  BY <1>1 DEF Call
<1>2. CASE Acquire(p)  BY <1>2 DEF Acquire
<1>3. CASE GiveUp(p)  BY <1>3 DEF GiveUp, Forget
<1>4. CASE Done(p)  BY <1>4 DEF Done, Forget
<1>5. CASE RemoveLock(p)  BY <1>5 DEF RemoveLock, Forget
<1>6. CASE Replay(p)  BY <1>6 DEF Replay
<1>7. CASE Capture(p)  BY <1>7 DEF Capture
<1>8. CASE Snapshot(p)  BY <1>8 DEF Snapshot, AfterSnap
<1>9. CASE SnapFill(p)  BY <1>9 DEF SnapFill, AfterSnap
<1>10. CASE Create(p)  BY <1>10 DEF Create
<1>11. CASE Fill(p)  BY <1>11 DEF Fill
<1>12. CASE Judge(p)  BY <1>12 DEF Judge
<1>13. CASE Link(p)  BY <1>13 DEF Link
<1>14. CASE Place(p)  BY <1>14 DEF Place
<1>15. CASE Untie(p)  BY <1>15 DEF Untie
<1>16. CASE Refuse(p)  BY <1>16 DEF Refuse
<1>17. CASE Clean(p)  BY <1>17 DEF Clean
<1>18. CASE Abort(p)  BY <1>18 DEF Abort
<1>19. CASE Inspect(p)  BY <1>19 DEF Inspect
<1>20. CASE Stage(p)  BY <1>20 DEF Stage
<1>21. CASE PublishHistory(p)  BY <1>21 DEF PublishHistory
<1>22. CASE Draft(p)  BY <1>22 DEF Draft
<1>23. CASE DraftFill(p)  BY <1>23 DEF DraftFill
<1>24. CASE Check(p)  BY <1>24 DEF Check
<1>25. CASE Handoff(p)  BY <1>25 DEF Handoff
<1>26. CASE Swap(p)  BY <1>26 DEF Swap
<1>27. CASE Fail(p)  BY <1>27 DEF Fail, Failing
<1>28. CASE Crash(p)  BY <1>28 DEF Crash
<1>29. CASE Unnamed(p)  BY <1>29 DEF Unnamed, Forget
<1>30. CASE Undone(p)  BY <1>30 DEF Undone
<1> QED BY <1>1, <1>2, <1>3, <1>4, <1>5, <1>6, <1>7, <1>8, <1>9, <1>10, <1>11,
     <1>12, <1>13, <1>14, <1>15, <1>16, <1>17, <1>18, <1>19, <1>20,
     <1>21, <1>22, <1>23, <1>24, <1>25, <1>26, <1>27, <1>28, <1>29,
     <1>30 DEF Act, Step

LEMMA OthersStayReady ==
  ASSUME IInv, NEW p \in Procs, Act(p), NEW q \in Procs \ {p} PROVE Ready(q)'
<1>1. /\ pc'[q] = pc[q] /\ req'[q] = req[q] /\ img'[q] = img[q] /\ made'[q] = made[q]
      /\ pc[p] \notin Inside => UNCHANGED files
  BY Bystanders DEF IInv
<1>2. CASE pc[q] \in Inside
  <2>1. UNCHANGED files  BY <1>1, <1>2 DEF IInv, Exclusive
  <2> QED BY <1>1, <2>1
       DEF IInv, files, Ready, Asked, Drawn, Keeps, SealDrawn, Answered, Row, Acceptable
<1>3. CASE pc[q] \notin Inside
  BY <1>1, <1>3 DEF IInv, Ready, Asked, Drawn, Keeps, SealDrawn, Answered, Row,
     Inside, Drawing, Appending, Sealing
<1> QED BY <1>2, <1>3

LEMMA AbsentUnneeded ==
  ASSUME ReferencesHold, NEW d, snaps[d] = "absent"
  PROVE  \A r \in Keeping : Digest[r] = d => ~Holds(ledger, r)
BY DEF ReferencesHold, Holds

LEMMA OneStaysReady == ASSUME IInv, NEW p \in Procs, Act(p) PROVE Ready(p)'
<1>0. Row(p) \in Entries /\ (pc[p] \in {"idle", "wait", "dead", "unnamed"} \/ pc[p] \in Inside)
  BY CallRows DEF IInv, TypeOK, Row, Places, Entries
<1> USE DEF IInv, TypeOK, Goto, files, locals, Ready, Asked, Drawn, Keeps, SealDrawn, Answered, Row,
     Drawing, Appending, Sealing, Inside
<1>1. CASE Call(p)  BY <1>1 DEF Call
<1>2. CASE Acquire(p)  BY <1>2, CallRows DEF Acquire
<1>3. CASE GiveUp(p)  BY <1>3 DEF GiveUp, Forget
<1>4. CASE Done(p)  BY <1>4 DEF Done, Forget
<1>5. CASE RemoveLock(p)  BY <1>5 DEF RemoveLock, Forget
<1>6. CASE Replay(p)
  <2>1. Holds(ledger, Row(p))  BY <1>6 DEF Replay, Replayed
  <2> QED BY <1>6, <2>1 DEF Replay, Holds
<1>7. CASE Capture(p)  BY <1>7 DEF Capture
<1>8. CASE Snapshot(p)
  <2> DEFINE d == Digest[Row(p)]
  <2>1. CASE snaps[d] = "absent"
    <3>1. \A r \in Keeping : Digest[r] = d => ~Holds(ledger, r)
      BY <2>1, AbsentUnneeded DEF IInv
    <3>2. Row(p) \in Keeping  BY <1>8 DEF Snapshot, Keeping, Retained
    <3>3. pc'[p] = "snapFill" /\ made'[p] = {"snapshot"}  BY <1>8, <2>1 DEF Snapshot
    <3>4. UNCHANGED <<ledger, img, req>>  BY <1>8 DEF Snapshot
    <3>5. Row(p) \in Retained => Acceptable(ledger, Row(p))
      <4>1. pc[p] = "snap" => Row(p) \notin Retained  BY DEF Retained
      <4> QED BY <1>8, <4>1 DEF Snapshot
    <3>6. img[p] = Append(ledger, Row(p)) /\ Row(p) \in Rows /\ Kind[Row(p)] # "broken"
      BY <1>8 DEF Snapshot
    <3> QED BY <3>1, <3>2, <3>3, <3>4, <3>5, <3>6 DEF Acceptable, Holds
  <2>2. CASE snaps[d] = "whole" /\ Goto(p, AfterSnap(p)) /\ UNCHANGED <<snaps, made>>
    BY <1>8, <2>2 DEF Snapshot, AfterSnap, Retained
  <2> QED BY <1>8, <2>1, <2>2 DEF Snapshot
<1>9. CASE SnapFill(p)
  <2>1. snaps'[Digest[Row(p)]] = "whole"  BY <1>9, RowsAreRows DEF SnapFill
  <2>2. UNCHANGED <<ledger, assoc, req, img, made>> /\ pc[p] = "snapFill" /\ pc'[p] = AfterSnap(p)
    BY <1>9 DEF SnapFill
  <2>3. Row(p) \in Keeping /\ Row(p) \in Rows  BY <2>2
  <2>4. CASE Row(p) \in Retained  BY <2>1, <2>2, <2>4 DEF AfterSnap, Retained, Acceptable
  <2>5. CASE Row(p) \notin Retained  BY <2>1, <2>2, <2>5 DEF AfterSnap
  <2> QED BY <2>4, <2>5
<1>10. CASE Create(p)  BY <1>10 DEF Create
<1>11. CASE Fill(p)  BY <1>11 DEF Fill
<1>12. CASE Judge(p)  BY <1>12 DEF Judge
<1>13. CASE Link(p)
  <2>1. Row(p) \in Retained /\ pc'[p] = "place" /\ UNCHANGED <<ledger, snaps, req, img>>
    BY <1>13 DEF Link
  <2>2. assoc'[Row(p)] = img'[p]  BY <1>13, <2>1 DEF Link
  <2>3. ~Holds(ledger, Row(p))  BY <1>13 DEF Link, Acceptable
  <2>4. Acceptable(ledger, Row(p)) /\ img[p] = Append(ledger, Row(p)) /\ Row(p) \in Rows
        /\ Kind[Row(p)] = "retained" /\ snaps[Digest[Row(p)]] = "whole"
    BY <1>13 DEF Link, Retained
  <2>5. "snapshot" \in made'[p] => "snapshot" \in made[p]  BY <1>13 DEF Link
  <2>6. "snapshot" \in made'[p] => \A r \in Keeping : Digest[r] = Digest[Row(p)] => ~Holds(ledger, r)
    BY <1>13, <2>5 DEF Link
  <2> QED BY <2>1, <2>2, <2>3, <2>4, <2>6 DEF Acceptable, Holds
<1>14. CASE Place(p)
  <2>1. ledger' = Append(ledger, Row(p)) /\ Row(p) \in Rows  BY <1>14 DEF Place
  <2>2. Holds(ledger', Row(p))
    <3>1. ledger \in Seq(Entries)  OBVIOUS
    <3>2. Len(ledger') = Len(ledger) + 1 /\ ledger'[Len(ledger) + 1] = Row(p)
      BY <2>1, <3>1, <1>0, Appended
    <3>3. Len(ledger) + 1 \in 1..Len(ledger')  BY <3>1, <3>2
    <3> QED BY <3>2, <3>3 DEF Holds
  <2>3. Kind[Row(p)] # "broken" /\ pc'[p] \in {"return", "leave", "untie"} /\ UNCHANGED req  BY <1>14 DEF Place
  <2> QED BY <2>1, <2>2, <2>3
<1>15. CASE Untie(p)  BY <1>15 DEF Untie
<1>16. CASE Refuse(p)  BY <1>16 DEF Refuse
<1>17. CASE Clean(p)  BY <1>17 DEF Clean
<1>18. CASE Abort(p)  BY <1>18 DEF Abort
<1>19. CASE Inspect(p)
  <2>1. CASE pc'[p] \in {"leave", "return"}
    <3>1. Row(p) \in Seals /\ UNCHANGED <<req, ledger>>  BY <1>19 DEF Inspect
    <3> QED BY <2>1, <3>1, NamesApart
  <2>2. CASE pc'[p] \in {"retire", "draft", "stage"}
    BY <1>19, <2>2 DEF Inspect, Original, Applied
  <2> QED BY <1>19, <2>1, <2>2 DEF Inspect
<1>20. CASE Stage(p)  BY <1>20 DEF Stage
<1>21. CASE PublishHistory(p)  BY <1>21 DEF PublishHistory
<1>22. CASE Draft(p)  BY <1>22 DEF Draft
<1>23. CASE DraftFill(p)  BY <1>23 DEF DraftFill
<1>24. CASE Check(p)  BY <1>24 DEF Check
<1>25. CASE Handoff(p)  BY <1>25 DEF Handoff
<1>26. CASE Swap(p)
  <2>1. Row(p) \in Seals /\ UNCHANGED req /\ pc'[p] \in {"return", "leave"}  BY <1>26 DEF Swap
  <2> QED BY <2>1, NamesApart
<1>27. CASE Fail(p)  BY <1>27 DEF Fail, Failing
<1>28. CASE Crash(p)  BY <1>28 DEF Crash
<1>29. CASE Unnamed(p)  BY <1>29 DEF Unnamed, Forget
<1>30. CASE Undone(p)  BY <1>30 DEF Undone
<1> QED BY <1>1, <1>2, <1>3, <1>4, <1>5, <1>6, <1>7, <1>8, <1>9, <1>10, <1>11,
     <1>12, <1>13, <1>14, <1>15, <1>16, <1>17, <1>18, <1>19, <1>20,
     <1>21, <1>22, <1>23, <1>24, <1>25, <1>26, <1>27, <1>28, <1>29,
     <1>30 DEF Act, Step

LEMMA OnlyTheseMove ==
  ASSUME TypeOK, NEW p \in Procs, Act(p)
  PROVE  \/ UNCHANGED <<ledger, snaps, assoc>> \/ Snapshot(p) \/ SnapFill(p) \/ Link(p)
         \/ Place(p) \/ Abort(p) \/ Swap(p)
<1> USE DEF files
<1>1. CASE Call(p)  BY <1>1 DEF Call
<1>2. CASE Acquire(p)  BY <1>2 DEF Acquire
<1>3. CASE GiveUp(p)  BY <1>3 DEF GiveUp, Forget
<1>4. CASE Done(p)  BY <1>4 DEF Done, Forget
<1>5. CASE RemoveLock(p)  BY <1>5 DEF RemoveLock, Forget
<1>6. CASE Replay(p)  BY <1>6 DEF Replay
<1>7. CASE Capture(p)  BY <1>7 DEF Capture
<1>8. CASE Snapshot(p)  BY <1>8
<1>9. CASE SnapFill(p)  BY <1>9
<1>10. CASE Create(p)  BY <1>10 DEF Create
<1>11. CASE Fill(p)  BY <1>11 DEF Fill
<1>12. CASE Judge(p)  BY <1>12 DEF Judge
<1>13. CASE Link(p)  BY <1>13
<1>14. CASE Place(p)  BY <1>14
<1>15. CASE Untie(p)  BY <1>15 DEF Untie
<1>16. CASE Refuse(p)  BY <1>16 DEF Refuse
<1>17. CASE Clean(p)  BY <1>17 DEF Clean
<1>18. CASE Abort(p)  BY <1>18
<1>19. CASE Inspect(p)  BY <1>19 DEF Inspect
<1>20. CASE Stage(p)  BY <1>20 DEF Stage
<1>21. CASE PublishHistory(p)  BY <1>21 DEF PublishHistory
<1>22. CASE Draft(p)  BY <1>22 DEF Draft
<1>23. CASE DraftFill(p)  BY <1>23 DEF DraftFill
<1>24. CASE Check(p)  BY <1>24 DEF Check
<1>25. CASE Handoff(p)  BY <1>25 DEF Handoff
<1>26. CASE Swap(p)  BY <1>26
<1>27. CASE Fail(p)  BY <1>27 DEF Fail
<1>28. CASE Crash(p)  BY <1>28 DEF Crash
<1>29. CASE Unnamed(p)  BY <1>29 DEF Unnamed, Forget
<1>30. CASE Undone(p)  BY <1>30 DEF Undone
<1> QED BY <1>1, <1>2, <1>3, <1>4, <1>5, <1>6, <1>7, <1>8, <1>9, <1>10, <1>11,
     <1>12, <1>13, <1>14, <1>15, <1>16, <1>17, <1>18, <1>19, <1>20,
     <1>21, <1>22, <1>23, <1>24, <1>25, <1>26, <1>27, <1>28, <1>29,
     <1>30 DEF Act, Step
LEMMA ReferencesStay == ASSUME IInv, NEW p \in Procs, Act(p) PROVE ReferencesHold'
<1> USE DEF IInv, TypeOK, ReferencesHold
<1>0. Ready(p)  OBVIOUS
<1>1. CASE UNCHANGED <<ledger, snaps, assoc>>  BY <1>1
<1>2. CASE Snapshot(p)
  <2>1. UNCHANGED <<ledger, assoc>>  BY <1>2 DEF Snapshot
  <2>2. \A d \in Digests : snaps[d] = "whole" => snaps'[d] = "whole"  BY <1>2 DEF Snapshot
  <2> QED BY <2>1, <2>2, RowsAreRows
<1>3. CASE SnapFill(p)
  <2>1. UNCHANGED <<ledger, assoc>>  BY <1>3 DEF SnapFill
  <2>2. \A d \in Digests : snaps[d] = "whole" => snaps'[d] = "whole"  BY <1>3 DEF SnapFill
  <2> QED BY <2>1, <2>2, RowsAreRows
<1>4. CASE Link(p)
  <2>1. UNCHANGED <<ledger, snaps>>  BY <1>4 DEF Link
  <2>2. ~Holds(ledger, Row(p))
    BY <1>4, <1>0 DEF Link, Ready, Drawn, Asked, Acceptable, Retained
  <2>3. \A r \in Retained \ {Row(p)} : assoc'[r] = assoc[r]  BY <1>4 DEF Link
  <2> SUFFICES ASSUME NEW i \in 1..Len(ledger), ledger[i] \in Keeping
               PROVE  /\ snaps[Digest[ledger[i]]] = "whole"
                      /\ ledger[i] \in Retained =>
                           Len(assoc'[ledger[i]]) = i /\ Prefix(assoc'[ledger[i]], ledger)
    BY <2>1
  <2>4. ledger[i] # Row(p)  BY <2>2 DEF Holds
  <2>5. ledger[i] \in Retained => assoc'[ledger[i]] = assoc[ledger[i]]  BY <2>3, <2>4
  <2> QED BY <2>5
<1>5. CASE Place(p)
  <2> DEFINE r == Row(p)
  <2>1. /\ ledger' = Append(ledger, r) /\ UNCHANGED <<snaps, assoc>> /\ r \in Rows
        /\ r \in Keeping => snaps[Digest[r]] = "whole"
        /\ r \in Retained => assoc[r] = Append(ledger, r)
    BY <1>5, <1>0
       DEF Place, Ready, Drawn, Keeps, Asked, Drawing, Keeping, Retained, Appending
  <2>2. r \in Entries /\ ledger \in Seq(Entries)  BY <2>1 DEF Entries
  <2>3. /\ Len(ledger') = Len(ledger) + 1 /\ ledger'[Len(ledger) + 1] = r
        /\ \A i \in 1..Len(ledger) : ledger'[i] = ledger[i]
    BY <2>1, <2>2, Appended
  <2> SUFFICES ASSUME NEW i \in 1..Len(ledger'), ledger'[i] \in Keeping
               PROVE  /\ snaps'[Digest[ledger'[i]]] = "whole"
                      /\ ledger'[i] \in Retained =>
                           Len(assoc'[ledger'[i]]) = i /\ Prefix(assoc'[ledger'[i]], ledger')
    OBVIOUS
  <2>4. CASE i = Len(ledger) + 1
    <3>1. ledger'[i] = r  BY <2>3, <2>4
    <3>2. r \in Retained => assoc'[r] = ledger'  BY <2>1
    <3>3. Prefix(ledger', ledger')  BY <2>2, <2>3 DEF Prefix
    <3>4. r \in Keeping  BY <3>1
    <3>5. r \in Retained => Len(assoc'[r]) = i /\ Prefix(assoc'[r], ledger')
      BY <2>3, <2>4, <3>2, <3>3
    <3>6. snaps'[Digest[r]] = "whole"  BY <2>1, <3>4
    <3> QED BY <3>1, <3>5, <3>6
  <2>5. CASE i \in 1..Len(ledger)
    <3>1. ledger'[i] = ledger[i]  BY <2>3, <2>5
    <3>2. ledger[i] \in Retained => Len(assoc[ledger[i]]) = i /\ Prefix(assoc[ledger[i]], ledger)
      BY <2>5, <3>1
    <3>3. snaps[Digest[ledger[i]]] = "whole"  BY <2>5, <3>1
    <3> QED BY <2>1, <2>2, <2>3, <2>5, <3>1, <3>2, <3>3 DEF Prefix
  <2> QED BY <2>2, <2>3, <2>4, <2>5
<1>6. CASE Abort(p)
  <2>1. UNCHANGED ledger  BY <1>6 DEF Abort
  <2>2. \A r \in Keeping : Holds(ledger, r) => snaps'[Digest[r]] = snaps[Digest[r]]
    BY <1>6, <1>0, RowsAreRows DEF Abort, Removable, Ready, Keeps, Drawing
  <2>3. \A r \in Retained : Holds(ledger, r) => assoc'[r] = assoc[r]
    <3>1. "association" \in made[p] => ~Holds(ledger, Row(p))
      BY <1>6, <1>0 DEF Abort, Ready, Keeps
    <3>2. assoc' = [r \in Retained |->
            IF r = Row(p) /\ "association" \in made[p] THEN <<>> ELSE assoc[r]]
      BY <1>6 DEF Abort
    <3> QED BY <3>1, <3>2
  <2> SUFFICES ASSUME NEW i \in 1..Len(ledger), ledger[i] \in Keeping
               PROVE  /\ snaps'[Digest[ledger[i]]] = "whole"
                      /\ ledger[i] \in Retained =>
                           Len(assoc'[ledger[i]]) = i /\ Prefix(assoc'[ledger[i]], ledger)
    BY <2>1
  <2>4. Holds(ledger, ledger[i])  BY DEF Holds
  <2>5. snaps'[Digest[ledger[i]]] = "whole"  BY <2>2, <2>4
  <2>6. ledger[i] \in Retained => assoc'[ledger[i]] = assoc[ledger[i]]  BY <2>3, <2>4
  <2> QED BY <2>5, <2>6
<1>7. CASE Swap(p)
  <2>1. Row(p) \in Seals  BY <1>7, <1>0 DEF Swap, Ready, Asked, Sealing
  <2>2. ledger' \in {<<Row(p)>>, <<Legacy>>}
    BY <1>7, <1>0 DEF Swap, Ready, SealDrawn, Sealing
  <2>3. \A i \in 1..Len(ledger') : ledger'[i] \notin Keeping
    BY <2>1, <2>2, NamesApart DEF Keeping
  <2> QED BY <2>3
<1> QED BY <1>1, <1>2, <1>3, <1>4, <1>5, <1>6, <1>7, OnlyTheseMove

LEMMA IInvInit == Init => IInv
<1> SUFFICES ASSUME Init PROVE IInv
  OBVIOUS
<1>1. TypeOK  BY TypesAtFirst
<1>2. Exclusive  BY DEF Init, Exclusive, Inside, Appending, Sealing
<1>3. \A p \in Procs : Ready(p)
  BY DEF Init, Ready, Asked, Drawn, Keeps, SealDrawn, Answered, Appending, Sealing, Drawing
<1>4. \A i \in 1..Len(ledger) : ledger[i] \notin Keeping
  <2>1. CASE ledger \in {<<>>, <<Legacy>>}  BY <2>1, NamesApart DEF Keeping
  <2>2. CASE \E r \in Rows : Kind[r] = "broken" /\ ledger = <<r>>  BY <2>2 DEF Keeping
  <2> QED BY <2>1, <2>2 DEF Init, Log!Beginnings
<1> QED BY <1>1, <1>2, <1>3, <1>4 DEF IInv, ReferencesHold

LEMMA Moves == Next => RemoveTemp \/ \E p \in Procs : Act(p)
BY DEF Next, Act

LEMMA IInvStays == ASSUME IInv, [Next]_vars PROVE IInv'
<1>1. CASE \E p \in Procs : Act(p)
  <2> PICK p \in Procs : Act(p)  BY <1>1
  <2>1. TypeOK'  BY TypesStay DEF IInv
  <2>2. Exclusive'  BY ExclusiveStays DEF IInv
  <2>3. ReferencesHold'  BY ReferencesStay
  <2>4. \A q \in Procs : Ready(q)'  BY OthersStayReady, OneStaysReady
  <2> QED BY <2>1, <2>2, <2>3, <2>4 DEF IInv
<1>2. CASE RemoveTemp
  <2>1. temp' = NoTemp /\ UNCHANGED <<ledger, snaps, assoc, blob, lock, pc, locals, faults>>
    BY <1>2 DEF RemoveTemp
  <2>2. TypeOK'
    <3>1. <<>> \in Seq(Entries)  OBVIOUS
    <3>2. NoTemp \in [is : {"absent", "torn", "whole"}, rows : Seq(Entries)]
      BY <3>1, TempTyped DEF NoTemp
    <3> QED BY <2>1, <3>2 DEF IInv, TypeOK, locals
  <2>3. Exclusive' /\ ReferencesHold'  BY <2>1 DEF IInv, Exclusive, ReferencesHold
  <2>4. \A p \in Procs : Ready(p)'
    BY <2>1 DEF IInv, Ready, Asked, Drawn, Keeps, SealDrawn, Answered, Row, Acceptable, locals
  <2> QED BY <2>2, <2>3, <2>4 DEF IInv
<1>3. CASE UNCHANGED vars
  <2>1. UNCHANGED <<ledger, temp, snaps, assoc, blob, lock, pc, req, base, img, made, faults>>
    BY <1>3 DEF vars, files, locals
  <2>2. TypeOK'  BY <2>1 DEF IInv, TypeOK
  <2>3. Exclusive' /\ ReferencesHold'  BY <2>1 DEF IInv, Exclusive, ReferencesHold
  <2>4. \A p \in Procs : Ready(p)'
    BY <2>1 DEF IInv, Ready, Asked, Drawn, Keeps, SealDrawn, Answered, Row, Acceptable
  <2> QED BY <2>2, <2>3, <2>4 DEF IInv
<1> QED BY <1>1, <1>2, <1>3, Moves

LEMMA IInvAlways == Spec => []IInv
BY IInvInit, IInvStays, PTL DEF Spec

-----------------------------------------------------------------------------
(* The log *)

LEMMA PlaceRecords ==
  ASSUME IInv, NEW p \in Procs, Place(p) PROVE Log!Record(Row(p)) /\ Row(p) \in Rows
<1>1. Ready(p) /\ pc[p] = "place" /\ ledger' = img[p]  BY DEF IInv, Place
<1>2. /\ ledger' = Append(ledger, Row(p)) /\ Acceptable(ledger, Row(p))
      /\ Row(p) \in Rows /\ Kind[Row(p)] # "broken"
  BY <1>1 DEF Ready, Drawn, Asked, Drawing, Appending
<1>3. Log!Admissible(Row(p))
  BY <1>2 DEF Log!Admissible, Acceptable, Log!Holds, Holds, Log!Rivals, Rivals,
     Log!Settling, Settling
<1> QED BY <1>2, <1>3 DEF Log!Record

LEMMA SwapSeals ==
  ASSUME IInv, NEW p \in Procs, Swap(p)
  PROVE  Row(p) \in Seals /\ (Log!Seal(Row(p)) \/ Log!Unseal(Row(p)))
<1>1. Ready(p) /\ pc[p] = "swap" /\ ledger' = img[p]  BY DEF IInv, Swap
<1>2. Row(p) \in Seals  BY <1>1 DEF Ready, Asked, Sealing
<1>3. \/ ledger = <<Legacy>> /\ ledger' = <<Row(p)>>
      \/ ledger = <<Row(p)>> /\ ledger' = <<Legacy>>
  BY <1>1 DEF Ready, SealDrawn, Sealing
<1> QED BY <1>2, <1>3 DEF Log!Seal, Log!Unseal

LEMMA LogChanges == ASSUME IInv, [Next]_vars PROVE Log!Change \/ UNCHANGED ledger
<1>1. CASE \E p \in Procs : Act(p)
  <2> PICK p \in Procs : Act(p)  BY <1>1
  <2>1. UNCHANGED ledger \/ Place(p) \/ Swap(p)
    BY OnlyTheseMove DEF IInv, Snapshot, SnapFill, Link, Abort
  <2> QED BY <2>1, PlaceRecords, SwapSeals DEF Log!Change
<1>2. CASE RemoveTemp \/ UNCHANGED vars  BY <1>2 DEF RemoveTemp, vars, files
<1> QED BY <1>1, <1>2, Moves

-----------------------------------------------------------------------------
(* The theorems *)

(* The state of a ledger, its files and its callers is type correct.        *)
THEOREM TypeCorrect == Spec => []TypeOK
<1>1. IInv => TypeOK  BY DEF IInv
<1> QED BY <1>1, IInvAlways, PTL

(* Whoever aborts, fails or is killed: a row with custody has its snapshot, *)
(* whole, and a retained row the association of the ledger up to it.        *)
THEOREM RowsKeepWhatTheyRefer == Spec => []ReferencesHold
<1>1. IInv => ReferencesHold  BY DEF IInv
<1> QED BY <1>1, IInvAlways, PTL

(* agent-run-ledger.py implements the log of LedgerLog: one row at a time,  *)
(* to what it settles or closes, and only a marker with nothing behind it   *)
(* is taken back; success is told of rows that are there.                   *)
THEOREM LogRefined == Spec => ImplementsLog
<1> DEFINE Told == {Row(p) : p \in {q \in Procs : pc[q] = "return"}} \cap Rows
<1>1. Init => Log!Init
  BY DEF Init, Log!Init
<1>2. IInv /\ IInv' /\ [Next]_vars => [Log!Next]_<<ledger, Told>>
  <2> SUFFICES ASSUME IInv, IInv', [Next]_vars PROVE [Log!Next]_<<ledger, Told>>
    OBVIOUS
  <2>1. Told' \subseteq {r \in Rows : Holds(ledger', r)}
    <3> SUFFICES ASSUME NEW p \in Procs, pc'[p] = "return", Row(p)' \in Rows
                 PROVE  Holds(ledger', Row(p)')
      OBVIOUS
    <3>1. Answered(p)'  BY DEF IInv, Ready
    <3> QED BY <3>1 DEF Answered
  <2>3. Log!Tell  BY <2>1 DEF Log!Tell, Log!Holds, Holds
  <2>2. Log!Change \/ UNCHANGED ledger  BY LogChanges
  <2> QED BY <2>2, <2>3 DEF Log!Next
<1> QED BY <1>1, <1>2, IInvAlways, PTL DEF Spec, ImplementsLog, Log!Spec

-----------------------------------------------------------------------------
(* What a call leaves behind when nothing fails *)

StaleMarker == (\E s \in Seals : temp.rows = <<s>>) /\ ledger = <<Legacy>>

Referenced(d) == \E r \in Keeping : Digest[r] = d /\ Holds(ledger, r)

(* The files between two calls.                                             *)
Tidy ==
  /\ temp = NoTemp \/ StaleMarker
  /\ \A d \in Digests : snaps[d] # "absent" => Referenced(d)
  /\ \A r \in Retained : assoc[r] # <<>> => Holds(ledger, r)
  /\ blob \in {"none", "published"}

Filling == {"fill", "judge", "publish", "snapFill", "link", "place", "untie", "clean",
            "draftFill", "check", "handoff"}

Owing == Drawing \cup {"clean", "abort"}

(* The files within the call of p: tidy, but for its own.                   *)
TempOf(p) ==
  /\ pc[p] \notin Filling => temp = NoTemp \/ StaleMarker
  /\ pc[p] = "swap" => temp = NoTemp
  /\ pc[p] \in {"snap", "snapFill", "create"} /\ Kind[Row(p)] = "custody" => temp = NoTemp
  /\ pc[p] = "check" => temp.rows = img[p]

SnapsOf(p) ==
  \A d \in Digests : snaps[d] # "absent" =>
    \/ Referenced(d)
    \/ /\ pc[p] \in Owing /\ "snapshot" \in made[p]
       /\ Row(p) \in Keeping /\ Digest[Row(p)] = d

AssocOf(p) ==
  \A r \in Retained : assoc[r] # <<>> =>
    \/ Holds(ledger, r)
    \/ pc[p] \in Owing /\ "association" \in made[p] /\ Row(p) = r

MadeOf(p) ==
  /\ pc[p] = "snap" => made[p] = {}
  /\ pc[p] = "snapFill" => "snapshot" \in made[p]
  /\ pc[p] \in {"create", "fill", "judge", "publish"} /\ Kind[Row(p)] # "custody" => made[p] = {}
  /\ pc[p] \in {"clean", "abort"} /\ Row(p) \in Retained /\ "snapshot" \in made[p] =>
       snaps[Digest[Row(p)]] = "whole"

BlobOf(p) ==
  \/ blob \in {"none", "published"}
  \/ <<pc[p], blob>> \in {<<"stageFill", "torn">>, <<"history", "staged">>,
                         <<"retire", "linked">>, <<"unlink", "moved">>}

Near(p) == TempOf(p) /\ SnapsOf(p) /\ AssocOf(p) /\ MadeOf(p) /\ BlobOf(p)

TidyInv ==
  faults = 0 =>
    /\ \A p \in Procs : pc[p] # "dead" /\ (lock = p => pc[p] \in Inside)
    /\ lock = Nobody => Tidy
    /\ \A p \in Procs : lock = p => Near(p)

(* A step of a call on its way, without a fault.                            *)
Stride(p) ==
  \/ Replay(p) \/ Capture(p) \/ Snapshot(p) \/ SnapFill(p) \/ Create(p) \/ Fill(p)
  \/ Judge(p) \/ Link(p) \/ Place(p) \/ Untie(p) \/ Refuse(p) \/ Clean(p) \/ Abort(p)
  \/ Inspect(p) \/ Stage(p) \/ PublishHistory(p) \/ Draft(p) \/ DraftFill(p)
  \/ Check(p) \/ Handoff(p) \/ Swap(p)

LEMMA HoldsMore ==
  ASSUME TypeOK, NEW r \in Rows, ledger' = Append(ledger, r)
  PROVE  \A s : Holds(ledger, s) \/ s = r => Holds(ledger', s)
<1>1. ledger \in Seq(Entries) /\ r \in Entries  BY DEF TypeOK, Entries
<1>2. /\ Len(ledger') = Len(ledger) + 1 /\ ledger'[Len(ledger) + 1] = r
      /\ \A i \in 1..Len(ledger) : ledger'[i] = ledger[i]
  BY <1>1, Appended
<1>3. Len(ledger) \in Nat  BY <1>1
<1> QED BY <1>2, <1>3 DEF Holds

LEMMA TempStays == ASSUME IInv, NEW p \in Procs, Near(p), Stride(p) PROVE TempOf(p)'
<1>0. TypeOK /\ Ready(p) /\ TempOf(p)  BY DEF IInv, Near
<1> USE <1>0 DEF TypeOK, Goto, files, locals, TempOf, Row, Filling, StaleMarker, NoTemp
<1>1. CASE Replay(p)  BY <1>1 DEF Replay
<1>2. CASE Capture(p)
  <2>1. CASE Kind[Row(p)] = "custody"
    <3>1. Holds(ledger, Refers[Row(p)]) /\ Row(p) \in Rows
      BY <1>2, <2>1 DEF Capture, Bound, Ready, Asked, Appending
    <3>2. Refers[Row(p)] # Legacy  BY <2>1, <3>1, RowsAreRows, NamesApart DEF Settling
    <3>3. ledger # <<Legacy>>  BY <3>1, <3>2 DEF Holds
    <3> QED BY <1>2, <2>1, <3>3 DEF Capture
  <2>2. CASE Kind[Row(p)] # "custody"  BY <1>2, <2>2 DEF Capture
  <2> QED BY <2>1, <2>2
<1>3. CASE Snapshot(p)
  <2>1. CASE pc[p] = "snap"
    <3>1. Kind[Row(p)] = "custody"  BY <2>1 DEF Ready, Asked
    <3> QED BY <1>3, <2>1, <3>1 DEF Snapshot, AfterSnap
  <2>2. CASE pc[p] = "publish"
    <3>1. Row(p) \in Retained  BY <2>2 DEF Ready, Asked
    <3>2. Kind[Row(p)] # "custody"  BY <3>1 DEF Retained
    <3> QED BY <1>3, <2>2, <3>1, <3>2 DEF Snapshot, AfterSnap
  <2> QED BY <1>3, <2>1, <2>2 DEF Snapshot
<1>4. CASE SnapFill(p)
  <2>1. Row(p) \in Keeping  BY <1>4 DEF SnapFill, Ready, Asked
  <2>2. Row(p) \notin Retained => Kind[Row(p)] = "custody"  BY <2>1 DEF Keeping, Retained
  <2> QED BY <1>4, <2>2 DEF SnapFill, AfterSnap
<1>5. CASE Create(p)  BY <1>5 DEF Create
<1>6. CASE Fill(p)  BY <1>6 DEF Fill
<1>7. CASE Judge(p)  BY <1>7 DEF Judge
<1>8. CASE Link(p)  BY <1>8 DEF Link
<1>9. CASE Place(p)  BY <1>9 DEF Place
<1>10. CASE Untie(p)  BY <1>10 DEF Untie
<1>11. CASE Refuse(p)  BY <1>11 DEF Refuse
<1>12. CASE Clean(p)  BY <1>12 DEF Clean
<1>13. CASE Abort(p)  BY <1>13 DEF Abort
<1>14. CASE Inspect(p)  BY <1>14 DEF Inspect
<1>15. CASE Stage(p)  BY <1>15 DEF Stage
<1>16. CASE PublishHistory(p)  BY <1>16 DEF PublishHistory
<1>17. CASE Draft(p)  BY <1>17 DEF Draft
<1>18. CASE DraftFill(p)  BY <1>18 DEF DraftFill
<1>19. CASE Check(p)
  <2>1. CASE Goto(p, "handoff")  BY <1>19, <2>1 DEF Check
  <2>2. CASE req[p].op = "apply" /\ Goto(p, "leave")
    <3>1. ledger = <<Legacy>> /\ img[p] = <<Row(p)>> /\ Row(p) \in Seals
      BY <1>19, <2>2 DEF Check, Ready, SealDrawn, Asked, Sealing
    <3> QED BY <1>19, <2>2, <3>1 DEF Check
  <2> QED BY <1>19, <2>1, <2>2 DEF Check
<1>20. CASE Handoff(p)  BY <1>20 DEF Handoff
<1>21. CASE Swap(p)  BY <1>21 DEF Swap
<1> QED BY <1>1, <1>2, <1>3, <1>4, <1>5, <1>6, <1>7, <1>8, <1>9, <1>10, <1>11,
     <1>12, <1>13, <1>14, <1>15, <1>16, <1>17, <1>18, <1>19, <1>20,
     <1>21 DEF Stride

LEMMA MadeStays == ASSUME IInv, NEW p \in Procs, Near(p), Stride(p) PROVE MadeOf(p)'
<1>0. TypeOK /\ Ready(p) /\ MadeOf(p)  BY DEF IInv, Near
<1> USE <1>0 DEF TypeOK, Goto, files, locals, MadeOf, Row
<1>1. CASE Replay(p)  BY <1>1 DEF Replay
<1>2. CASE Capture(p)
  <2>1. made[p] = {}  BY <1>2 DEF Capture, Ready, Keeps
  <2> QED BY <1>2, <2>1 DEF Capture
<1>3. CASE Snapshot(p)  BY <1>3 DEF Snapshot, AfterSnap
<1>4. CASE SnapFill(p)
  <2>1. Row(p) \in Keeping  BY <1>4 DEF SnapFill, Ready, Asked
  <2>2. Row(p) \notin Retained => Kind[Row(p)] = "custody"  BY <2>1 DEF Keeping, Retained
  <2> QED BY <1>4, <2>2 DEF SnapFill, AfterSnap
<1>5. CASE Create(p)  BY <1>5 DEF Create, Retained
<1>6. CASE Fill(p)  BY <1>6 DEF Fill
<1>7. CASE Judge(p)  BY <1>7 DEF Judge
<1>8. CASE Link(p)  BY <1>8 DEF Link
<1>9. CASE Place(p)  BY <1>9 DEF Place
<1>10. CASE Untie(p)  BY <1>10 DEF Untie
<1>11. CASE Refuse(p)
  <2> SUFFICES ASSUME Row(p) \in Retained, "snapshot" \in made[p]
               PROVE  snaps[Digest[Row(p)]] = "whole"
    BY <1>11 DEF Refuse
  <2>1. Kind[Row(p)] # "custody"  BY DEF Retained
  <2>2. pc[p] \in {"link", "place"}  BY <1>11, <2>1 DEF Refuse, Ready, Keeps
  <2> QED BY <2>2 DEF Ready, Keeps
<1>12. CASE Clean(p)  BY <1>12 DEF Clean
<1>13. CASE Abort(p)  BY <1>13 DEF Abort
<1>14. CASE Inspect(p)  BY <1>14 DEF Inspect
<1>15. CASE Stage(p)  BY <1>15 DEF Stage
<1>16. CASE PublishHistory(p)  BY <1>16 DEF PublishHistory
<1>17. CASE Draft(p)  BY <1>17 DEF Draft
<1>18. CASE DraftFill(p)  BY <1>18 DEF DraftFill
<1>19. CASE Check(p)  BY <1>19 DEF Check
<1>20. CASE Handoff(p)  BY <1>20 DEF Handoff
<1>21. CASE Swap(p)  BY <1>21 DEF Swap
<1> QED BY <1>1, <1>2, <1>3, <1>4, <1>5, <1>6, <1>7, <1>8, <1>9, <1>10, <1>11,
     <1>12, <1>13, <1>14, <1>15, <1>16, <1>17, <1>18, <1>19, <1>20,
     <1>21 DEF Stride

LEMMA BlobStays == ASSUME IInv, NEW p \in Procs, Near(p), Stride(p) PROVE BlobOf(p)'
<1>0. TypeOK /\ Ready(p) /\ BlobOf(p)  BY DEF IInv, Near
<1> USE <1>0 DEF TypeOK, Goto, files, locals, BlobOf
<1>1. CASE Replay(p)  BY <1>1 DEF Replay
<1>2. CASE Capture(p)  BY <1>2 DEF Capture
<1>3. CASE Snapshot(p)  BY <1>3 DEF Snapshot, AfterSnap
<1>4. CASE SnapFill(p)  BY <1>4 DEF SnapFill, AfterSnap
<1>5. CASE Create(p)  BY <1>5 DEF Create
<1>6. CASE Fill(p)  BY <1>6 DEF Fill
<1>7. CASE Judge(p)  BY <1>7 DEF Judge
<1>8. CASE Link(p)  BY <1>8 DEF Link
<1>9. CASE Place(p)  BY <1>9 DEF Place
<1>10. CASE Untie(p)  BY <1>10 DEF Untie
<1>11. CASE Refuse(p)  BY <1>11 DEF Refuse
<1>12. CASE Clean(p)  BY <1>12 DEF Clean
<1>13. CASE Abort(p)  BY <1>13 DEF Abort
<1>14. CASE Inspect(p)  BY <1>14 DEF Inspect
<1>15. CASE Stage(p)  BY <1>15 DEF Stage
<1>16. CASE PublishHistory(p)  BY <1>16 DEF PublishHistory
<1>17. CASE Draft(p)  BY <1>17 DEF Draft
<1>18. CASE DraftFill(p)  BY <1>18 DEF DraftFill
<1>19. CASE Check(p)  BY <1>19 DEF Check
<1>20. CASE Handoff(p)  BY <1>20 DEF Handoff
<1>21. CASE Swap(p)  BY <1>21 DEF Swap
<1> QED BY <1>1, <1>2, <1>3, <1>4, <1>5, <1>6, <1>7, <1>8, <1>9, <1>10, <1>11,
     <1>12, <1>13, <1>14, <1>15, <1>16, <1>17, <1>18, <1>19, <1>20,
     <1>21 DEF Stride

LEMMA SnapsStay == ASSUME IInv, NEW p \in Procs, Near(p), Stride(p) PROVE SnapsOf(p)'
<1>0. TypeOK /\ Ready(p) /\ SnapsOf(p)  BY DEF IInv, Near
<1> USE <1>0 DEF TypeOK, Goto, files, locals, SnapsOf, Row, Referenced, Owing, Drawing
<1>1. CASE Replay(p)  BY <1>1 DEF Replay
<1>2. CASE Capture(p)  BY <1>2 DEF Capture
<1>3. CASE Snapshot(p)
  <2>1. Row(p) \in Keeping /\ made[p] = {}
    <3>1. CASE pc[p] = "snap"
      BY <3>1 DEF Ready, Asked, Appending, Keeping, Near, MadeOf
    <3>2. CASE pc[p] = "publish"
      <4>1. Row(p) \in Retained /\ Kind[Row(p)] # "custody"  BY <3>2 DEF Ready, Asked, Retained
      <4> QED BY <3>2, <4>1 DEF Keeping, Retained, Near, MadeOf
    <3> QED BY <1>3, <3>1, <3>2 DEF Snapshot
  <2>2. \A d \in Digests : snaps[d] # "absent" => Referenced(d)  BY <2>1
  <2>5. CASE snaps[Digest[Row(p)]] = "absent"
    <3>1. pc'[p] = "snapFill"  BY <1>3, <2>5 DEF Snapshot
    <3>2. made'[p] = {"snapshot"}  BY <1>3, <2>5 DEF Snapshot
    <3>3. snaps' = [snaps EXCEPT ![Digest[Row(p)]] = "torn"]  BY <1>3, <2>5 DEF Snapshot
    <3>4. UNCHANGED <<ledger, req>>  BY <1>3 DEF Snapshot
    <3>5. \A d \in Digests : snaps'[d] # "absent" => snaps[d] # "absent" \/ d = Digest[Row(p)]
      BY <3>3
    <3> QED BY <2>1, <2>2, <3>1, <3>2, <3>4, <3>5
  <2>4. CASE UNCHANGED snaps  BY <1>3, <2>2, <2>4 DEF Snapshot
  <2> QED BY <1>3, <2>4, <2>5 DEF Snapshot
<1>4. CASE SnapFill(p)
  <2>1. Row(p) \in Keeping  BY <1>4 DEF SnapFill, Ready, Asked
  <2>2. \A d \in Digests : snaps'[d] # "absent" => snaps[d] # "absent" \/ d = Digest[Row(p)]
    BY <1>4 DEF SnapFill
  <2>3. "snapshot" \in made[p]  BY <1>4 DEF SnapFill, Near, MadeOf
  <2>4. UNCHANGED <<ledger, made, req>> /\ pc'[p] \in {"link", "create"} /\ pc[p] = "snapFill"
    BY <1>4 DEF SnapFill, AfterSnap
  <2> QED BY <2>1, <2>2, <2>3, <2>4
<1>5. CASE Create(p)  BY <1>5 DEF Create
<1>6. CASE Fill(p)  BY <1>6 DEF Fill
<1>7. CASE Judge(p)  BY <1>7 DEF Judge
<1>8. CASE Link(p)  BY <1>8 DEF Link
<1>9. CASE Place(p)
  <2>1. /\ Row(p) \in Rows /\ ledger' = Append(ledger, Row(p)) /\ UNCHANGED <<snaps, req>>
    BY <1>9 DEF Place, Ready, Asked, Drawn, Appending
  <2>2. \A r : Holds(ledger, r) \/ r = Row(p) => Holds(ledger', r)  BY <2>1, HoldsMore
  <2> QED BY <2>1, <2>2
<1>10. CASE Untie(p)  BY <1>10 DEF Untie
<1>11. CASE Refuse(p)  BY <1>11 DEF Refuse
<1>12. CASE Clean(p)  BY <1>12 DEF Clean
<1>13. CASE Abort(p)
  <2> SUFFICES ASSUME NEW d \in Digests, snaps'[d] # "absent" PROVE Referenced(d)
    BY <1>13 DEF Abort
  <2>1. snaps[d] # "absent"  BY <1>13 DEF Abort
  <2>2. ASSUME "snapshot" \in made[p], Row(p) \in Keeping, Digest[Row(p)] = d PROVE FALSE
    <3>1. Removable(p, d)  BY <1>13, <2>2 DEF Abort, Near, MadeOf, Removable
    <3> QED BY <1>13, <2>2, <3>1 DEF Abort
  <2> QED BY <2>1, <2>2
<1>14. CASE Inspect(p)  BY <1>14 DEF Inspect
<1>15. CASE Stage(p)  BY <1>15 DEF Stage
<1>16. CASE PublishHistory(p)  BY <1>16 DEF PublishHistory
<1>17. CASE Draft(p)  BY <1>17 DEF Draft
<1>18. CASE DraftFill(p)  BY <1>18 DEF DraftFill
<1>19. CASE Check(p)  BY <1>19 DEF Check
<1>20. CASE Handoff(p)  BY <1>20 DEF Handoff
<1>21. CASE Swap(p)
  <2>1. \A r \in Keeping : ~Holds(ledger, r)
    <3>1. Row(p) \in Seals /\ (ledger = <<Legacy>> \/ ledger = <<Row(p)>>)
      BY <1>21 DEF Swap, Ready, Asked, SealDrawn, Sealing
    <3> QED BY <3>1, NamesApart DEF Holds, Keeping
  <2> QED BY <1>21, <2>1 DEF Swap
<1> QED BY <1>1, <1>2, <1>3, <1>4, <1>5, <1>6, <1>7, <1>8, <1>9, <1>10, <1>11,
     <1>12, <1>13, <1>14, <1>15, <1>16, <1>17, <1>18, <1>19, <1>20,
     <1>21 DEF Stride

LEMMA AssocStays == ASSUME IInv, NEW p \in Procs, Near(p), Stride(p) PROVE AssocOf(p)'
<1>0. TypeOK /\ Ready(p) /\ AssocOf(p)  BY DEF IInv, Near
<1> USE <1>0 DEF TypeOK, Goto, files, locals, AssocOf, Row, Owing, Drawing
<1>1. CASE Replay(p)  BY <1>1 DEF Replay
<1>2. CASE Capture(p)  BY <1>2 DEF Capture
<1>3. CASE Snapshot(p)
  <2>1. made[p] = {}
    BY <1>3 DEF Snapshot, Ready, Asked, Keeping, Retained, Near, MadeOf
  <2> QED BY <1>3, <2>1 DEF Snapshot
<1>4. CASE SnapFill(p)  BY <1>4 DEF SnapFill, AfterSnap
<1>5. CASE Create(p)  BY <1>5 DEF Create
<1>6. CASE Fill(p)  BY <1>6 DEF Fill
<1>7. CASE Judge(p)  BY <1>7 DEF Judge
<1>8. CASE Link(p)  BY <1>8 DEF Link
<1>9. CASE Place(p)
  <2>1. /\ Row(p) \in Rows /\ ledger' = Append(ledger, Row(p)) /\ UNCHANGED <<assoc, req>>
    BY <1>9 DEF Place, Ready, Asked, Drawn, Appending
  <2>2. \A r : Holds(ledger, r) \/ r = Row(p) => Holds(ledger', r)  BY <2>1, HoldsMore
  <2> QED BY <2>1, <2>2
<1>10. CASE Untie(p)  BY <1>10 DEF Untie
<1>11. CASE Refuse(p)  BY <1>11 DEF Refuse
<1>12. CASE Clean(p)  BY <1>12 DEF Clean
<1>13. CASE Abort(p)  BY <1>13 DEF Abort
<1>14. CASE Inspect(p)  BY <1>14 DEF Inspect
<1>15. CASE Stage(p)  BY <1>15 DEF Stage
<1>16. CASE PublishHistory(p)  BY <1>16 DEF PublishHistory
<1>17. CASE Draft(p)  BY <1>17 DEF Draft
<1>18. CASE DraftFill(p)  BY <1>18 DEF DraftFill
<1>19. CASE Check(p)  BY <1>19 DEF Check
<1>20. CASE Handoff(p)  BY <1>20 DEF Handoff
<1>21. CASE Swap(p)
  <2>1. \A r \in Retained : ~Holds(ledger, r)
    <3>1. Row(p) \in Seals /\ (ledger = <<Legacy>> \/ ledger = <<Row(p)>>)
      BY <1>21 DEF Swap, Ready, Asked, SealDrawn, Sealing
    <3> QED BY <3>1, NamesApart DEF Holds, Retained
  <2> QED BY <1>21, <2>1 DEF Swap
<1> QED BY <1>1, <1>2, <1>3, <1>4, <1>5, <1>6, <1>7, <1>8, <1>9, <1>10, <1>11,
     <1>12, <1>13, <1>14, <1>15, <1>16, <1>17, <1>18, <1>19, <1>20,
     <1>21 DEF Stride

-----------------------------------------------------------------------------
(* Between two calls *)

LEMMA NearStays == ASSUME IInv, NEW p \in Procs, Near(p), Stride(p) PROVE Near(p)'
BY TempStays, SnapsStay, AssocStays, MadeStays, BlobStays DEF Near

(* A call begins among tidy files and ends so.                              *)
LEMMA AcquiresNear ==
  ASSUME IInv, Tidy, NEW p \in Procs, Acquire(p) PROVE Near(p)'
<1>1. pc'[p] \in {"inspect", "capture"} /\ UNCHANGED files /\ UNCHANGED made
  BY DEF Acquire, Goto, IInv, TypeOK
<1>2. UNCHANGED <<ledger, temp, snaps, assoc, blob>>  BY <1>1 DEF files
<1>3. TempOf(p)'  BY <1>1, <1>2 DEF Tidy, TempOf, StaleMarker, Filling
<1>4. SnapsOf(p)' /\ AssocOf(p)'  BY <1>1, <1>2 DEF Tidy, SnapsOf, AssocOf, Referenced
<1>5. MadeOf(p)' /\ BlobOf(p)'  BY <1>1, <1>2 DEF Tidy, MadeOf, BlobOf
<1> QED BY <1>3, <1>4, <1>5 DEF Near

LEMMA EndsTidy ==
  ASSUME NEW p \in Procs, Near(p), pc[p] \in {"leave", "return"} PROVE Tidy
BY DEF Near, TempOf, SnapsOf, AssocOf, BlobOf, Tidy, Filling, Owing, Drawing

LEMMA TidyInit == Init => TidyInv
BY NamesApart DEF Init, TidyInv, Tidy, Inside, Appending, Sealing

LEMMA Strides ==
  ASSUME TypeOK, NEW p \in Procs, Act(p), faults = 0, faults' = 0, pc[p] # "dead"
  PROVE  \/ Stride(p) /\ pc[p] \in Inside /\ pc'[p] \in Inside /\ UNCHANGED lock
         \/ Acquire(p) \/ Done(p)
         \/ (Call(p) \/ GiveUp(p)) /\ UNCHANGED files /\ UNCHANGED lock
<1> USE DEF TypeOK, Goto, Inside, Appending, Sealing
<1>1. CASE Call(p) \/ GiveUp(p)  BY <1>1 DEF Call, GiveUp
<1>2. CASE Acquire(p) \/ Done(p)  BY <1>2
<1>3. CASE Fail(p) \/ Crash(p) \/ Unnamed(p) \/ Undone(p) \/ RemoveLock(p)
  BY <1>3 DEF Fail, Crash, Unnamed, Undone, RemoveLock
<1>4. CASE Replay(p)  BY <1>4 DEF Stride, Replay
<1>5. CASE Capture(p)  BY <1>5 DEF Stride, Capture
<1>6. CASE Snapshot(p)  BY <1>6 DEF Stride, Snapshot, AfterSnap
<1>7. CASE SnapFill(p)  BY <1>7 DEF Stride, SnapFill, AfterSnap
<1>8. CASE Create(p)  BY <1>8 DEF Stride, Create
<1>9. CASE Fill(p)  BY <1>9 DEF Stride, Fill
<1>10. CASE Judge(p)  BY <1>10 DEF Stride, Judge
<1>11. CASE Link(p)  BY <1>11 DEF Stride, Link
<1>12. CASE Place(p)  BY <1>12 DEF Stride, Place
<1>13. CASE Untie(p)  BY <1>13 DEF Stride, Untie
<1>14. CASE Refuse(p)  BY <1>14 DEF Stride, Refuse
<1>15. CASE Clean(p)  BY <1>15 DEF Stride, Clean
<1>16. CASE Abort(p)  BY <1>16 DEF Stride, Abort
<1>17. CASE Inspect(p)  BY <1>17 DEF Stride, Inspect
<1>18. CASE Stage(p)  BY <1>18 DEF Stride, Stage
<1>19. CASE PublishHistory(p)  BY <1>19 DEF Stride, PublishHistory
<1>20. CASE Draft(p)  BY <1>20 DEF Stride, Draft
<1>21. CASE DraftFill(p)  BY <1>21 DEF Stride, DraftFill
<1>22. CASE Check(p)  BY <1>22 DEF Stride, Check
<1>23. CASE Handoff(p)  BY <1>23 DEF Stride, Handoff
<1>24. CASE Swap(p)  BY <1>24 DEF Stride, Swap
<1> QED BY <1>1, <1>2, <1>3, <1>4, <1>5, <1>6, <1>7, <1>8, <1>9, <1>10, <1>11,
     <1>12, <1>13, <1>14, <1>15, <1>16, <1>17, <1>18, <1>19, <1>20,
     <1>21, <1>22, <1>23, <1>24 DEF Act, Step

LEMMA FaultsGrow ==
  ASSUME TypeOK, NEW p \in Procs, Act(p), faults' = 0 PROVE faults = 0
<1> USE DEF TypeOK
<1>1. CASE Call(p)  BY <1>1 DEF Call
<1>2. CASE Acquire(p)  BY <1>2 DEF Acquire
<1>3. CASE GiveUp(p)  BY <1>3 DEF GiveUp, Forget
<1>4. CASE Done(p)  BY <1>4 DEF Done, Forget
<1>5. CASE RemoveLock(p)  BY <1>5 DEF RemoveLock, Forget
<1>6. CASE Replay(p)  BY <1>6 DEF Replay
<1>7. CASE Capture(p)  BY <1>7 DEF Capture
<1>8. CASE Snapshot(p)  BY <1>8 DEF Snapshot
<1>9. CASE SnapFill(p)  BY <1>9 DEF SnapFill
<1>10. CASE Create(p)  BY <1>10 DEF Create
<1>11. CASE Fill(p)  BY <1>11 DEF Fill
<1>12. CASE Judge(p)  BY <1>12 DEF Judge
<1>13. CASE Link(p)  BY <1>13 DEF Link
<1>14. CASE Place(p)  BY <1>14 DEF Place
<1>15. CASE Untie(p)  BY <1>15 DEF Untie
<1>16. CASE Refuse(p)  BY <1>16 DEF Refuse
<1>17. CASE Clean(p)  BY <1>17 DEF Clean
<1>18. CASE Abort(p)  BY <1>18 DEF Abort
<1>19. CASE Inspect(p)  BY <1>19 DEF Inspect
<1>20. CASE Stage(p)  BY <1>20 DEF Stage
<1>21. CASE PublishHistory(p)  BY <1>21 DEF PublishHistory
<1>22. CASE Draft(p)  BY <1>22 DEF Draft
<1>23. CASE DraftFill(p)  BY <1>23 DEF DraftFill
<1>24. CASE Check(p)  BY <1>24 DEF Check
<1>25. CASE Handoff(p)  BY <1>25 DEF Handoff
<1>26. CASE Swap(p)  BY <1>26 DEF Swap
<1>27. CASE Fail(p)  BY <1>27 DEF Fail
<1>28. CASE Crash(p)  BY <1>28 DEF Crash
<1>29. CASE Unnamed(p)  BY <1>29 DEF Unnamed, Forget
<1>30. CASE Undone(p)  BY <1>30 DEF Undone
<1> QED BY <1>1, <1>2, <1>3, <1>4, <1>5, <1>6, <1>7, <1>8, <1>9, <1>10, <1>11,
     <1>12, <1>13, <1>14, <1>15, <1>16, <1>17, <1>18, <1>19, <1>20,
     <1>21, <1>22, <1>23, <1>24, <1>25, <1>26, <1>27, <1>28, <1>29,
     <1>30 DEF Act, Step

LEMMA TidyStays == ASSUME IInv, TidyInv, [Next]_vars PROVE TidyInv'
<1> SUFFICES ASSUME faults' = 0
             PROVE  /\ \A p \in Procs : pc'[p] # "dead" /\ (lock' = p => pc'[p] \in Inside)
                    /\ lock' = Nobody => Tidy'
                    /\ \A p \in Procs : lock' = p => Near(p)'
  BY DEF TidyInv
<1>1. CASE \E p \in Procs : Act(p)
  <2> PICK p \in Procs : Act(p)  BY <1>1
  <2>0. faults = 0
    BY FaultsGrow DEF IInv
  <2>1. /\ \A q \in Procs : pc[q] # "dead" /\ (lock = q => pc[q] \in Inside)
        /\ lock = Nobody => Tidy
        /\ \A q \in Procs : lock = q => Near(q)
    BY <2>0 DEF TidyInv
  <2>2. \A q \in Procs \ {p} : /\ pc'[q] = pc[q] /\ req'[q] = req[q] /\ img'[q] = img[q]
                               /\ made'[q] = made[q]
                               /\ pc[p] \notin Inside => UNCHANGED files
    BY Bystanders DEF IInv
  <2>3. CASE Stride(p) /\ pc[p] \in Inside /\ pc'[p] \in Inside /\ UNCHANGED lock
    <3>1. lock = p /\ lock' = p /\ lock # Nobody  BY <2>3, NamesApart DEF IInv, Exclusive
    <3>2. Near(p)'  BY <2>1, <2>3, <3>1, NearStays
    <3>3. pc'[p] # "dead"  BY <2>3 DEF Inside, Appending, Sealing
    <3>4. \A q \in Procs : pc'[q] # "dead"  BY <2>1, <2>2, <3>3
    <3>5. \A q \in Procs : lock' = q => pc'[q] \in Inside /\ Near(q)'
      BY <2>3, <3>1, <3>2
    <3>6. lock' # Nobody  BY <3>1
    <3> QED BY <3>4, <3>5, <3>6
  <2>4. CASE Acquire(p)
    <3>1. lock = Nobody /\ lock' = p /\ p # Nobody  BY <2>4, NamesApart DEF Acquire
    <3>2. Near(p)'  BY <2>1, <2>4, <3>1, AcquiresNear
    <3>3. pc'[p] \in Inside
      BY <2>4 DEF Acquire, Goto, IInv, TypeOK, Inside, Appending, Sealing
    <3> QED BY <2>1, <2>2, <3>1, <3>2, <3>3 DEF Inside, Appending, Sealing
  <2>5. CASE Done(p)
    <3>1. pc[p] \in {"leave", "return"} /\ lock' = Nobody /\ UNCHANGED files /\ pc'[p] = "idle"
      BY <2>5 DEF Done, Goto, IInv, TypeOK
    <3>2. lock = p  BY <3>1 DEF IInv, Exclusive, Inside
    <3>3. Tidy  BY <2>1, <3>1, <3>2, EndsTidy
    <3>4. Tidy'  BY <3>1, <3>3 DEF Tidy, files, StaleMarker, Referenced, NoTemp
    <3> QED BY <2>1, <2>2, <3>1, <3>4, NamesApart
  <2>6. CASE (Call(p) \/ GiveUp(p)) /\ UNCHANGED files /\ UNCHANGED lock
    <3>1. pc[p] \in {"idle", "wait"} /\ pc'[p] \in {"idle", "wait"}
      BY <2>6 DEF Call, GiveUp, Goto, IInv, TypeOK
    <3>2. lock # p  BY <2>1, <3>1 DEF Inside, Appending, Sealing
    <3>3. Tidy => Tidy'  BY <2>6 DEF Tidy, files, StaleMarker, Referenced, NoTemp
    <3>4. \A q \in Procs \ {p} : Near(q) => Near(q)'
      BY <2>2, <2>6
         DEF files, Near, TempOf, SnapsOf, AssocOf, MadeOf, BlobOf, StaleMarker, Referenced, Row
    <3> QED BY <2>1, <2>2, <2>6, <3>1, <3>2, <3>3, <3>4
  <2> QED BY <2>0, <2>1, <2>3, <2>4, <2>5, <2>6, Strides DEF IInv
<1>2. CASE RemoveTemp
  <2>1. lock = Nobody /\ temp' = NoTemp /\ faults = 0
        /\ UNCHANGED <<ledger, snaps, assoc, blob, lock, pc>>
    BY <1>2 DEF RemoveTemp
  <2> QED BY <2>1, NamesApart DEF TidyInv, Tidy, StaleMarker, Referenced, NoTemp
<1>3. CASE UNCHANGED vars
  <2>1. UNCHANGED <<ledger, temp, snaps, assoc, blob, lock, pc, req, base, img, made, faults>>
    BY <1>3 DEF vars, files, locals
  <2>2. Tidy => Tidy'  BY <2>1 DEF Tidy, StaleMarker, Referenced, NoTemp
  <2>3. \A q \in Procs : Near(q) => Near(q)'
    BY <2>1 DEF Near, TempOf, SnapsOf, AssocOf, MadeOf, BlobOf, StaleMarker, Referenced, Row
  <2> QED BY <2>1, <2>2, <2>3 DEF TidyInv
<1> QED BY <1>1, <1>2, <1>3, Moves

(* Without a crash or a failing file operation no call leaves a candidate,  *)
(* a snapshot or an association nothing refers to, or unnamed history.      *)
THEOREM NothingLeftBehind == Spec => []AbortLeavesNothing
<1>1. TidyInv => AbortLeavesNothing
  BY DEF TidyInv, Tidy, StaleMarker, Referenced, AbortLeavesNothing
<1> QED BY <1>1, TidyInit, TidyStays, IInvAlways, PTL DEF Spec

=============================================================================
