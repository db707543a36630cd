-------------------------- MODULE ReviewStoreProofs --------------------------
(* Proofs about ReviewStore for any processes, operation ids, contents and  *)
(* bounds: under the lock a record is only extended from what is in the     *)
(* file, recovery comes first, and the store is a ReviewLog.                *)
EXTENDS ReviewStore, FiniteSetTheorems, SequenceTheorems, TLAPS

-----------------------------------------------------------------------------
(* The inductive invariant *)

Types ==
  /\ file \in Seq(Entries) /\ snapshots \subseteq Snapshots
  /\ temps \subseteq [owner : Procs, kind : {"state", "artifact"}]
  /\ holder \in Procs \cup {Nobody}
  /\ pc \in [Procs -> Places] /\ op \in [Procs -> Ops] /\ content \in [Procs -> SUBSET Contents]
  /\ loaded \in [Procs -> Seq(Entries)]
  /\ created \in [Procs -> SUBSET Snapshots] /\ frozen \in [Procs -> SUBSET Snapshots]
  /\ prepared \in [Procs -> SUBSET Entries]
  /\ \A p \in Procs : created[p] \subseteq frozen[p]
  /\ receipts \in 0..MaxReceipts /\ crashes \in 0..MaxCrashes
  /\ answers \subseteq [id : Ops, receipt : 1..MaxReceipts]

(* Where a call holds the lock; "look" and "unlink" are on either side.     *)
Holding == {"recover", "load", "freeze", "publish", "decide", "write", "replace", "readback",
            "abort", "unlock", "unlockClean"}

Writing == {"freeze", "publish", "decide", "write", "replace"}

Exclusive == \A p \in Procs : pc[p] \in Holding => holder = p

OnceEach == \A i, j \in 1..Len(file) : file[i].id = file[j].id => i = j

(* What the call of p may rely on while it holds the lock.                  *)
Current(p) ==
  /\ pc[p] \in Writing =>
       loaded[p] = file /\ \A i \in 1..Len(file) : file[i].id # op[p]
  /\ pc[p] \in {"freeze", "publish"} => op[p] \in Freezing
  /\ pc[p] \in {"write", "replace"} => \A e \in prepared[p] : e.id = op[p]
  /\ pc[p] \in {"write", "replace", "readback"} => \A e, f \in prepared[p] : e = f
  /\ pc[p] = "readback" => \A e \in prepared[p] : \E i \in 1..Len(file) : file[i] = e
  /\ pc[p] = "load" => temps = {} /\ snapshots \subseteq Referenced(file)

IInv == Types /\ Exclusive /\ OnceEach /\ \A p \in Procs : Current(p)

LEMMA IInvInit == Init => IInv
BY OpsAreOps, BoundsAreNumbers
   DEF Init, IInv, Types, Exclusive, OnceEach, Current, Holding, Writing, Places

-----------------------------------------------------------------------------
(* Lemmas on the record *)

(* The next round has a number a snapshot may have: the rounds so far are   *)
(* those of other freezing operations, each committed once.                 *)
LEMMA RoundFits ==
  ASSUME IInv, NEW p \in Procs, pc[p] = "publish"
  PROVE  RoundNumber(p) \in 1..Cardinality(Freezing)
<1> DEFINE S == {e \in SeqSet(loaded[p]) : e.id \in Freezing}
<1> DEFINE T == Freezing \ {op[p]}
<1> DEFINE g == [e \in S |-> e.id]
<1>1. /\ loaded[p] = file /\ \A i \in 1..Len(file) : file[i].id # op[p]
      /\ op[p] \in Freezing /\ OnceEach
  BY DEF IInv, Current, Writing
<1>2. g \in [S -> T]  BY <1>1 DEF SeqSet
<1>3. \A e, f \in S : g[e] = g[f] => e = f  BY <1>1 DEF SeqSet, OnceEach
<1>4. g \in Injection(S, T)  BY <1>2, <1>3 DEF Injection, IsInjective
<1>5. IsFiniteSet(T) /\ Cardinality(T) = Cardinality(Freezing) - 1
  BY <1>1, FreezingIsFinite, FS_RemoveElement
<1>6. IsFiniteSet(S) /\ Cardinality(S) <= Cardinality(T)  BY <1>4, <1>5, FS_Injection
<1>7. Cardinality(S) \in Nat /\ Cardinality(Freezing) \in Nat
  BY <1>6, FreezingIsFinite, FS_CardinalityType
<1> QED BY <1>5, <1>6, <1>7 DEF RoundNumber

LEMMA Appended ==
  ASSUME NEW s \in Seq(Entries), NEW e \in Entries
  PROVE  /\ Append(s, e) \in Seq(Entries) /\ Len(Append(s, e)) = Len(s) + 1
         /\ \A i \in 1..Len(s) : Append(s, e)[i] = s[i]
         /\ Append(s, e)[Len(s) + 1] = e
OBVIOUS

-----------------------------------------------------------------------------
(* One process at a time under the lock *)

Act(p) ==
  \/ Call(p) \/ Lock(p) \/ Recover(p) \/ Load(p) \/ Freeze(p) \/ Publish(p) \/ Decide(p)
  \/ Write(p) \/ Replace(p) \/ Readback(p) \/ Abort(p) \/ Unlock(p) \/ Look(p)
  \/ Unlink(p) \/ Crash(p)

(* Outside of the lock a call leaves the record alone and only takes        *)
(* snapshots away; and it never touches what another call has in memory.    *)
LEMMA Bystanders ==
  ASSUME Types, NEW p \in Procs, Act(p), NEW q \in Procs \ {p}
  PROVE  /\ pc'[q] = pc[q] /\ op'[q] = op[q] /\ loaded'[q] = loaded[q]
         /\ prepared'[q] = prepared[q]
         /\ pc[p] \notin Holding => UNCHANGED <<file, temps>> /\ snapshots' \subseteq snapshots
<1> USE DEF Types, Goto, Holding, files, locals
<1>1. CASE Call(p)      BY <1>1 DEF Call
<1>2. CASE Lock(p)      BY <1>2 DEF Lock, End, Move
<1>3. CASE Recover(p)   BY <1>3 DEF Recover
<1>4. CASE Load(p)      BY <1>4 DEF Load
<1>5. CASE Freeze(p)    BY <1>5 DEF Freeze
<1>6. CASE Publish(p)   BY <1>6 DEF Publish
<1>7. CASE Decide(p)    BY <1>7 DEF Decide
<1>8. CASE Write(p)     BY <1>8 DEF Write
<1>9. CASE Replace(p)   BY <1>9 DEF Replace
<1>10. CASE Readback(p) BY <1>10 DEF Readback
<1>11. CASE Abort(p)    BY <1>11 DEF Abort
<1>12. CASE Unlock(p)   BY <1>12 DEF Unlock, End, Move
<1>13. CASE Look(p)     BY <1>13 DEF Look, CleanedUp, End, Move
<1>14. CASE Unlink(p)   BY <1>14 DEF Unlink, CleanedUp, End, Move
<1>15. CASE Crash(p)    BY <1>15 DEF Crash, End
<1> QED BY <1>1, <1>2, <1>3, <1>4, <1>5, <1>6, <1>7, <1>8, <1>9, <1>10, <1>11, <1>12, <1>13,
           <1>14, <1>15 DEF Act

LEMMA OthersCurrent ==
  ASSUME IInv, NEW p \in Procs, Act(p), NEW q \in Procs \ {p}
  PROVE  Current(q)'
<1>1. Current(q) /\ Types /\ Exclusive  BY DEF IInv
<1>2. /\ pc'[q] = pc[q] /\ op'[q] = op[q] /\ loaded'[q] = loaded[q] /\ prepared'[q] = prepared[q]
      /\ pc[p] \notin Holding => UNCHANGED <<file, temps>> /\ snapshots' \subseteq snapshots
  BY <1>1, Bystanders
<1>3. CASE pc[q] \notin Holding
  BY <1>2, <1>3 DEF Current, Holding, Writing
<1>4. CASE pc[q] \in Holding
  <2>1. pc[p] \notin Holding  BY <1>1, <1>4 DEF Exclusive
  <2> QED BY <1>1, <1>2, <2>1 DEF Current, Referenced, SeqSet
<1> QED BY <1>3, <1>4

LEMMA ExclusiveStep ==
  ASSUME IInv, NEW p \in Procs, Act(p)
  PROVE  Exclusive'
<1>1. Types /\ Exclusive  BY DEF IInv
<1> USE <1>1 DEF Types, Exclusive, Goto, Holding, Released, files, locals
<1>2. CASE Call(p)      BY <1>2 DEF Call
<1>3. CASE Lock(p)      BY <1>3, NobodyIsNoProc DEF Lock, Lockable, End, Move
<1>4. CASE Recover(p)   BY <1>4 DEF Recover
<1>5. CASE Load(p)
  <2>1. holder = p /\ holder' = holder /\ \A q \in Procs \ {p} : pc'[q] = pc[q]
    BY <1>5 DEF Load
  <2> QED BY <2>1
<1>6. CASE Freeze(p)    BY <1>6 DEF Freeze
<1>7. CASE Publish(p)   BY <1>7 DEF Publish
<1>8. CASE Decide(p)    BY <1>8 DEF Decide
<1>9. CASE Write(p)     BY <1>9 DEF Write
<1>10. CASE Replace(p)  BY <1>10 DEF Replace
<1>11. CASE Readback(p) BY <1>11 DEF Readback
<1>12. CASE Abort(p)    BY <1>12 DEF Abort
<1>13. CASE Unlock(p)   BY <1>13 DEF Unlock, End, Move
<1>14. CASE Look(p)     BY <1>14 DEF Look, CleanedUp, End, Move
<1>15. CASE Unlink(p)   BY <1>15 DEF Unlink, CleanedUp, End, Move
<1>16. CASE Crash(p)    BY <1>16 DEF Crash, End
<1> QED BY <1>2, <1>3, <1>4, <1>5, <1>6, <1>7, <1>8, <1>9, <1>10, <1>11, <1>12, <1>13,
           <1>14, <1>15, <1>16 DEF Act

-----------------------------------------------------------------------------
(* Every action keeps the invariant *)

LocalTypes ==
  /\ pc \in [Procs -> Places] /\ op \in [Procs -> Ops] /\ content \in [Procs -> SUBSET Contents]
  /\ loaded \in [Procs -> Seq(Entries)]
  /\ created \in [Procs -> SUBSET Snapshots] /\ frozen \in [Procs -> SUBSET Snapshots]
  /\ prepared \in [Procs -> SUBSET Entries]
  /\ \A p \in Procs : created[p] \subseteq frozen[p]

LEMMA EndTyped == ASSUME Types, NEW p \in Procs, End(p) PROVE LocalTypes'
<1>1. Begin \in Ops /\ "idle" \in Places  BY OpsAreOps DEF Places
<1>2. <<>> \in Seq(Entries)  OBVIOUS
<1> QED BY <1>1, <1>2 DEF Types, LocalTypes, End, Goto

LEMMA MoveTyped ==
  ASSUME Types, NEW p \in Procs, NEW place \in Places, Move(p, place) PROVE LocalTypes'
BY DEF Types, LocalTypes, Move, Goto, locals

LEMMA TypesStep ==
  ASSUME IInv, NEW p \in Procs, Act(p)
  PROVE  Types'
<1>1. Types  BY DEF IInv
<1> USE <1>1 DEF Types, Goto, Released, files, locals
<1>2. ASSUME NEW place \in Places PROVE [pc EXCEPT ![p] = place] \in [Procs -> Places]
  OBVIOUS
<1>3. {"idle", "lock", "recover", "load", "freeze", "publish", "decide", "write",
       "replace", "readback", "abort", "unlock", "unlockClean", "look", "unlink"} \subseteq Places
  BY DEF Places
<1>4. CASE Call(p)      BY <1>2, <1>3, <1>4 DEF Call
<1>5. CASE Lock(p)
  <2>1. LocalTypes'
    <3>1. Move(p, "recover") \/ End(p)  BY <1>5 DEF Lock
    <3> QED BY <1>3, <3>1, EndTyped, MoveTyped
  <2>2. holder' \in Procs \cup {Nobody} /\ UNCHANGED <<files, receipts, crashes, answers>>
    BY <1>5 DEF Lock
  <2> QED BY <2>1, <2>2 DEF LocalTypes
<1>6. CASE Recover(p)
  <2>1. /\ pc' \in [Procs -> Places] /\ temps' \subseteq temps /\ snapshots' \subseteq snapshots
        /\ UNCHANGED <<file, holder, locals, receipts, crashes, answers>>
    BY <1>2, <1>3, <1>6 DEF Recover
  <2> QED BY <2>1
<1>7. CASE Load(p)
  <2>1. pc' \in [Procs -> Places]
    <3>1. \E place \in {"unlock", "freeze", "decide"} : pc' = [pc EXCEPT ![p] = place]
      BY <1>7 DEF Load
    <3> QED BY <1>2, <1>3, <3>1
  <2>2. \A e \in SeqSet(file) : e \in Entries  BY DEF SeqSet
  <2>3. \A e \in Entries : [id |-> e.id, receipt |-> e.receipt] \in [id : Ops, receipt : 1..MaxReceipts]
    BY DEF Entries
  <2>4. answers' \subseteq [id : Ops, receipt : 1..MaxReceipts]
    <3> DEFINE given == {f \in Replayed(p) : SamePayload(p, f)}
    <3>1. given \subseteq Entries  BY <2>2 DEF Replayed
    <3>2. {[id |-> e.id, receipt |-> e.receipt] : e \in given} \subseteq
            [id : Ops, receipt : 1..MaxReceipts]
      BY <2>3, <3>1
    <3>3. \/ answers' = answers \cup {[id |-> e.id, receipt |-> e.receipt] : e \in given}
          \/ answers' = answers
      BY <1>7 DEF Load
    <3> HIDE DEF given
    <3> QED BY <3>2, <3>3
  <2>5. /\ UNCHANGED <<files, holder, op, content, created, frozen, prepared, receipts, crashes>>
        /\ loaded' \in [Procs -> Seq(Entries)]
    BY <1>7 DEF Load
  <2> QED BY <2>1, <2>4, <2>5
<1>8. CASE Freeze(p)    BY <1>2, <1>3, <1>8 DEF Freeze, Temp
<1>9. CASE Publish(p)
  <2>1. PICK c \in Contents : LET s == [round |-> RoundNumber(p), content |-> c] IN
          /\ snapshots' = snapshots \cup {s}
          /\ created' = [created EXCEPT ![p] = {s} \ snapshots]
          /\ frozen' = [frozen EXCEPT ![p] = {s}]
    BY <1>9 DEF Publish
  <2>2. [round |-> RoundNumber(p), content |-> c] \in Snapshots
    BY <1>9, RoundFits DEF Snapshots, Publish
  <2>3. pc' \in [Procs -> Places] /\ temps' \subseteq temps
    BY <1>2, <1>3, <1>9 DEF Publish
  <2>4. UNCHANGED <<file, holder, op, content, loaded, prepared, receipts, crashes, answers>>
    BY <1>9 DEF Publish
  <2> QED BY <2>1, <2>2, <2>3, <2>4
<1>10. CASE Decide(p)
  <2>1. pc' \in [Procs -> Places]  BY <1>2, <1>3, <1>10 DEF Decide
  <2> DEFINE e == [id |-> op[p], receipt |-> receipts + 1, content |-> content[p],
                   snap |-> frozen[p]]
  <2>2. receipts < MaxReceipts => e \in Entries
    <3>1. op[p] \in Ops /\ content[p] \in SUBSET Contents /\ frozen[p] \in SUBSET Snapshots
      OBVIOUS
    <3>2. receipts < MaxReceipts => receipts + 1 \in 1..MaxReceipts  BY BoundsAreNumbers
    <3> QED BY <3>1, <3>2 DEF Entries
  <2>3. prepared' \in [Procs -> SUBSET Entries] /\ receipts' \in 0..MaxReceipts
    <3>1. CASE /\ receipts < MaxReceipts /\ receipts' = receipts + 1
               /\ prepared' = [prepared EXCEPT ![p] = {e}]
      <4>1. {e} \in SUBSET Entries  BY <2>2, <3>1
      <4> HIDE DEF e
      <4> QED BY <3>1, <4>1, BoundsAreNumbers
    <3>2. CASE UNCHANGED <<receipts, prepared>>  BY <3>2
    <3> QED BY <1>10, <3>1, <3>2 DEF Decide
  <2>4. UNCHANGED <<files, holder, op, content, loaded, created, frozen, crashes, answers>>
    BY <1>10 DEF Decide
  <2> QED BY <2>1, <2>3, <2>4
<1>11. CASE Write(p)    BY <1>2, <1>3, <1>11 DEF Write, Temp
<1>12. CASE Replace(p)
  <2>1. pc' \in [Procs -> Places] /\ temps' \subseteq temps
    BY <1>2, <1>3, <1>12 DEF Replace
  <2>2. \A e \in prepared[p] : Append(loaded[p], e) \in Seq(Entries)  BY Appended
  <2>3. file' \in Seq(Entries)  BY <1>12, <2>2 DEF Replace
  <2>4. UNCHANGED <<snapshots, holder, locals, receipts, crashes, answers>>
    BY <1>12 DEF Replace
  <2> QED BY <2>1, <2>3, <2>4
<1>13. CASE Readback(p)
  <2>1. pc' \in [Procs -> Places]  BY <1>2, <1>3, <1>13 DEF Readback
  <2>2. \A e \in Entries : [id |-> e.id, receipt |-> e.receipt] \in [id : Ops, receipt : 1..MaxReceipts]
    BY DEF Entries
  <2>3. prepared[p] \subseteq Entries  OBVIOUS
  <2>4. answers' \subseteq [id : Ops, receipt : 1..MaxReceipts]
    <3>1. {[id |-> e.id, receipt |-> e.receipt] : e \in prepared[p]} \subseteq
            [id : Ops, receipt : 1..MaxReceipts]
      BY <2>2, <2>3
    <3>2. \/ answers' = answers \cup {[id |-> e.id, receipt |-> e.receipt] : e \in prepared[p]}
          \/ answers' = answers
      BY <1>13 DEF Readback
    <3> QED BY <3>1, <3>2
  <2>5. UNCHANGED <<files, holder, locals, receipts, crashes>>  BY <1>13 DEF Readback
  <2> QED BY <2>1, <2>4, <2>5
<1>14. CASE Abort(p)    BY <1>2, <1>3, <1>14 DEF Abort
<1>15. CASE Unlock(p)
  <2>1. LocalTypes'
    <3>1. Move(p, "look") \/ End(p)  BY <1>15 DEF Unlock
    <3> QED BY <1>3, <3>1, EndTyped, MoveTyped
  <2>2. holder' \in Procs \cup {Nobody} /\ UNCHANGED <<files, receipts, crashes, answers>>
    BY <1>15 DEF Unlock
  <2> QED BY <2>1, <2>2 DEF LocalTypes
<1>16. CASE Look(p)
  <2>1. LocalTypes'
    <3>1. Move(p, "unlink") \/ Move(p, "unlock") \/ End(p)  BY <1>16 DEF Look, CleanedUp
    <3> QED BY <1>3, <3>1, EndTyped, MoveTyped
  <2>2. UNCHANGED <<files, holder, receipts, crashes, answers>>  BY <1>16 DEF Look
  <2> QED BY <2>1, <2>2 DEF LocalTypes
<1>17. CASE Unlink(p)
  <2>1. LocalTypes'
    <3>1. Move(p, "unlock") \/ End(p)  BY <1>17 DEF Unlink, CleanedUp
    <3> QED BY <1>3, <3>1, EndTyped, MoveTyped
  <2>2. snapshots' \subseteq snapshots /\ UNCHANGED <<file, temps, holder, receipts, crashes, answers>>
    BY <1>17 DEF Unlink
  <2> QED BY <2>1, <2>2 DEF LocalTypes
<1>18. CASE Crash(p)
  <2>1. LocalTypes'  BY <1>18, EndTyped DEF Crash
  <2>2. /\ holder' \in Procs \cup {Nobody} /\ crashes' \in 0..MaxCrashes
        /\ UNCHANGED <<files, receipts, answers>>
    BY <1>18, BoundsAreNumbers DEF Crash
  <2> QED BY <2>1, <2>2 DEF LocalTypes
<1> QED BY <1>4, <1>5, <1>6, <1>7, <1>8, <1>9, <1>10, <1>11, <1>12, <1>13, <1>14, <1>15, <1>16,
           <1>17, <1>18 DEF Act

(* The one step that extends the record.                                    *)
LEMMA ReplaceAppends ==
  ASSUME IInv, NEW p \in Procs, Replace(p), file' # file
  PROVE  \E e \in prepared[p] : /\ file' = Append(file, e) /\ e \in Entries /\ e.id = op[p]
                                /\ prepared[p] = {e} /\ pc'[p] = "readback"
                                /\ \A i \in 1..Len(file) : file[i].id # e.id
<1>1. Types /\ Current(p) /\ pc[p] = "replace"  BY DEF IInv, Replace
<1>2. PICK e \in prepared[p] : file' = Append(loaded[p], e) /\ Goto(p, "readback")
  BY DEF Replace
<1>3. loaded[p] = file /\ \A i \in 1..Len(file) : file[i].id # op[p]
  BY <1>1 DEF Current, Writing
<1>4. e.id = op[p] /\ \A f \in prepared[p] : f = e  BY <1>1 DEF Current
<1>5. e \in Entries /\ pc'[p] = "readback"  BY <1>1, <1>2 DEF Types, Goto
<1> QED BY <1>2, <1>3, <1>4, <1>5

LEMMA FewReplace ==
  ASSUME NEW p \in Procs, Act(p), ~Replace(p)
  PROVE  file' = file
BY DEF Act, Call, Lock, Recover, Load, Freeze, Publish, Decide, Write, Readback, Abort, Unlock,
       Look, Unlink, Crash, files

LEMMA OnceEachStep ==
  ASSUME IInv, NEW p \in Procs, Act(p)
  PROVE  OnceEach'
<1>1. OnceEach /\ file \in Seq(Entries)  BY DEF IInv, Types
<1>2. CASE file' = file  BY <1>1, <1>2 DEF OnceEach
<1>3. CASE file' # file
  <2>1. Replace(p)  BY <1>3, FewReplace
  <2>2. PICK e \in Entries : file' = Append(file, e) /\ \A i \in 1..Len(file) : file[i].id # e.id
    BY <1>3, <2>1, ReplaceAppends
  <2>3. /\ Len(file') = Len(file) + 1 /\ \A i \in 1..Len(file) : file'[i] = file[i]
        /\ file'[Len(file) + 1] = e /\ Len(file) \in Nat
    BY <1>1, <2>2, Appended
  <2>4. \A i \in 1..Len(file') : i \in 1..Len(file) \/ i = Len(file) + 1  BY <2>3
  <2> QED BY <1>1, <2>2, <2>3, <2>4 DEF OnceEach
<1> QED BY <1>2, <1>3

LEMMA OwnCurrent ==
  ASSUME IInv, NEW p \in Procs, Act(p)
  PROVE  Current(p)'
<1>1. Types /\ Current(p) /\ OnceEach  BY DEF IInv
<1> USE <1>1 DEF Types, Current, Goto, Writing, files, locals
<1>2. CASE Call(p)      BY <1>2 DEF Call
<1>3. CASE Lock(p)      BY <1>3 DEF Lock, End, Move
<1>4. CASE Recover(p)
  <2>1. CASE pc'[p] = "load"
    <3>1. temps = {} /\ snapshots \ Referenced(file) = {} /\ UNCHANGED files
      BY <1>4, <2>1 DEF Recover, OrphanTemps, OrphanSnapshots
    <3> QED BY <2>1, <3>1 DEF Referenced, SeqSet
  <2>2. CASE pc'[p] \in {"unlock", "recover"}  BY <2>2
  <2> QED BY <1>4, <2>1, <2>2 DEF Recover
<1>5. CASE Load(p)
  <2>1. UNCHANGED <<file, temps, snapshots, op, prepared>> /\ loaded'[p] = file  BY <1>5 DEF Load
  <2>2. pc'[p] = "unlock" \/ (Replayed(p) = {} /\ pc'[p] \in {"freeze", "decide"})
    BY <1>5 DEF Load
  <2>3. pc'[p] = "freeze" => op[p] \in Freezing  BY <1>5, OpsAreOps DEF Load
  <2>4. Replayed(p) = {} => \A i \in 1..Len(file) : file[i].id # op[p]
    BY DEF Replayed, SeqSet
  <2> QED BY <2>1, <2>2, <2>3, <2>4
<1>6. CASE Freeze(p)    BY <1>6 DEF Freeze
<1>7. CASE Publish(p)   BY <1>7 DEF Publish
<1>8. CASE Decide(p)    BY <1>8 DEF Decide
<1>9. CASE Write(p)     BY <1>9 DEF Write
<1>10. CASE Replace(p)
  <2>1. CASE file' = file
    <3>1. pc'[p] = "abort"
      <4>1. ASSUME NEW e \in prepared[p], file' = Append(loaded[p], e) PROVE FALSE
        <5>1. loaded[p] = file  BY <1>10 DEF Replace
        <5>2. Len(file') = Len(file) + 1  BY <4>1, <5>1, Appended
        <5> QED BY <2>1, <5>2, LenProperties
      <4> QED BY <1>10, <4>1 DEF Replace
    <3> QED BY <3>1
  <2>2. CASE file' # file
    <3>1. PICK e \in prepared[p] : /\ file' = Append(file, e) /\ e \in Entries
                                   /\ prepared[p] = {e} /\ pc'[p] = "readback"
      BY <1>10, <2>2, ReplaceAppends
    <3>2. Len(file') = Len(file) + 1 /\ file'[Len(file) + 1] = e  BY <3>1, Appended
    <3>3. Len(file) + 1 \in 1..Len(file')  BY <3>2, LenProperties
    <3>4. prepared' = prepared  BY <1>10 DEF Replace
    <3> QED BY <3>1, <3>2, <3>3, <3>4
  <2> QED BY <2>1, <2>2
<1>11. CASE Readback(p) BY <1>11 DEF Readback
<1>12. CASE Abort(p)    BY <1>12 DEF Abort
<1>13. CASE Unlock(p)   BY <1>13 DEF Unlock, End, Move
<1>14. CASE Look(p)     BY <1>14 DEF Look, CleanedUp, End, Move
<1>15. CASE Unlink(p)   BY <1>15 DEF Unlink, CleanedUp, End, Move
<1>16. CASE Crash(p)    BY <1>16 DEF Crash, End
<1> QED BY <1>2, <1>3, <1>4, <1>5, <1>6, <1>7, <1>8, <1>9, <1>10, <1>11, <1>12, <1>13, <1>14,
           <1>15, <1>16 DEF Act

LEMMA IInvStep == IInv /\ [Next]_vars => IInv'
<1> SUFFICES ASSUME IInv, [Next]_vars PROVE IInv'  OBVIOUS
<1>1. CASE UNCHANGED vars
  BY <1>1 DEF vars, files, IInv, Types, Exclusive, OnceEach, Current, Referenced, SeqSet
<1>2. ASSUME NEW p \in Procs, Act(p) PROVE IInv'
  BY <1>2, TypesStep, ExclusiveStep, OnceEachStep, OwnCurrent, OthersCurrent DEF IInv
<1>3. Next => \E p \in Procs : Act(p)  BY DEF Next, Act
<1> QED BY <1>1, <1>2, <1>3

LEMMA IInvAlways == Spec => []IInv
BY IInvInit, IInvStep, PTL DEF Spec

-----------------------------------------------------------------------------
(* Every reachable state of the store, for any processes, ids and bounds,   *)
(* is type correct: also the number of a frozen round stays in its range.   *)
THEOREM TypeCorrect == Spec => []TypeOK
<1>1. IInv => TypeOK  BY DEF IInv, Types, TypeOK, SeqSet
<1> QED BY <1>1, IInvAlways, PTL

(* A writer's loaded record is current until it has replaced it, whatever   *)
(* crashes, uncertain commits and calls of other processes there were.      *)
THEOREM WritersAreCurrent == Spec => []NoStaleWrite
<1>1. IInv => NoStaleWrite  BY DEF IInv, Current, Writing, NoStaleWrite
<1> QED BY <1>1, IInvAlways, PTL

(* No command reads the record before what crashed calls left is gone, and  *)
(* nothing is added while it does, also by a cleanup outside of the lock.   *)
THEOREM RecoveryComesFirst == Spec => []RecoveredBeforeUse
<1>1. IInv => RecoveredBeforeUse  BY DEF IInv, Current, RecoveredBeforeUse
<1> QED BY <1>1, IInvAlways, PTL

-----------------------------------------------------------------------------
(* The store implements ReviewLog *)

LogOf(s) == [i \in 1..Len(s) |-> [id |-> s[i].id, receipt |-> s[i].receipt]]

Rows == [id : Ops, receipt : 1..MaxReceipts]

LEMMA LogOfRecord ==
  ASSUME NEW s \in Seq(Entries)
  PROVE  LogOf(s) \in Seq(Rows) /\ Len(LogOf(s)) = Len(s)
<1>1. Len(s) \in Nat /\ \A i \in 1..Len(s) : s[i] \in Entries  OBVIOUS
<1>2. LogOf(s) \in [1..Len(s) -> Rows]  BY <1>1 DEF LogOf, Rows, Entries
<1>3. LogOf(s) \in Seq(Rows)  BY <1>1, <1>2, SeqDef
<1>4. DOMAIN LogOf(s) = 1..Len(s)  BY DEF LogOf
<1> QED BY <1>1, <1>3, <1>4, LenProperties

LEMMA LogOfAppend ==
  ASSUME NEW s \in Seq(Entries), NEW e \in Entries
  PROVE  LogOf(Append(s, e)) = Append(LogOf(s), [id |-> e.id, receipt |-> e.receipt])
<1> DEFINE r == [id |-> e.id, receipt |-> e.receipt]
<1>1. /\ Append(s, e) \in Seq(Entries) /\ Len(Append(s, e)) = Len(s) + 1
      /\ \A i \in 1..Len(s) : Append(s, e)[i] = s[i]
      /\ Append(s, e)[Len(s) + 1] = e
  BY Appended
<1>2. LogOf(s) \in Seq(Rows) /\ Len(LogOf(s)) = Len(s)  BY LogOfRecord
<1>3. LogOf(Append(s, e)) \in Seq(Rows) /\ Len(LogOf(Append(s, e))) = Len(s) + 1
  BY <1>1, LogOfRecord
<1>4. r \in Rows  BY DEF Rows, Entries
<1>5. Append(LogOf(s), r) \in Seq(Rows) /\ Len(Append(LogOf(s), r)) = Len(s) + 1
  BY <1>2, <1>4
<1>6. Len(s) \in Nat  OBVIOUS
<1>7. ASSUME NEW i \in 1..Len(s) + 1 PROVE LogOf(Append(s, e))[i] = Append(LogOf(s), r)[i]
  <2>1. LogOf(Append(s, e))[i] = [id |-> Append(s, e)[i].id, receipt |-> Append(s, e)[i].receipt]
    BY <1>1 DEF LogOf
  <2>2. CASE i = Len(s) + 1
    <3>1. Append(LogOf(s), r)[i] = r  BY <1>2, <1>4, <2>2
    <3> QED BY <1>1, <2>1, <2>2, <3>1
  <2>3. CASE i \in 1..Len(s)
    <3>1. Append(LogOf(s), r)[i] = LogOf(s)[i]  BY <1>2, <1>4, <2>3
    <3>2. LogOf(s)[i] = [id |-> s[i].id, receipt |-> s[i].receipt]  BY <2>3 DEF LogOf
    <3> QED BY <1>1, <2>1, <2>3, <3>1, <3>2
  <2>4. i = Len(s) + 1 \/ i \in 1..Len(s)  BY <1>6
  <2> QED BY <2>2, <2>3, <2>4
<1> QED BY <1>3, <1>5, <1>7, SeqEqual

(* A call that answers gives the receipt the record has for its id.         *)
LEMMA AnswersComeFromTheLog ==
  ASSUME IInv, NEW p \in Procs, Act(p), answers' # answers
  PROVE  \E i \in 1..Len(file) :
           answers' = answers \cup {[id |-> file[i].id, receipt |-> file[i].receipt]}
<1>1. Types /\ Current(p) /\ OnceEach  BY DEF IInv
<1>2. CASE Load(p)
  <2>1. answers' = answers \cup {[id |-> e.id, receipt |-> e.receipt] :
                                   e \in {f \in Replayed(p) : SamePayload(p, f)}}
    BY <1>2 DEF Load
  <2>2. PICK e \in Replayed(p) : TRUE  BY <1>2, <2>1
  <2>3. PICK i \in 1..Len(file) : file[i] = e /\ e.id = op[p]  BY <2>2 DEF Replayed, SeqSet
  <2>4. \A f \in Replayed(p) : f = e  BY <1>1, <2>3 DEF Replayed, SeqSet, OnceEach
  <2>5. {f \in Replayed(p) : SamePayload(p, f)} \in {{}, {e}}  BY <2>4
  <2> QED BY <1>2, <2>1, <2>3, <2>5
<1>3. CASE Readback(p)
  <2>1. /\ pc[p] = "readback"
        /\ answers' = answers \cup {[id |-> e.id, receipt |-> e.receipt] : e \in prepared[p]}
    BY <1>3 DEF Readback
  <2>2. PICK e \in prepared[p] : TRUE  BY <1>3, <2>1
  <2>3. prepared[p] = {e}  BY <1>1, <2>1, <2>2 DEF Current
  <2>4. PICK i \in 1..Len(file) : file[i] = e  BY <1>1, <2>1, <2>2 DEF Current
  <2> QED BY <2>1, <2>3, <2>4
<1>4. CASE ~Load(p) /\ ~Readback(p)
  BY <1>4 DEF Act, Call, Lock, Recover, Freeze, Publish, Decide, Write, Replace, Abort, Unlock,
              Look, Unlink, Crash
<1> QED BY <1>2, <1>3, <1>4

LEMMA StepImplements ==
  ASSUME IInv, [Next]_vars
  PROVE  [Log!Next]_<<LogOf(file), answers>>
<1>0. file \in Seq(Entries)  BY DEF IInv, Types
<1>1. CASE UNCHANGED vars  BY <1>1 DEF vars, files
<1>2. ASSUME NEW p \in Procs, Act(p) PROVE [Log!Next]_<<LogOf(file), answers>>
  <2>1. CASE file' = file /\ answers' = answers  BY <2>1
  <2>2. CASE answers' # answers
    <3>1. file' = file
      <4>1. ~Replace(p)  BY <2>2 DEF Replace
      <4> QED BY <1>2, <4>1, FewReplace
    <3>2. PICK i \in 1..Len(file) :
            answers' = answers \cup {[id |-> file[i].id, receipt |-> file[i].receipt]}
      BY <1>2, <2>2, AnswersComeFromTheLog
    <3>3. LogOf(file)[i] = [id |-> file[i].id, receipt |-> file[i].receipt]  BY DEF LogOf
    <3>4. Len(LogOf(file)) = Len(file)  BY <1>0, LogOfRecord
    <3>5. Log!Answer(i)  BY <3>1, <3>2, <3>3 DEF Log!Answer, LogOf
    <3> QED BY <3>4, <3>5 DEF Log!Next, LogOf
  <2>3. CASE file' # file /\ answers' = answers
    <3>1. Replace(p)  BY <1>2, <2>3, FewReplace
    <3>2. PICK e \in Entries : file' = Append(file, e) /\ \A i \in 1..Len(file) : file[i].id # e.id
      BY <2>3, <3>1, ReplaceAppends
    <3>3. LogOf(file)' = Append(LogOf(file), [id |-> e.id, receipt |-> e.receipt])
      BY <1>0, <3>2, LogOfAppend DEF LogOf
    <3>4. Len(LogOf(file)) = Len(file) /\ \A i \in 1..Len(file) : LogOf(file)[i].id # e.id
      BY <1>0, <3>2, LogOfRecord DEF LogOf
    <3>5. ~Log!Logged(e.id)  BY <3>4 DEF Log!Logged, LogOf
    <3>6. e.id \in Ops /\ e.receipt \in 1..MaxReceipts  BY DEF Entries
    <3>7. Log!Operate(e.id, e.receipt)  BY <2>3, <3>3, <3>5 DEF Log!Operate, LogOf
    <3> QED BY <3>6, <3>7 DEF Log!Next
  <2> QED BY <2>1, <2>2, <2>3
<1>3. Next => \E p \in Procs : Act(p)  BY DEF Next, Act
<1> QED BY <1>1, <1>2, <1>3

(* For any processes, crashes, uncertain commits and repeated calls: an id  *)
(* is committed once, and every answer to it is the receipt of that commit. *)
THEOREM LogRefined == Spec => ImplementsLog
<1>1. Init => Log!Init
  <2> SUFFICES ASSUME Init PROVE Log!Init  OBVIOUS
  <2>1. LogOf(<<>>) = <<>>  BY DEF LogOf
  <2> QED BY <2>1 DEF Init, Log!Init, LogOf
<1>2. IInv /\ [Next]_vars => [Log!Next]_<<LogOf(file), answers>>  BY StepImplements
<1> QED BY <1>1, <1>2, IInvAlways, PTL DEF Spec, ImplementsLog, Log!Spec, LogOf

-----------------------------------------------------------------------------
(* What a call has created and not committed                                *)

(* Where the call of p has yet to commit what it created, or to clean up.   *)
Cleaning == {"decide", "write", "replace", "abort", "unlockClean", "look", "unlink"}

(* A call creates at most one snapshot, the one its round refers to.        *)
Tied(p) ==
  /\ \A s, t \in created[p] : s = t
  /\ pc[p] \in {"idle", "lock", "recover", "load", "freeze", "publish"} => frozen[p] = {}
  /\ pc[p] \in {"write", "replace"} => \A e \in prepared[p] : e.snap = frozen[p]

(* Without a crash every temporary file and every unreferenced snapshot has *)
(* a call that will still remove or commit it.                              *)
TempsOwned ==
  crashes = 0 => \A t \in temps :
    pc[t.owner] \in (IF t.kind = "artifact" THEN {"publish", "abort"} ELSE {"replace", "abort"})

Owner(s) == \E p \in Procs : s \in created[p] /\ pc[p] \in Cleaning

SnapshotsOwned ==
  crashes = 0 => \A s \in snapshots : s \in Referenced(file) \/ Owner(s)

OwnedInv == IInv /\ (\A p \in Procs : Tied(p)) /\ TempsOwned /\ SnapshotsOwned

(* As long as only p is in a call, its own cleanup spares what the record   *)
(* refers to, and what it is about to commit is there.                      *)
Alone(p) == \A q \in Procs \ {p} : pc[q] = "idle"

Spared(p) ==
  /\ ReferencedExist
  /\ pc[p] \in {"decide", "write", "replace"} => frozen[p] \subseteq snapshots
  /\ pc[p] = "unlink" => created[p] \cap Referenced(file) = {}

LEMMA OwnedInit == Init => OwnedInv
<1>1. Init => \A p \in Procs : Tied(p)  BY DEF Init, Tied
<1>2. Init => TempsOwned /\ SnapshotsOwned  BY DEF Init, TempsOwned, SnapshotsOwned
<1> QED BY <1>1, <1>2, IInvInit DEF OwnedInv

(* What a call has in memory is its own.                                    *)
LEMMA OthersKeep ==
  ASSUME Types, NEW p \in Procs, Act(p), NEW q \in Procs \ {p}
  PROVE  /\ pc'[q] = pc[q] /\ created'[q] = created[q] /\ frozen'[q] = frozen[q]
         /\ prepared'[q] = prepared[q]
<1>1. pc'[q] = pc[q] /\ prepared'[q] = prepared[q]  BY Bystanders
<1>2. created'[q] = created[q] /\ frozen'[q] = frozen[q]
  <2>1. CASE Call(p)  BY <2>1 DEF Call, Types
  <2>2. CASE Publish(p)  BY <2>2 DEF Publish, Types
  <2>3. CASE Lock(p) \/ Unlock(p) \/ Look(p) \/ Unlink(p) \/ Crash(p)
    <3>1. End(p) \/ \E place \in Places : Move(p, place)
      BY <2>3 DEF Lock, Unlock, Look, Unlink, Crash, CleanedUp, Places
    <3> QED BY <3>1 DEF End, Move, Types, locals
  <2>4. CASE /\ ~Call(p) /\ ~Publish(p)
             /\ ~(Lock(p) \/ Unlock(p) \/ Look(p) \/ Unlink(p) \/ Crash(p))
    BY <2>4 DEF Act, Recover, Load, Freeze, Decide, Write, Replace, Readback, Abort, locals
  <2> QED BY <2>1, <2>2, <2>3, <2>4
<1> QED BY <1>1, <1>2

LEMMA TiedStep ==
  ASSUME Types, NEW p \in Procs, Act(p), NEW q \in Procs, Tied(q)
  PROVE  Tied(q)'
<1>1. CASE q # p  BY <1>1, OthersKeep DEF Tied
<1>2. CASE q = p
  <2> USE <1>2 DEF Types, Tied, Goto, files, locals
  <2>1. CASE Call(p)      BY <2>1 DEF Call
  <2>2. CASE Lock(p)      BY <2>2 DEF Lock, End, Move
  <2>3. CASE Recover(p)   BY <2>3 DEF Recover
  <2>4. CASE Load(p)      BY <2>4 DEF Load
  <2>5. CASE Freeze(p)    BY <2>5 DEF Freeze
  <2>6. CASE Publish(p)
    <3>1. \E s : created'[p] = {s} \ snapshots  BY <2>6 DEF Publish
    <3>2. pc'[p] = "decide"  BY <2>6 DEF Publish
    <3> QED BY <3>1, <3>2
  <2>7. CASE Decide(p)    BY <2>7 DEF Decide
  <2>8. CASE Write(p)     BY <2>8 DEF Write
  <2>9. CASE Replace(p)   BY <2>9 DEF Replace
  <2>10. CASE Readback(p) BY <2>10 DEF Readback
  <2>11. CASE Abort(p)    BY <2>11 DEF Abort
  <2>12. CASE Unlock(p)   BY <2>12 DEF Unlock, End, Move
  <2>13. CASE Look(p)     BY <2>13 DEF Look, CleanedUp, End, Move
  <2>14. CASE Unlink(p)   BY <2>14 DEF Unlink, CleanedUp, End, Move
  <2>15. CASE Crash(p)    BY <2>15 DEF Crash, End
  <2> QED BY <2>1, <2>2, <2>3, <2>4, <2>5, <2>6, <2>7, <2>8, <2>9, <2>10, <2>11, <2>12, <2>13,
             <2>14, <2>15 DEF Act
<1> QED BY <1>1, <1>2

LEMMA CrashesCount ==
  ASSUME Types, NEW p \in Procs, Act(p), crashes' = 0
  PROVE  crashes = 0 /\ ~Crash(p)
<1>1. crashes \in Nat  BY BoundsAreNumbers DEF Types
<1>2. ~Crash(p)  BY <1>1 DEF Crash, End
<1>3. crashes' = crashes
  BY <1>2 DEF Act, Call, Lock, Recover, Load, Freeze, Publish, Decide, Write, Replace, Readback,
              Abort, Unlock, Look, Unlink
<1> QED BY <1>2, <1>3

LEMMA TempsOwnedStep ==
  ASSUME Types, TempsOwned, NEW p \in Procs, Act(p)
  PROVE  TempsOwned'
<1> SUFFICES ASSUME crashes' = 0, NEW t \in temps'
             PROVE  pc'[t.owner] \in (IF t.kind = "artifact" THEN {"publish", "abort"}
                                      ELSE {"replace", "abort"})
  BY DEF TempsOwned
<1>0. crashes = 0 /\ ~Crash(p)  BY CrashesCount
<1>1. \A u \in temps : /\ u.owner \in Procs /\ u.kind \in {"state", "artifact"}
                       /\ u = Temp(u.owner, u.kind)
                       /\ pc[u.owner] \in (IF u.kind = "artifact" THEN {"publish", "abort"}
                                           ELSE {"replace", "abort"})
  BY <1>0 DEF Types, TempsOwned, Temp
<1>2. CASE t \in temps /\ t.owner # p  BY <1>1, <1>2, OthersKeep
<1>3. CASE t \in temps /\ t.owner = p
  <2>1. pc[p] \in {"publish", "replace", "abort"}  BY <1>1, <1>3
  <2>2. Publish(p) \/ Replace(p) \/ Abort(p)
    BY <1>0, <2>1 DEF Act, Call, Lock, Recover, Load, Freeze, Decide, Write, Readback, Unlock,
                      Look, Unlink
  <2>3. ~Publish(p)
    <3> SUFFICES ASSUME Publish(p) PROVE FALSE
      OBVIOUS
    <3>1. pc[p] = "publish" /\ temps' = temps \ {Temp(p, "artifact")}  BY DEF Publish
    <3>2. t = Temp(p, "artifact")  BY <1>1, <1>3, <3>1
    <3> QED BY <3>1, <3>2
  <2>4. ASSUME Replace(p)
        PROVE pc'[p] = "abort"
    <3>1. pc[p] = "replace"  BY <2>4 DEF Replace
    <3>2. t = Temp(p, "state")  BY <1>1, <1>3, <3>1
    <3>3. temps' # temps \ {Temp(p, "state")}  BY <3>2
    <3> QED BY <2>4, <3>3 DEF Replace, Goto, Types
  <2>5. ~Abort(p)  BY <1>3 DEF Abort
  <2> QED BY <1>1, <1>3, <2>2, <2>3, <2>4, <2>5
<1>4. CASE t \notin temps
  <2>1. Freeze(p) \/ Write(p)
    BY <1>0, <1>4 DEF Act, Call, Lock, Recover, Load, Publish, Decide, Replace, Readback, Abort,
                      Unlock, Look, Unlink, files
  <2>2. CASE Freeze(p)
    <3>1. t = Temp(p, "artifact") /\ pc'[p] \in {"publish", "abort"}
      BY <1>4, <2>2 DEF Freeze, Goto, Types
    <3>2. t.owner = p /\ t.kind = "artifact"  BY <3>1 DEF Temp
    <3> QED BY <3>1, <3>2
  <2>3. CASE Write(p)
    <3>1. t = Temp(p, "state") /\ pc'[p] \in {"replace", "abort"}
      BY <1>4, <2>3 DEF Write, Goto, Types
    <3>2. t.owner = p /\ t.kind = "state"  BY <3>1 DEF Temp
    <3> QED BY <3>1, <3>2
  <2> QED BY <2>1, <2>2, <2>3
<1> QED BY <1>2, <1>3, <1>4

LEMMA ReferencedGrows ==
  ASSUME IInv, NEW p \in Procs, Act(p)
  PROVE  Referenced(file) \subseteq Referenced(file)'
<1>1. CASE file' = file  BY <1>1 DEF Referenced, SeqSet
<1>2. CASE file' # file
  <2>1. Replace(p)  BY <1>2, FewReplace
  <2>2. PICK e \in Entries : file' = Append(file, e)  BY <1>2, <2>1, ReplaceAppends
  <2>3. file \in Seq(Entries)  BY DEF IInv, Types
  <2>4. Len(file') = Len(file) + 1 /\ Len(file) \in Nat
        /\ \A i \in 1..Len(file) : file'[i] = file[i]
    BY <2>2, <2>3, Appended
  <2>5. SeqSet(file) \subseteq SeqSet(file')
    <3>1. \A i \in 1..Len(file) : i \in 1..Len(file') /\ file'[i] = file[i]  BY <2>4
    <3> QED BY <3>1 DEF SeqSet
  <2>6. Referenced(file)' = UNION {x.snap : x \in SeqSet(file')}  BY DEF Referenced, SeqSet
  <2> QED BY <2>5, <2>6 DEF Referenced
<1> QED BY <1>1, <1>2

(* Once the record is replaced it refers to the snapshot of the call.       *)
LEMMA CommitRefers ==
  ASSUME IInv, NEW p \in Procs, Tied(p), Replace(p), file' # file
  PROVE  /\ Referenced(file)' = Referenced(file) \cup frozen[p]
         /\ pc'[p] = "readback"
<1>1. pc[p] = "replace" /\ file \in Seq(Entries)  BY DEF Replace, IInv, Types
<1>2. PICK e \in prepared[p] : file' = Append(file, e) /\ e \in Entries /\ pc'[p] = "readback"
  BY ReplaceAppends
<1>3. e.snap = frozen[p]  BY <1>1 DEF Tied
<1>4. /\ Len(file') = Len(file) + 1 /\ Len(file) \in Nat
      /\ \A i \in 1..Len(file) : file'[i] = file[i]
      /\ file'[Len(file) + 1] = e
  BY <1>1, <1>2, Appended
<1>5. SeqSet(file') = SeqSet(file) \cup {e}
  <2>1. \A i \in 1..Len(file') : i \in 1..Len(file) \/ i = Len(file) + 1  BY <1>4
  <2>2. 1..Len(file) \subseteq 1..Len(file') /\ Len(file) + 1 \in 1..Len(file')  BY <1>4
  <2>3. \A x : x \in SeqSet(file') <=> x \in SeqSet(file) \/ x = e
    BY <1>4, <2>1, <2>2 DEF SeqSet
  <2> QED BY <2>3
<1>6. Referenced(file)' = UNION {x.snap : x \in SeqSet(file')}  BY DEF Referenced, SeqSet
<1> QED BY <1>2, <1>3, <1>5, <1>6 DEF Referenced

LEMMA SnapshotsOwnedStep ==
  ASSUME OwnedInv, NEW p \in Procs, Act(p)
  PROVE  SnapshotsOwned'
<1> SUFFICES ASSUME crashes' = 0, NEW s \in snapshots', s \notin Referenced(file)'
             PROVE  Owner(s)'
  BY DEF SnapshotsOwned
<1>0. Types /\ Tied(p)  BY DEF OwnedInv, IInv
<1>1. crashes = 0 /\ ~Crash(p)  BY <1>0, CrashesCount
<1>2. s \notin Referenced(file)  BY ReferencedGrows DEF OwnedInv
<1>3. s \in snapshots => Owner(s)  BY <1>1, <1>2 DEF OwnedInv, SnapshotsOwned
<1>4. CASE s \in snapshots /\ \E q \in Procs \ {p} : s \in created[q] /\ pc[q] \in Cleaning
  BY <1>0, <1>4, OthersKeep DEF Owner
<1>5. CASE s \in snapshots /\ s \in created[p] /\ pc[p] \in Cleaning
  <2>1. CASE Decide(p)
    BY <1>0, <1>5, <2>1 DEF Decide, Goto, Owner, Cleaning, Types
  <2>2. CASE Write(p)
    BY <1>0, <1>5, <2>2 DEF Write, Goto, Owner, Cleaning, Types, locals
  <2>3. CASE Replace(p)
    <3>1. file' = file
      <4>1. file' # file => s \in Referenced(file)'
        BY <1>0, <1>5, <2>3, CommitRefers DEF OwnedInv, Types
      <4> QED BY <4>1
    <3>2. Goto(p, "abort")
      <4>1. ASSUME NEW e \in prepared[p], file' = Append(loaded[p], e) PROVE FALSE
        <5>1. loaded[p] = file /\ e \in Entries /\ file \in Seq(Entries)
          BY <2>3 DEF Replace, OwnedInv, IInv, Current, Writing, Types
        <5>2. Len(file') = Len(file) + 1 /\ Len(file) \in Nat  BY <4>1, <5>1, Appended
        <5> QED BY <3>1, <5>2
      <4> QED BY <2>3, <4>1 DEF Replace
    <3> QED BY <1>0, <1>5, <2>3, <3>2 DEF Replace, Goto, Owner, Cleaning, Types, locals
  <2>4. CASE Abort(p)
    <3>1. created[p] # {}  BY <1>5
    <3>2. pc'[p] \in {"look", "unlockClean"}  BY <1>0, <2>4, <3>1 DEF Abort, Goto, Types
    <3>3. created' = created  BY <2>4 DEF Abort, locals
    <3> QED BY <1>5, <3>2, <3>3 DEF Owner, Cleaning
  <2>5. CASE Unlock(p)
    <3>1. pc[p] = "unlockClean"  BY <1>5, <2>5 DEF Unlock, Cleaning
    <3> QED BY <1>0, <1>5, <2>5, <3>1 DEF Unlock, Move, Goto, Owner, Cleaning, Types, locals
  <2>6. CASE Look(p)
    <3>1. created[p] = {s}  BY <1>0, <1>5 DEF Tied
    <3>2. Unlinkable(p)  BY <1>2, <1>5, <3>1 DEF Unlinkable
    <3>3. pc'[p] = "unlink" /\ created' = created
      BY <1>0, <2>6, <3>2 DEF Look, Move, Goto, Types, locals
    <3> QED BY <1>5, <3>3 DEF Owner, Cleaning
  <2>7. CASE Unlink(p)  BY <1>5, <2>7 DEF Unlink, CleanedUp, End, Move
  <2> QED BY <1>1, <1>5, <2>1, <2>2, <2>3, <2>4, <2>5, <2>6, <2>7
       DEF Act, Call, Lock, Recover, Load, Freeze, Publish, Readback, Cleaning
<1>6. CASE s \notin snapshots
  <2>1. Publish(p)
    BY <1>1, <1>6 DEF Act, Call, Lock, Recover, Load, Freeze, Decide, Write, Replace, Readback,
                      Abort, Unlock, Look, Unlink, files
  <2>2. PICK n : snapshots' = snapshots \cup {n} /\ created' = [created EXCEPT ![p] = {n} \ snapshots]
    BY <2>1 DEF Publish
  <2>3. s = n /\ s \in created'[p]  BY <1>0, <1>6, <2>2 DEF Types
  <2>4. pc'[p] = "decide"  BY <1>0, <2>1 DEF Publish, Goto, Types
  <2> QED BY <2>3, <2>4 DEF Owner, Cleaning
<1> QED BY <1>3, <1>4, <1>5, <1>6 DEF Owner

LEMMA OwnedStep == OwnedInv /\ [Next]_vars => OwnedInv'
<1> SUFFICES ASSUME OwnedInv, [Next]_vars PROVE OwnedInv'
  OBVIOUS
<1>1. IInv'  BY IInvStep DEF OwnedInv
<1>2. CASE UNCHANGED vars
  BY <1>1, <1>2 DEF vars, files, OwnedInv, Tied, TempsOwned, SnapshotsOwned, Owner, Referenced,
                    SeqSet
<1>3. ASSUME NEW p \in Procs, Act(p) PROVE OwnedInv'
  <2>1. \A q \in Procs : Tied(q)'  BY <1>3, TiedStep DEF OwnedInv, IInv
  <2>2. TempsOwned'  BY <1>3, TempsOwnedStep DEF OwnedInv, IInv
  <2>3. SnapshotsOwned'  BY <1>3, SnapshotsOwnedStep
  <2> QED BY <1>1, <2>1, <2>2, <2>3 DEF OwnedInv
<1>4. Next => \E p \in Procs : Act(p)  BY DEF Next, Act
<1> QED BY <1>2, <1>3, <1>4

LEMMA OwnedAlways == Spec => []OwnedInv
BY OwnedInit, OwnedStep, PTL DEF Spec

(* However calls interleave, fail and are refused: while no process crashes *)
(* every temporary file and every snapshot nobody committed is removed by   *)
(* the call that made it, or by another before it returns.                  *)
THEOREM GracefulCallsCleanUp == Spec => []GracefulLeavesNothing
<1>1. OwnedInv => GracefulLeavesNothing
  <2> SUFFICES ASSUME OwnedInv, crashes = 0, \A p \in Procs : pc[p] = "idle"
               PROVE  temps = {} /\ snapshots \subseteq Referenced(file)
    BY DEF GracefulLeavesNothing
  <2>1. ASSUME NEW t \in temps PROVE FALSE
    <3>1. t.owner \in Procs  BY DEF OwnedInv, IInv, Types
    <3>2. pc[t.owner] # "idle"  BY DEF OwnedInv, TempsOwned
    <3> QED BY <3>1, <3>2
  <2>2. ASSUME NEW s \in snapshots PROVE s \in Referenced(file)
    BY DEF OwnedInv, SnapshotsOwned, Owner, Cleaning
  <2> QED BY <2>1, <2>2
<1> QED BY <1>1, OwnedAlways, PTL

(* The steps of p while no other process is in a call.                      *)
LEMMA SparedStep ==
  ASSUME NEW p \in Procs, OwnedInv, Spared(p), Alone(p), Alone(p)', [Next]_vars
  PROVE  Spared(p)'
<1>1. CASE UNCHANGED vars
  BY <1>1 DEF vars, files, Spared, ReferencedExist, Referenced, SeqSet
<1>2. ASSUME NEW q \in Procs \ {p}, Act(q) PROVE FALSE
  <2>1. pc[q] = "idle" /\ pc'[q] = "idle"  BY DEF Alone
  <2>2. Call(q)
    BY <1>2, <2>1 DEF Act, Lock, Recover, Load, Freeze, Publish, Decide, Write, Replace,
                      Readback, Abort, Unlock, Look, Unlink, Crash
  <2> QED BY <2>1, <2>2 DEF Call, Goto, OwnedInv, IInv, Types
<1>3. CASE Act(p)
  <2>0. Types /\ Tied(p) /\ Spared(p)  BY DEF OwnedInv, IInv
  <2>1. CASE file' # file
    <3>1. Replace(p)  BY <1>3, <2>1, FewReplace
    <3>2. Referenced(file)' = Referenced(file) \cup frozen[p] /\ pc'[p] = "readback"
      BY <2>0, <2>1, <3>1, CommitRefers DEF OwnedInv
    <3>3. pc[p] = "replace" /\ snapshots' = snapshots  BY <3>1 DEF Replace
    <3> QED BY <3>2, <3>3 DEF Spared, ReferencedExist
  <2>2. CASE file' = file
    <3>1. Referenced(file)' = Referenced(file)  BY <2>2 DEF Referenced, SeqSet
    <3>2. ReferencedExist'
      <4>1. CASE Unlink(p)
        BY <3>1, <4>1 DEF Spared, ReferencedExist, Unlink
      <4>2. CASE Recover(p)
        BY <3>1, <4>2 DEF Spared, ReferencedExist, Recover, OrphanSnapshots, files
      <4>3. snapshots \subseteq snapshots' \/ Unlink(p) \/ Recover(p)
        BY <1>3 DEF Act, Call, Lock, Load, Freeze, Publish, Decide, Write, Replace, Readback,
                    Abort, Unlock, Look, Crash, files
      <4> QED BY <3>1, <4>1, <4>2, <4>3 DEF Spared, ReferencedExist
    <3>3. pc'[p] \in {"decide", "write", "replace"} => frozen'[p] \subseteq snapshots'
      <4> SUFFICES ASSUME pc'[p] \in {"decide", "write", "replace"}
                   PROVE  frozen'[p] \subseteq snapshots'
        OBVIOUS
      <4>1. CASE Load(p)
        BY <2>0, <4>1 DEF Load, Tied
      <4>2. CASE Publish(p)  BY <2>0, <4>2 DEF Publish, Types
      <4>3. CASE Decide(p) \/ Write(p)
        BY <2>0, <4>3 DEF Decide, Write, Spared, files, locals
      <4>4. Load(p) \/ Publish(p) \/ Decide(p) \/ Write(p)
        BY <1>3, <2>0 DEF Act, Call, Lock, Recover, Freeze, Replace, Readback,
                    Abort, Unlock, Look, Unlink, Crash, CleanedUp, End, Move, Goto, Types
      <4> QED BY <4>1, <4>2, <4>3, <4>4
    <3>4. pc'[p] = "unlink" => created'[p] \cap Referenced(file) = {}
      <4> SUFFICES ASSUME pc'[p] = "unlink" PROVE created'[p] \cap Referenced(file) = {}
        OBVIOUS
      <4>1. Look(p)
        BY <1>3, <2>0 DEF Act, Call, Lock, Recover, Load, Freeze, Publish, Decide, Write, Replace,
                          Readback, Abort, Unlock, Unlink, Crash, CleanedUp, End, Move, Goto,
                          Types
      <4>2. Unlinkable(p) /\ created' = created
        BY <2>0, <4>1 DEF Look, CleanedUp, End, Move, Goto, Types, locals
      <4> QED BY <4>2 DEF Unlinkable
    <3> QED BY <3>1, <3>2, <3>3, <3>4 DEF Spared
  <2> QED BY <2>1, <2>2
<1>4. Next => \E q \in Procs : Act(q)  BY DEF Next, Act
<1> QED BY <1>1, <1>2, <1>3, <1>4

(* A process that is alone loses no snapshot its record refers to, whatever *)
(* crashes and uncertain commits it goes through. (With another process in  *)
(* a cleanup outside of the lock it may: see the run of the race.)          *)
THEOREM AloneNothingIsLost == Spec => ReferencedExistAlone
<1>1. ASSUME NEW p \in Procs
      PROVE  Spec => ([](\A q \in Procs \ {p} : pc[q] = "idle") => []ReferencedExist)
  <2>1. Init => Spared(p)
    BY DEF Init, Spared, ReferencedExist, Referenced, SeqSet
  <2>2. OwnedInv /\ Spared(p) /\ Alone(p) /\ Alone(p)' /\ [Next]_vars => Spared(p)'
    BY SparedStep
  <2>3. Spared(p) => ReferencedExist  BY DEF Spared
  <2> QED BY <2>1, <2>2, <2>3, OwnedAlways, PTL DEF Spec, Alone
<1> QED BY <1>1 DEF ReferencedExistAlone
=============================================================================
