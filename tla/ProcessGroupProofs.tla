------------------------- MODULE ProcessGroupProofs -------------------------
(***************************************************************************)
(* The safety of ProcessGroup for any number of owners and of members.     *)
(***************************************************************************)
EXTENDS ProcessGroup, TLAPS

(* Every variable has its type in every reachable state; off Linux nobody  *)
(* ever holds the lock.                                                    *)
THEOREM TypesHold == Spec => []TypeOK
<1>1. Init => TypeOK
  BY DEF Init, TypeOK, Places, Lives
<1>2. TypeOK /\ [Next]_vars => TypeOK'
  <2> SUFFICES ASSUME TypeOK, [Next]_vars PROVE TypeOK'
    OBVIOUS
  <2> USE DEF TypeOK, Places, Lives, Goto, kernel, global, closing, Ended
  <2>1. ASSUME NEW o \in Owners, Acquire(o) PROVE TypeOK'
    BY <2>1 DEF Acquire
  <2>2. ASSUME NEW o \in Owners, GetFlag(o) PROVE TypeOK'
    BY <2>2 DEF GetFlag
  <2>3. ASSUME NEW o \in Owners, SetFlag(o) PROVE TypeOK'
    BY <2>3 DEF SetFlag
  <2>4. ASSUME NEW o \in Owners, Bind(o) PROVE TypeOK'
    <3>1. life' \in [Owners -> [Members -> Lives]]
      <4>1. Direct \in Members /\ "alive" \in Lives
        BY DEF Members
      <4>2. [life[o] EXCEPT ![Direct] = "alive"] \in [Members -> Lives]
        BY <4>1
      <4>3. QED
        BY <2>4, <4>2 DEF Bind
    <3>2. pc' \in [Owners -> Places]
      <4>1. pc' = [pc EXCEPT ![o] = "work"] \/ pc' = [pc EXCEPT ![o] = "restore"]
        BY <2>4 DEF Bind
      <4>2. QED
        BY <4>1
    <3>3. QED
      BY <2>4, <3>1, <3>2 DEF Bind
  <2>5. ASSUME NEW o \in Owners, Settle(o) PROVE TypeOK'
    BY <2>5 DEF Settle
  <2>6. ASSUME NEW o \in Owners, ReapGroup(o) PROVE TypeOK'
    BY <2>6 DEF ReapGroup, AfterReap
  <2>7. ASSUME NEW o \in Owners, Look(o) PROVE TypeOK'
    BY <2>7 DEF Look, SeesAbsent, GroupExists, PollDirect
  <2>8. ASSUME NEW o \in Owners, Term(o) \/ GraceOver(o) \/ ForceOver(o)
                                 \/ DeadlinePasses(o) \/ SettleRaises(o)
        PROVE TypeOK'
    <3>1. CASE Term(o)  BY <3>1 DEF Term
    <3>2. CASE GraceOver(o) \/ ForceOver(o)  BY <3>2 DEF GraceOver, ForceOver
    <3>3. CASE DeadlinePasses(o)  BY <3>3 DEF DeadlinePasses
    <3>4. CASE SettleRaises(o)  BY <3>4 DEF SettleRaises
    <3>5. QED BY <2>8, <3>1, <3>2, <3>3, <3>4
  <2>9. ASSUME NEW o \in Owners, Kill(o) PROVE TypeOK'
    BY <2>9 DEF Kill, Running
  <2>10. ASSUME NEW o \in Owners, Restore(o) PROVE TypeOK'
    BY <2>10 DEF Restore
  <2>11. ASSUME NEW o \in Owners, Release(o) \/ CloseAgain(o) PROVE TypeOK'
    <3>1. CASE Release(o)
      <4>1. PICK p \in Ended : pc' = [pc EXCEPT ![o] = p]
        BY <3>1 DEF Release
      <4>2. pc' \in [Owners -> Places]
        BY <4>1
      <4>3. absent' \in [Owners -> BOOLEAN]
        BY <3>1 DEF Release, Bound
      <4>4. QED
        BY <3>1, <4>2, <4>3 DEF Release
    <3>2. CASE CloseAgain(o)  BY <3>2 DEF CloseAgain
    <3>3. QED BY <2>11, <3>1, <3>2
  <2>12. ASSUME NEW o \in Owners, CallerPolls(o) PROVE TypeOK'
    BY <2>12 DEF CallerPolls, Members
  <2>13. ASSUME NEW o \in Owners, NEW m \in Members, Ends(o, m) PROVE TypeOK'
    BY <2>13 DEF Ends, Heir
  <2>14. ASSUME NEW o \in Owners, NEW m \in Members, NEW k \in Kids, Forks(o, m, k)
         PROVE TypeOK'
    BY <2>14 DEF Forks, Members
  <2>15. ASSUME NEW o \in Owners, NEW k \in Kids, ReapedElsewhere(o, k)
         PROVE TypeOK'
    BY <2>15 DEF ReapedElsewhere, Members
  <2>16. CASE UNCHANGED vars
    BY <2>16 DEF vars
  <2>17. QED
    BY <2>1, <2>2, <2>3, <2>4, <2>5, <2>6, <2>7, <2>8, <2>9, <2>10, <2>11,
       <2>12, <2>13, <2>14, <2>15, <2>16
    DEF Next, OwnerStep, KernelStep, Finished
<1>3. QED
  BY <1>1, <1>2, PTL DEF Spec

-----------------------------------------------------------------------------
(* The lock, the flag and what each owner has yet to give back.            *)

Locked(o)  == linux /\ pc[o] \notin {"idle"} \cup Ended
Unrestored == \E o \in Owners : refused[o]

(* The lock is held by the one owner between acquire and closing.          *)
OneHolder == \A o \in Owners : Locked(o) <=> holder = o

(* A flag to give back is the first one, unless a restoration failed.      *)
GivesBackFirst ==
  \A o \in Owners : libc[o] =>
    /\ linux /\ pc[o] \notin {"idle", "get"} \cup After
    /\ prior[o] = initial \/ Unrestored

RestoresLate == \A o \in Owners : refused[o] => pc[o] \in After

(* The flag is read on Linux only, and who sets it has read it.            *)
SetsAfterRead ==
  \A o \in Owners : (pc[o] = "get" => linux) /\ (pc[o] = "set" => libc[o])

(* A changed flag is one that somebody has to give back.                   *)
ChangeIsOwned ==
  flag = initial \/ Unrestored \/ \E o \in Owners : libc[o]

FlagInv == OneHolder /\ GivesBackFirst /\ RestoresLate /\ SetsAfterRead
           /\ ChangeIsOwned

(* Between the reading of the flag and its restoration an owner that       *)
(* leaves the flag alone keeps the invariant.                              *)
Inside == Places \ ({"idle", "get", "set"} \cup After)

LEMMA InsideStep ==
  ASSUME TypeOK, FlagInv, NEW o \in Owners, NEW p \in Inside,
         pc[o] \in Inside \cup {"set"}, pc' = [pc EXCEPT ![o] = p],
         UNCHANGED <<linux, initial, flag, holder, libc, prior, refused>>
  PROVE  FlagInv'
<1> USE DEF TypeOK, Inside, Places, After, Ended
<1>1. OneHolder'
  BY DEF FlagInv, OneHolder, Locked
<1>2. GivesBackFirst'
  BY DEF FlagInv, GivesBackFirst, Unrestored
<1>3. RestoresLate'
  BY DEF FlagInv, RestoresLate
<1>4. SetsAfterRead'
  BY DEF FlagInv, SetsAfterRead
<1>5. ChangeIsOwned'
  BY DEF FlagInv, ChangeIsOwned, Unrestored
<1>6. QED
  BY <1>1, <1>2, <1>3, <1>4, <1>5 DEF FlagInv

LEMMA FlagInvHolds == Spec => []FlagInv
<1>1. Init => FlagInv
  BY NamesDistinct DEF Init, FlagInv, OneHolder, Locked, GivesBackFirst,
     RestoresLate, SetsAfterRead, ChangeIsOwned, Unrestored
<1>2. TypeOK /\ FlagInv /\ [Next]_vars => FlagInv'
  <2> SUFFICES ASSUME TypeOK, FlagInv, [Next]_vars PROVE FlagInv'
    OBVIOUS
  <2> USE NamesDistinct DEF Goto, kernel, global, closing, After, Ended
  <2>1. ASSUME NEW o \in Owners, Acquire(o) PROVE FlagInv'
    BY <2>1 DEF Acquire, TypeOK, FlagInv, OneHolder, Locked, GivesBackFirst,
       RestoresLate, SetsAfterRead, ChangeIsOwned, Unrestored
  <2>2. ASSUME NEW o \in Owners, GetFlag(o) PROVE FlagInv'
    <3>1. \A q \in Owners : ~libc[q]
      BY <2>2 DEF GetFlag, FlagInv, OneHolder, Locked, GivesBackFirst
    <3>2. flag = initial \/ Unrestored
      BY <3>1 DEF FlagInv, ChangeIsOwned
    <3>3. UNCHANGED <<linux, initial, flag, holder, refused>> /\ pc[o] = "get"
      BY <2>2 DEF GetFlag
    <3>4. pc'[o] \in {"set", "undo"} /\ \A q \in Owners \ {o} : pc'[q] = pc[q]
      BY <2>2 DEF GetFlag, TypeOK
    <3>5. /\ libc'[o] => prior'[o] = flag
          /\ pc'[o] = "set" => libc'[o]
          /\ \A q \in Owners \ {o} : libc'[q] = libc[q]
      BY <2>2, <3>1 DEF GetFlag, TypeOK
    <3>6. linux
      BY <3>3 DEF FlagInv, SetsAfterRead
    <3>7. OneHolder'
      BY <3>3, <3>4 DEF FlagInv, OneHolder, Locked
    <3>8. GivesBackFirst'
      BY <3>1, <3>2, <3>3, <3>4, <3>5, <3>6 DEF GivesBackFirst, Unrestored
    <3>9. RestoresLate' /\ SetsAfterRead'
      BY <3>3, <3>4, <3>5 DEF FlagInv, RestoresLate, SetsAfterRead
    <3>10. ChangeIsOwned'
      BY <3>2, <3>3 DEF ChangeIsOwned, Unrestored
    <3>11. QED
      BY <3>7, <3>8, <3>9, <3>10 DEF FlagInv
  <2>3. ASSUME NEW o \in Owners, SetFlag(o) PROVE FlagInv'
    <3>1. CASE UNCHANGED flag
      BY <2>3, <3>1, InsideStep DEF SetFlag, Inside, Places, After, Ended
    <3>2. CASE flag' = TRUE
      <4>1. libc[o] /\ libc' = libc
        BY <2>3, <3>2 DEF SetFlag, FlagInv, SetsAfterRead
      <4>2. ChangeIsOwned'
        BY <4>1 DEF ChangeIsOwned
      <4>3. (OneHolder /\ GivesBackFirst /\ RestoresLate /\ SetsAfterRead)'
        BY <2>3, <3>2 DEF SetFlag, TypeOK, FlagInv, OneHolder, Locked,
           GivesBackFirst, RestoresLate, SetsAfterRead, Unrestored
      <4>4. QED
        BY <4>2, <4>3 DEF FlagInv
    <3>3. QED
      BY <2>3, <3>1, <3>2 DEF SetFlag
  <2>4. ASSUME NEW o \in Owners,
               \/ Bind(o) \/ Settle(o) \/ Term(o) \/ GraceOver(o) \/ Kill(o)
               \/ ForceOver(o) \/ SettleRaises(o)
        PROVE FlagInv'
    BY <2>4, InsideStep DEF Bind, Settle, Term, GraceOver, Kill, ForceOver,
       SettleRaises, Inside, Places, After, Ended
  <2>5. ASSUME NEW o \in Owners, ReapGroup(o) PROVE FlagInv'
    <3>1. pc[o] \in Inside
      BY <2>5 DEF ReapGroup, AfterReap, Inside, Places, After, Ended
    <3>2. AfterReap[pc[o]] \in Inside /\ "restore" \in Inside
      BY <2>5 DEF ReapGroup, AfterReap, Inside, Places, After, Ended
    <3>3. QED
      BY <2>5, <3>1, <3>2, InsideStep DEF ReapGroup
  <2>6. ASSUME NEW o \in Owners, Look(o) PROVE FlagInv'
    BY <2>6, InsideStep DEF Look, Inside, Places, After, Ended
  <2>7. ASSUME NEW o \in Owners, DeadlinePasses(o) \/ CallerPolls(o) \/ KernelStep(o)
        PROVE FlagInv'
    <3>1. UNCHANGED <<linux, initial, flag, holder, libc, prior, refused, pc>>
      BY <2>7 DEF DeadlinePasses, CallerPolls, KernelStep, Ends, Forks,
         ReapedElsewhere
    <3>2. QED
      BY <3>1 DEF FlagInv, OneHolder, Locked, GivesBackFirst, RestoresLate,
         SetsAfterRead, ChangeIsOwned, Unrestored
  <2>8. ASSUME NEW o \in Owners, Restore(o) PROVE FlagInv'
    <3>1. ~refused[o] /\ ~libc'[o] /\ pc'[o] \in {"release", "undone"}
      BY <2>8 DEF Restore, TypeOK, FlagInv, RestoresLate, After, Ended
    <3>2. \A q \in Owners \ {o} : refused'[q] = refused[q] /\ libc'[q] = libc[q]
                               /\ pc'[q] = pc[q]
      BY <2>8 DEF Restore, TypeOK
    <3>3. UNCHANGED <<linux, initial, holder, prior>>
      BY <2>8 DEF Restore
    <3>4. Unrestored => Unrestored'
      BY <3>1, <3>2 DEF Unrestored
    <3>5. OneHolder'
      <4>1. pc[o] \in {"restore", "undo"}
        BY <2>8 DEF Restore
      <4>2. \A q \in Owners : Locked(q)' = Locked(q)
        BY <3>1, <3>2, <3>3, <4>1 DEF Locked
      <4>3. QED
        BY <3>3, <4>2 DEF FlagInv, OneHolder
    <3>6. GivesBackFirst'
      BY <3>1, <3>2, <3>3, <3>4 DEF FlagInv, GivesBackFirst
    <3>7. RestoresLate' /\ SetsAfterRead'
      BY <3>1, <3>2, <3>3 DEF FlagInv, RestoresLate, SetsAfterRead
    <3>8. ChangeIsOwned'
      <4>1. CASE libc[o]
        <5>1. \/ flag' = prior[o]
              \/ refused'[o]
          BY <2>8, <4>1 DEF Restore, TypeOK
        <5>2. prior[o] = initial \/ Unrestored
          BY <4>1 DEF FlagInv, GivesBackFirst
        <5>3. QED
          BY <3>3, <3>4, <5>1, <5>2 DEF ChangeIsOwned, Unrestored
      <4>2. CASE ~libc[o]
        <5>1. flag' = flag
          BY <2>8, <4>2 DEF Restore
        <5>2. (\E q \in Owners : libc[q]) => (\E q \in Owners : libc'[q])
          BY <3>2, <4>2
        <5>3. QED
          BY <3>3, <3>4, <5>1, <5>2 DEF FlagInv, ChangeIsOwned
      <4>3. QED
        BY <4>1, <4>2
    <3>9. QED
      BY <3>5, <3>6, <3>7, <3>8 DEF FlagInv
  <2>9. ASSUME NEW o \in Owners, Release(o) PROVE FlagInv'
    <3>1. pc[o] \in {"release", "undone"} /\ pc'[o] \in Ended
      BY <2>9 DEF Release, TypeOK
    <3>2. \A q \in Owners \ {o} : pc'[q] = pc[q]
      BY <2>9 DEF Release, TypeOK
    <3>3. UNCHANGED <<linux, initial, flag, libc, prior, refused>>
      BY <2>9 DEF Release
    <3>4. OneHolder'
      <4>1. holder' = IF holder = o THEN NoOwner ELSE holder
        BY <2>9 DEF Release
      <4>2. ~Locked(o)' /\ \A q \in Owners \ {o} : Locked(q)' = Locked(q)
        BY <3>1, <3>2, <3>3 DEF Locked
      <4>3. QED
        BY <4>1, <4>2 DEF FlagInv, OneHolder
    <3>5. GivesBackFirst' /\ RestoresLate' /\ SetsAfterRead'
      BY <3>1, <3>2, <3>3 DEF FlagInv, GivesBackFirst, RestoresLate,
         SetsAfterRead, Unrestored
    <3>6. ChangeIsOwned'
      BY <3>3 DEF FlagInv, ChangeIsOwned, Unrestored
    <3>7. QED
      BY <3>4, <3>5, <3>6 DEF FlagInv
  <2>10. ASSUME NEW o \in Owners, CloseAgain(o) PROVE FlagInv'
    BY <2>10 DEF CloseAgain, TypeOK, FlagInv, OneHolder, Locked, GivesBackFirst,
       RestoresLate, SetsAfterRead, ChangeIsOwned, Unrestored
  <2>11. CASE UNCHANGED vars
    BY <2>11 DEF vars, FlagInv, OneHolder, Locked, GivesBackFirst,
       RestoresLate, SetsAfterRead, ChangeIsOwned, Unrestored
  <2>12. QED
    BY <2>1, <2>2, <2>3, <2>4, <2>5, <2>6, <2>7, <2>8, <2>9, <2>10, <2>11
    DEF Next, OwnerStep, Finished
<1>3. QED
  BY <1>1, <1>2, TypesHold, PTL DEF Spec

(* What a closure says of the restoration: what it was, for every owner    *)
(* but one that was unbound when its close raised.                         *)
ClosureTells ==
  \A o \in Owners :
    /\ pc[o] = "release" => restored[o] = ~refused[o]
    /\ pc[o] = "closed" /\ Bound(o) => restored[o] = ~refused[o]
    /\ pc[o] = "unclosed" => ~Bound(o)

LEMMA ClosureTellsHolds == Spec => []ClosureTells
<1>1. Init => ClosureTells
  BY DEF Init, ClosureTells
<1>2. TypeOK /\ FlagInv /\ ClosureTells /\ [Next]_vars => ClosureTells'
  <2> SUFFICES ASSUME TypeOK, FlagInv, ClosureTells, [Next]_vars
               PROVE  ClosureTells'
    OBVIOUS
  <2> USE DEF Goto, kernel, global, closing, ClosureTells, Bound
  <2>1. ASSUME NEW o \in Owners,
               \/ Acquire(o) \/ GetFlag(o) \/ SetFlag(o) \/ Settle(o) \/ Look(o)
               \/ Term(o) \/ GraceOver(o) \/ ForceOver(o) \/ DeadlinePasses(o)
               \/ SettleRaises(o)
        PROVE ClosureTells'
    <3>1. UNCHANGED <<restored, refused, life>>
      BY <2>1 DEF Acquire, GetFlag, SetFlag, Settle, Look, Term, GraceOver,
         ForceOver, DeadlinePasses, SettleRaises
    <3>2. pc'[o] \notin {"release", "closed", "unclosed"} \/ pc'[o] = pc[o]
      BY <2>1 DEF Acquire, GetFlag, SetFlag, Settle, Look, Term, GraceOver,
         ForceOver, DeadlinePasses, SettleRaises, TypeOK
    <3>3. \A q \in Owners \ {o} : pc'[q] = pc[q]
      BY <2>1 DEF Acquire, GetFlag, SetFlag, Settle, Look, Term, GraceOver,
         ForceOver, DeadlinePasses, SettleRaises, TypeOK
    <3>4. QED
      BY <3>1, <3>2, <3>3
  <2>2. ASSUME NEW o \in Owners,
               \/ Bind(o) \/ Kill(o) \/ ReapGroup(o) \/ CallerPolls(o)
        PROVE ClosureTells'
    <3>1. pc'[o] \notin {"release", "closed", "unclosed"} /\ UNCHANGED closing
      BY <2>2 DEF Bind, Kill, ReapGroup, AfterReap, CallerPolls, TypeOK
    <3>2. \A q \in Owners \ {o} : pc'[q] = pc[q] /\ life'[q] = life[q]
      BY <2>2 DEF Bind, Kill, ReapGroup, CallerPolls, TypeOK
    <3>3. QED
      BY <3>1, <3>2
  <2>3. ASSUME NEW o \in Owners, Restore(o) PROVE ClosureTells'
    <3>2. restored'[o] = ~refused'[o] /\ pc'[o] \in {"release", "undone"}
      BY <2>3 DEF Restore, TypeOK
    <3>3. \A q \in Owners \ {o} : /\ pc'[q] = pc[q] /\ restored'[q] = restored[q]
                               /\ refused'[q] = refused[q]
      BY <2>3 DEF Restore, TypeOK
    <3>4. UNCHANGED life
      BY <2>3 DEF Restore
    <3>5. QED
      BY <3>2, <3>3, <3>4
  <2>4. ASSUME NEW o \in Owners, Release(o) PROVE ClosureTells'
    BY <2>4 DEF Release, TypeOK
  <2>5. ASSUME NEW o \in Owners, CloseAgain(o) PROVE ClosureTells'
    BY <2>5 DEF CloseAgain, TypeOK
  <2>6. ASSUME NEW o \in Owners, KernelStep(o) PROVE ClosureTells'
    <3>1. \A q \in Owners : Bound(q)' => Bound(q)
      <4>1. ASSUME NEW m \in Members, Ends(o, m)
            PROVE  \A q \in Owners : Bound(q)' => Bound(q)
        BY <4>1 DEF Ends, Ending, TypeOK, Members
      <4>2. ASSUME NEW m \in Members, NEW k \in Kids, Forks(o, m, k)
            PROVE  \A q \in Owners : Bound(q)' => Bound(q)
        BY <4>2, NamesDistinct DEF Forks, TypeOK, Members
      <4>3. ASSUME NEW k \in Kids, ReapedElsewhere(o, k)
            PROVE  \A q \in Owners : Bound(q)' => Bound(q)
        BY <4>3, NamesDistinct DEF ReapedElsewhere, TypeOK, Members
      <4>4. QED
        BY <2>6, <4>1, <4>2, <4>3 DEF KernelStep
    <3>2. UNCHANGED <<pc, restored, refused>>
      BY <2>6 DEF KernelStep, Ends, Forks, ReapedElsewhere
    <3>3. QED
      BY <3>1, <3>2
  <2>7. CASE UNCHANGED vars
    BY <2>7 DEF vars
  <2>8. QED
    BY <2>1, <2>2, <2>3, <2>4, <2>5, <2>6, <2>7 DEF Next, OwnerStep, Finished
<1>3. QED
  BY <1>1, <1>2, TypesHold, FlagInvHolds, PTL DEF Spec

(* Whenever no owner holds the lock the subreaper flag is the one the      *)
(* process began with, unless a restoration was refused; the closure of an *)
(* owner with a bound group says whether its own was.                      *)
THEOREM FlagIsGivenBack == Spec => []FlagGivenBack
<1>1. TypeOK /\ FlagInv /\ ClosureTells => FlagGivenBack
  <2> SUFFICES ASSUME TypeOK, FlagInv, ClosureTells PROVE FlagGivenBack
    OBVIOUS
  <2>1. holder = NoOwner => flag = initial \/ Unrestored
    BY NamesDistinct DEF TypeOK, FlagInv, OneHolder, Locked, GivesBackFirst,
       ChangeIsOwned, After
  <2>2. QED
    BY <2>1 DEF ClosureTells, FlagGivenBack, Unrestored
<1>2. QED
  BY <1>1, TypesHold, FlagInvHolds, ClosureTellsHolds, PTL

-----------------------------------------------------------------------------
(* What a settlement says of the group.                                    *)

AbsentInv ==
  \A o \in Owners :
    /\ absent[o] =>
         /\ pc[o] \in {"last", "lastLook", "restore", "release", "closed"}
         /\ \A m \in Members : life[o][m] \in {"none", "gone"}
         /\ Bound(o) \/ pc[o] = "closed"
    /\ ~Bound(o) => \A m \in Members : life[o][m] = "none"

(* Once a settlement saw the group absent no member of it is ever there    *)
(* again, for any number of descendants.                                   *)
THEOREM AbsenceIsFinal == Spec => []AbsentIsGone
<1>1. Init => AbsentInv
  BY DEF Init, AbsentInv
<1>2. TypeOK /\ ClosureTells /\ AbsentInv /\ [Next]_vars => AbsentInv'
  <2> SUFFICES ASSUME TypeOK, ClosureTells, AbsentInv, [Next]_vars
               PROVE  AbsentInv'
    OBVIOUS
  <2> USE DEF Goto, kernel, global, closing, AbsentInv, Bound
  <2>1. ASSUME NEW o \in Owners,
               \/ Acquire(o) \/ GetFlag(o) \/ SetFlag(o) \/ Settle(o) \/ Term(o)
               \/ GraceOver(o) \/ ForceOver(o) \/ DeadlinePasses(o)
               \/ SettleRaises(o) \/ Restore(o)
        PROVE AbsentInv'
    <3>1. UNCHANGED <<life, absent>>
      BY <2>1 DEF Acquire, GetFlag, SetFlag, Settle, Term, GraceOver, ForceOver,
         DeadlinePasses, SettleRaises, Restore
    <3> DEFINE Moves(p) == /\ pc' = [pc EXCEPT ![o] = p] /\ pc[o] # "closed"
                           /\ absent[o] => p \in {"restore", "release"}
    <3>2. (pc' = pc /\ ~absent[o]) \/ \E p \in Places : Moves(p)
      <4>1. CASE DeadlinePasses(o)  BY <4>1 DEF DeadlinePasses
      <4>2. CASE Acquire(o) \/ GetFlag(o) \/ SetFlag(o)
        BY <4>2 DEF Acquire, GetFlag, SetFlag, Places
      <4>3. CASE Settle(o) \/ Term(o) \/ GraceOver(o) \/ ForceOver(o)
        BY <4>3 DEF Settle, Term, GraceOver, ForceOver, Places
      <4>4. CASE SettleRaises(o) \/ Restore(o)
        BY <4>4 DEF SettleRaises, Restore, Places
      <4>5. QED
        BY <2>1, <4>1, <4>2, <4>3, <4>4
    <3>3. CASE pc' = pc
      BY <3>1, <3>3
    <3>4. CASE \E p \in Places : Moves(p)
      <4>1. PICK p \in Places : Moves(p)
        BY <3>4
      <4>2. pc'[o] = p /\ \A q \in Owners \ {o} : pc'[q] = pc[q]
        BY <4>1 DEF TypeOK
      <4>3. QED
        BY <3>1, <4>1, <4>2
    <3> HIDE DEF Moves
    <3>5. QED
      BY <3>2, <3>3, <3>4
  <2>2. ASSUME NEW o \in Owners, Bind(o) \/ Kill(o) \/ CallerPolls(o)
        PROVE AbsentInv'
    <3>1. ~absent[o] /\ absent' = absent
      BY <2>2 DEF Bind, Kill, CallerPolls
    <3>2. \A q \in Owners \ {o} : pc'[q] = pc[q] /\ life'[q] = life[q]
      BY <2>2 DEF Bind, Kill, CallerPolls, TypeOK
    <3>3. ~Bound(o)' => \A m \in Members : life'[o][m] = "none"
      BY <2>2 DEF Bind, Kill, Running, CallerPolls, TypeOK, Members
    <3>4. QED
      BY <3>1, <3>2, <3>3
  <2>3. ASSUME NEW o \in Owners, ReapGroup(o) PROVE AbsentInv'
    <3>1. \A q \in Owners \ {o} : pc'[q] = pc[q] /\ life'[q] = life[q]
      BY <2>3 DEF ReapGroup, TypeOK
    <3>2. \A m \in Members : life'[o][m] \in {"gone", life[o][m]}
      BY <2>3 DEF ReapGroup, TypeOK
    <3>3. absent' = absent /\ (pc[o] = "last" => pc'[o] \in {"lastLook", "restore"})
      BY <2>3 DEF ReapGroup, AfterReap, TypeOK
    <3>4. absent[o] => pc[o] = "last"
      BY <2>3 DEF ReapGroup, AfterReap
    <3>5. ~Bound(o)' => \A m \in Members : life'[o][m] = "none"
      BY <2>3, <3>2 DEF ReapGroup, Collected, PollDirect, Reapable, TypeOK, Members
    <3>6. Bound(o) => Bound(o)'
      BY <3>2 DEF Members
    <3>7. absent[o] => \A m \in Members : life'[o][m] \in {"none", "gone"}
      BY <3>2
    <3>8. QED
      BY <3>1, <3>3, <3>4, <3>5, <3>6, <3>7
  <2>4. ASSUME NEW o \in Owners, Look(o) PROVE AbsentInv'
    <3>1. \A q \in Owners \ {o} : pc'[q] = pc[q] /\ absent'[q] = absent[q]
      BY <2>4 DEF Look, TypeOK
    <3>2. life' = life /\ (absent'[o] <=> SeesAbsent(o))
      BY <2>4 DEF Look, TypeOK
    <3>3. SeesAbsent(o) => /\ pc'[o] \in {"last", "restore"} /\ Bound(o)
                           /\ \A m \in Members : life[o][m] \in {"none", "gone"}
      BY <2>4 DEF Look, SeesAbsent, GroupExists, PollDirect, TypeOK, Lives
    <3>4. QED
      BY <3>1, <3>2, <3>3
  <2>5. ASSUME NEW o \in Owners, KernelStep(o) PROVE AbsentInv'
    <3>1. ~absent[o] /\ absent' = absent /\ pc' = pc
      BY <2>5 DEF KernelStep, Ends, Ending, Forks, Running, ReapedElsewhere,
         Members
    <3>2. \A q \in Owners \ {o} : life'[q] = life[q]
      BY <2>5 DEF KernelStep, Ends, Forks, ReapedElsewhere, TypeOK
    <3>3. Bound(o)
      BY <2>5 DEF KernelStep, Ends, Ending, Forks, Running, ReapedElsewhere,
         Members
    <3>4. Bound(o)'
      BY <2>5, <3>3, NamesDistinct DEF KernelStep, Ends, Forks,
         ReapedElsewhere, TypeOK, Members
    <3>5. QED
      BY <3>1, <3>2, <3>4
  <2>6. ASSUME NEW o \in Owners, Release(o) \/ CloseAgain(o) PROVE AbsentInv'
    <3>1. UNCHANGED life /\ \A q \in Owners \ {o} : pc'[q] = pc[q] /\ absent'[q] = absent[q]
      BY <2>6 DEF Release, CloseAgain, TypeOK
    <3>2. absent'[o] => absent[o] \/ ~Bound(o)
      BY <2>6 DEF Release, CloseAgain, TypeOK, ClosureTells
    <3>3. absent'[o] => pc'[o] = "closed"
      <4>1. CASE Release(o) /\ absent[o]
        BY <4>1 DEF Release, TypeOK
      <4>2. CASE Release(o) /\ ~absent[o]
        BY <4>2 DEF Release, TypeOK
      <4>3. CASE CloseAgain(o)
        BY <4>3 DEF CloseAgain, TypeOK
      <4>4. QED
        BY <2>6, <4>1, <4>2, <4>3
    <3>4. QED
      BY <3>1, <3>2, <3>3
  <2>7. CASE UNCHANGED vars
    BY <2>7 DEF vars
  <2>8. QED
    BY <2>1, <2>2, <2>3, <2>4, <2>5, <2>6, <2>7 DEF Next, OwnerStep, Finished
<1>3. AbsentInv => AbsentIsGone
  BY DEF AbsentInv, AbsentIsGone, GroupExists
<1>4. QED
  BY <1>1, <1>2, <1>3, TypesHold, ClosureTellsHolds, PTL DEF Spec

-----------------------------------------------------------------------------
(* Where orphans go.                                                       *)

Unsettled(o) == linux /\ pc[o] \notin After
Started(o)   == \E m \in Members : life[o][m] # "none"

StartsAfterSpawn ==
  \A o \in Owners : pc[o] \in {"idle", "get", "set", "spawn"} => ~Started(o)

(* The process is a subreaper from before the spawn to the restoration.    *)
FlagIsUp ==
  \A o \in Owners : Unsettled(o) /\ (Started(o) \/ pc[o] = "spawn") => flag

HomeInv == StartsAfterSpawn /\ FlagIsUp /\ OrphansComeHome

(* A step of one owner that leaves every life and parent alone.            *)
LEMMA QuietStep ==
  ASSUME TypeOK, HomeInv, NEW o \in Owners, NEW p \in Places,
         pc' = [pc EXCEPT ![o] = p], UNCHANGED <<linux, life, parent>>,
         p \in {"idle", "get", "set", "spawn"} => ~Started(o),
         p = "spawn" => flag',
         pc[o] \in After => p \in After,
         flag' \/ flag' = flag
           \/ \A q \in Owners : Unsettled(q)' => ~Started(q) /\ pc'[q] # "spawn"
  PROVE  HomeInv'
<1>1. \A q \in Owners : Started(q)' = Started(q)
  BY DEF Started
<1>2. \A q \in Owners \ {o} : pc'[q] = pc[q]
  BY DEF TypeOK
<1>3. pc'[o] = p
  BY DEF TypeOK
<1>4. StartsAfterSpawn'
  BY <1>1, <1>2, <1>3 DEF HomeInv, StartsAfterSpawn
<1>5. FlagIsUp'
  BY <1>1, <1>2, <1>3 DEF HomeInv, FlagIsUp, Unsettled
<1>6. OrphansComeHome'
  BY <1>2, <1>3 DEF HomeInv, OrphansComeHome
<1>7. QED
  BY <1>4, <1>5, <1>6 DEF HomeInv

(* A step that leaves the flag and every place and parent alone, and       *)
(* starts no group.                                                        *)
LEMMA LifeStep ==
  ASSUME TypeOK, HomeInv, NEW o \in Owners, NEW p \in Places,
         pc' = [pc EXCEPT ![o] = p], UNCHANGED <<linux, flag>>,
         Started(o), \A q \in Owners \ {o} : life'[q] = life[q],
         \A q \in Owners \ {o} : parent'[q] = parent[q],
         p \notin {"idle", "get", "set", "spawn"}, Unsettled(o)' => Unsettled(o),
         Unsettled(o)' => \A k \in Kids : parent'[o][k] # "init"
  PROVE  HomeInv'
<1>1. \A q \in Owners \ {o} : pc'[q] = pc[q] /\ (Started(q)' <=> Started(q))
  BY DEF TypeOK, Started
<1>2. pc'[o] = p
  BY DEF TypeOK
<1>3. StartsAfterSpawn'
  BY <1>1, <1>2 DEF HomeInv, StartsAfterSpawn
<1>4. FlagIsUp'
  BY <1>1, <1>2 DEF HomeInv, FlagIsUp, Unsettled
<1>5. OrphansComeHome'
  BY <1>1, <1>2 DEF HomeInv, OrphansComeHome, Unsettled
<1>6. QED
  BY <1>3, <1>4, <1>5 DEF HomeInv

(* On Linux no orphan of a group that is not settled goes to another       *)
(* process, whatever the other owners do meanwhile.                        *)
THEOREM OrphansAreOurs == Spec => []OrphansComeHome
<1>1. Init => HomeInv
  BY DEF Init, HomeInv, StartsAfterSpawn, Started, FlagIsUp, OrphansComeHome
<1>2. TypeOK /\ FlagInv /\ HomeInv /\ [Next]_vars => HomeInv'
  <2> SUFFICES ASSUME TypeOK, FlagInv, HomeInv, [Next]_vars PROVE HomeInv'
    OBVIOUS
  <2> USE DEF Goto, kernel, global, closing, After, Ended
  <2>1. ASSUME NEW o \in Owners, Acquire(o) PROVE HomeInv'
    <3>1. CASE linux
      BY <2>1, <3>1, QuietStep DEF Acquire, Places, HomeInv, StartsAfterSpawn
    <3>2. CASE ~linux
      <4>1. \A q \in Owners : ~Unsettled(q)'
        BY <2>1, <3>2 DEF Acquire, Unsettled
      <4>2. StartsAfterSpawn'
        BY <2>1, <3>2 DEF Acquire, HomeInv, StartsAfterSpawn, Started, TypeOK
      <4>3. QED
        BY <2>1, <3>2, <4>1, <4>2 DEF Acquire, HomeInv, FlagIsUp, OrphansComeHome
    <3>3. QED
      BY <3>1, <3>2
  <2>2. ASSUME NEW o \in Owners, GetFlag(o) PROVE HomeInv'
    BY <2>2, QuietStep DEF GetFlag, Places, HomeInv, StartsAfterSpawn
  <2>3. ASSUME NEW o \in Owners, SetFlag(o) PROVE HomeInv'
    BY <2>3, QuietStep DEF SetFlag, Places, HomeInv, StartsAfterSpawn
  <2>4. ASSUME NEW o \in Owners, Bind(o) PROVE HomeInv'
    <3>1. CASE Goto(o, "spawn", "restore") /\ UNCHANGED life
      BY <2>4, <3>1, QuietStep DEF Bind, Places
    <3>2. CASE Goto(o, "spawn", "work")
      <4>1. \A q \in Owners \ {o} : pc'[q] = pc[q] /\ life'[q] = life[q]
        BY <2>4, <3>2 DEF Bind, TypeOK
      <4>2. pc'[o] = "work" /\ UNCHANGED <<linux, flag, parent>>
        BY <2>4, <3>2 DEF Bind, TypeOK
      <4>3. StartsAfterSpawn'
        BY <4>1, <4>2 DEF HomeInv, StartsAfterSpawn, Started
      <4>4. FlagIsUp'
        BY <3>2, <4>1, <4>2 DEF HomeInv, FlagIsUp, Unsettled, Started
      <4>5. OrphansComeHome'
        BY <3>2, <4>1, <4>2 DEF HomeInv, OrphansComeHome
      <4>6. QED
        BY <4>3, <4>4, <4>5 DEF HomeInv
    <3>3. QED
      BY <2>4, <3>1, <3>2 DEF Bind
  <2>5. ASSUME NEW o \in Owners,
               \/ Settle(o) \/ Term(o) \/ GraceOver(o) \/ ForceOver(o)
               \/ SettleRaises(o) \/ CloseAgain(o)
        PROVE HomeInv'
    BY <2>5, QuietStep DEF Settle, Term, GraceOver, ForceOver, SettleRaises,
       CloseAgain, Places
  <2>6. ASSUME NEW o \in Owners, Look(o) PROVE HomeInv'
    BY <2>6, QuietStep DEF Look, Places
  <2>7. ASSUME NEW o \in Owners, ReapGroup(o) PROVE HomeInv'
    <3>1. pc[o] \in {"reap", "grace", "force", "last"}
      BY <2>7 DEF ReapGroup, AfterReap
    <3>2. AfterReap[pc[o]] \in {"term", "graceLook", "forceLook", "lastLook"}
      BY <3>1 DEF AfterReap
    <3>3. PICK p \in {"restore", "term", "graceLook", "forceLook", "lastLook"} :
            pc' = [pc EXCEPT ![o] = p]
      BY <2>7, <3>2 DEF ReapGroup
    <3>4. UNCHANGED <<linux, flag, parent>>
      BY <2>7 DEF ReapGroup
    <3>5. CASE life' = life
      BY <3>1, <3>3, <3>4, <3>5, QuietStep DEF Places
    <3>6. CASE life' # life
      <4>1. Started(o)
        BY <2>7, <3>6 DEF ReapGroup, Started, Collected, PollDirect, Reapable,
           Members, TypeOK
      <4>2. \A q \in Owners \ {o} : life'[q] = life[q]
        BY <2>7 DEF ReapGroup, TypeOK
      <4>3. Unsettled(o)' => \A k \in Kids : parent'[o][k] # "init"
        BY <3>1, <3>4 DEF Unsettled, HomeInv, OrphansComeHome
      <4>4. QED
        BY <3>1, <3>3, <3>4, <4>1, <4>2, <4>3, LifeStep DEF Places, Unsettled
    <3>7. QED
      BY <3>5, <3>6
  <2>8. ASSUME NEW o \in Owners, Restore(o) PROVE HomeInv'
    <3>1. flag' = flag \/ \A q \in Owners : Unsettled(q)' => ~Started(q) /\ pc'[q] # "spawn"
      <4>1. CASE libc[o]
        <5>1. \A q \in Owners \ {o} : ~Locked(q)
          BY <4>1 DEF FlagInv, OneHolder, GivesBackFirst, Locked
        <5>2. \A q \in Owners \ {o} : Unsettled(q)' => pc[q] = "idle" /\ pc'[q] = pc[q]
          BY <2>8, <5>1 DEF Restore, Locked, Unsettled, TypeOK
        <5>3. ~Unsettled(o)'
          BY <2>8 DEF Restore, Unsettled, TypeOK
        <5>4. QED
          BY <5>2, <5>3 DEF HomeInv, StartsAfterSpawn
      <4>2. CASE ~libc[o]
        BY <2>8, <4>2 DEF Restore
      <4>3. QED
        BY <4>1, <4>2
    <3>2. QED
      BY <2>8, <3>1, QuietStep DEF Restore, Places
  <2>9. ASSUME NEW o \in Owners, Kill(o) \/ CallerPolls(o) PROVE HomeInv'
    <3>1. PICK p \in {"force", "work"} : pc' = [pc EXCEPT ![o] = p]
      BY <2>9 DEF Kill, CallerPolls, TypeOK
    <3>2. pc[o] \in {"kill", "work"} /\ UNCHANGED <<linux, flag, parent>>
      BY <2>9 DEF Kill, CallerPolls
    <3>3. \A q \in Owners \ {o} : life'[q] = life[q]
      BY <2>9 DEF Kill, CallerPolls, TypeOK
    <3>4. Unsettled(o)' => \A k \in Kids : parent'[o][k] # "init"
      BY <3>2 DEF Unsettled, HomeInv, OrphansComeHome
    <3>5. CASE Started(o)
      BY <3>1, <3>2, <3>3, <3>4, <3>5, LifeStep DEF Places, Unsettled
    <3>6. CASE ~Started(o)
      <4>1. life' = life
        BY <2>9, <3>6 DEF Kill, CallerPolls, Started, Running, Members, TypeOK
      <4>2. QED
        BY <3>1, <3>2, <4>1, QuietStep DEF Places
    <3>7. QED
      BY <3>5, <3>6
  <2>10. ASSUME NEW o \in Owners, KernelStep(o) PROVE HomeInv'
    <3>1. Started(o) /\ UNCHANGED <<linux, flag, pc>>
      BY <2>10 DEF KernelStep, Ends, Ending, Forks, Running, ReapedElsewhere,
         Started, Members
    <3>2. \A q \in Owners \ {o} : life'[q] = life[q] /\ parent'[q] = parent[q]
      BY <2>10 DEF KernelStep, Ends, Forks, ReapedElsewhere, TypeOK
    <3>3. Unsettled(o) => flag /\ \A k \in Kids : parent[o][k] # "init"
      BY <3>1 DEF HomeInv, FlagIsUp, Unsettled, OrphansComeHome
    <3>4. Unsettled(o)' => \A k \in Kids : parent'[o][k] # "init"
      <4>1. SUFFICES ASSUME Unsettled(o)' PROVE \A k \in Kids : parent'[o][k] # "init"
        OBVIOUS
      <4>2. Unsettled(o) /\ Heir = "us"
        BY <3>1, <3>3, <4>1 DEF Unsettled, Heir
      <4>3. ASSUME NEW m \in Members, Ends(o, m)
            PROVE  \A k \in Kids : parent'[o][k] # "init"
        BY <3>3, <4>2, <4>3 DEF Ends, TypeOK
      <4>4. ASSUME NEW m \in Members, NEW k \in Kids, Forks(o, m, k)
            PROVE  \A j \in Kids : parent'[o][j] # "init"
        BY <3>3, <4>2, <4>4, NamesDistinct DEF Forks, TypeOK
      <4>5. QED
        BY <2>10, <3>3, <4>2, <4>3, <4>4 DEF KernelStep, ReapedElsewhere
    <3>5. pc[o] \notin {"idle", "get", "set", "spawn"}
      BY <3>1 DEF HomeInv, StartsAfterSpawn
    <3>6. pc' = [pc EXCEPT ![o] = pc[o]] /\ pc[o] \in Places
      BY <3>1 DEF TypeOK
    <3>7. QED
      BY <3>1, <3>2, <3>4, <3>5, <3>6, LifeStep DEF Unsettled
  <2>11. ASSUME NEW o \in Owners, DeadlinePasses(o) PROVE HomeInv'
    BY <2>11 DEF DeadlinePasses, HomeInv, StartsAfterSpawn, Started, FlagIsUp,
       Unsettled, OrphansComeHome
  <2>12. ASSUME NEW o \in Owners, Release(o) PROVE HomeInv'
    BY <2>12, QuietStep DEF Release, Places
  <2>13. CASE UNCHANGED vars
    BY <2>13 DEF vars, HomeInv, StartsAfterSpawn, Started, FlagIsUp, Unsettled,
       OrphansComeHome
  <2>14. QED
    BY <2>1, <2>2, <2>3, <2>4, <2>5, <2>6, <2>7, <2>8, <2>9, <2>10, <2>11, <2>12,
       <2>13
    DEF Next, OwnerStep, Finished
<1>3. QED
  BY <1>1, <1>2, TypesHold, FlagInvHolds, PTL DEF Spec, HomeInv

-----------------------------------------------------------------------------
(* Who collects the exit status of the direct process.                     *)

DirectGone(o) == life[o][Direct] = "gone"

(* A start, a signal and the kernel leave the direct process to be waited  *)
(* for: none of them collects it, for any owner.                           *)
LEMMA OthersCollectNothing ==
  ASSUME TypeOK, NEW o \in Owners, Bind(o) \/ Kill(o) \/ KernelStep(o)
  PROVE  UNCHANGED status /\ \A q \in Owners : DirectGone(q)' => DirectGone(q)
<1> USE NamesDistinct DEF DirectGone, Members, TypeOK
<1>1. UNCHANGED status
  BY DEF Bind, Kill, KernelStep, Ends, Forks, ReapedElsewhere, kernel
<1>2. ASSUME NEW q \in Owners, DirectGone(q)' PROVE DirectGone(q)
  <2>1. CASE Bind(o)
    <3>1. life' = [life EXCEPT ![o][Direct] = "alive"] \/ life' = life
      BY <2>1 DEF Bind
    <3>2. CASE life' = life  BY <1>2, <3>2
    <3>3. CASE life' = [life EXCEPT ![o][Direct] = "alive"] /\ q = o
      <4>1. life'[o][Direct] = "alive"
        BY <3>3
      <4> QED BY <1>2, <3>3, <4>1
    <3>4. CASE life' = [life EXCEPT ![o][Direct] = "alive"] /\ q # o
      BY <1>2, <3>4
    <3> QED BY <3>1, <3>2, <3>3, <3>4
  <2>2. CASE Kill(o)  BY <1>2, <2>2 DEF Kill, Running
  <2>3. CASE KernelStep(o)
    <3>1. ASSUME NEW m \in Members, Ends(o, m) PROVE DirectGone(q)
      BY <1>2, <3>1 DEF Ends
    <3>2. ASSUME NEW m \in Members, NEW k \in Kids, Forks(o, m, k) PROVE DirectGone(q)
      BY <1>2, <3>2 DEF Forks
    <3>3. ASSUME NEW k \in Kids, ReapedElsewhere(o, k) PROVE DirectGone(q)
      BY <1>2, <3>3 DEF ReapedElsewhere
    <3> QED BY <2>3, <3>1, <3>2, <3>3 DEF KernelStep
  <2> QED BY <2>1, <2>2, <2>3
<1> QED BY <1>1, <1>2

(* A reaping that takes the direct process too has polled its Popen first.  *)
LEMMA ReapingKeepsStatus ==
  ASSUME TypeOK, StatusIsKept, NEW o \in Owners, ReapGroup(o)
  PROVE  StatusIsKept'
<1>1. \A q \in Owners \ {o} : life'[q] = life[q] /\ status'[q] = status[q]
  BY DEF ReapGroup, TypeOK
<1>2. status'[o] = (status[o] \/ Direct \in Collected(o))
  BY DEF ReapGroup, TypeOK
<1>3. DirectGone(o)' => Direct \in Collected(o) \/ DirectGone(o)
  BY NamesDistinct DEF ReapGroup, Reapable, Members, TypeOK, DirectGone
<1> QED BY <1>1, <1>2, <1>3 DEF StatusIsKept, DirectGone

(* The rest of an owner's protocol does not touch the group's members.     *)
LEMMA ProtocolCollectsNothing ==
  ASSUME NEW o \in Owners,
         \/ Acquire(o) \/ GetFlag(o) \/ SetFlag(o) \/ Settle(o) \/ Look(o)
         \/ Term(o) \/ GraceOver(o) \/ ForceOver(o) \/ DeadlinePasses(o)
         \/ SettleRaises(o) \/ Restore(o) \/ Release(o) \/ CloseAgain(o)
  PROVE  UNCHANGED <<life, status>>
BY DEF Acquire, GetFlag, SetFlag, Settle, Look, Term, GraceOver, ForceOver, DeadlinePasses,
       SettleRaises, Restore, Release, CloseAgain, kernel

(* Only the Popen of the direct process ever collects its exit status,     *)
(* whatever the group's own reaping does.                                  *)
THEOREM StatusStaysKept == Spec => []StatusIsKept
<1> DEFINE Kept == TypeOK /\ StatusIsKept
<1>1. ASSUME Kept, UNCHANGED <<life, status>> PROVE StatusIsKept'
  BY <1>1 DEF StatusIsKept
<1>2. ASSUME Kept, NEW o \in Owners, CallerPolls(o) PROVE StatusIsKept'
  BY <1>2 DEF CallerPolls, StatusIsKept, TypeOK
<1>3. ASSUME Kept, NEW o \in Owners, Bind(o) \/ Kill(o) \/ KernelStep(o)
      PROVE  StatusIsKept'
  BY <1>3, OthersCollectNothing DEF StatusIsKept, DirectGone
<1>4. ASSUME Kept, Next PROVE StatusIsKept'
  <2>1. CASE Finished
    BY <1>1, <1>4, <2>1 DEF Finished, vars, kernel
  <2>2. ASSUME NEW o \in Owners,
               \/ Acquire(o) \/ OwnerStep(o) \/ DeadlinePasses(o) \/ SettleRaises(o)
               \/ CallerPolls(o) \/ CloseAgain(o) \/ KernelStep(o)
        PROVE  StatusIsKept'
    <3>1. CASE ReapGroup(o)  BY <1>4, <3>1, ReapingKeepsStatus
    <3>2. CASE CallerPolls(o) \/ Bind(o) \/ Kill(o) \/ KernelStep(o)
      BY <1>2, <1>3, <1>4, <3>2
    <3> QED BY <1>1, <1>4, <2>2, <3>1, <3>2, ProtocolCollectsNothing DEF OwnerStep
  <2> QED BY <1>4, <2>1, <2>2 DEF Next
<1>5. Kept /\ [Next]_vars => StatusIsKept'
  BY <1>1, <1>4 DEF vars, kernel
<1>6. Init => StatusIsKept  BY DEF Init, StatusIsKept, Members
<1> QED BY <1>5, <1>6, TypesHold, PTL DEF Spec
=============================================================================
