------------------------ MODULE SolutionAttemptProofs ------------------------
(***************************************************************************)
(* Theorems about SolutionAttempt, for any objects, classes, attempts and  *)
(* capsules: the reducer is closed under its own state validator, verdicts *)
(* stand, and the outcome of a launch says how far it came.                *)
(***************************************************************************)
EXTENDS SolutionAttempt, TLAPS

(* What Include does to a list.                                             *)
LEMMA IncludeFacts ==
  ASSUME NEW S, NEW s \in Seq(S), NEW v \in S
  PROVE  /\ Include(s, v) \in Seq(S)
         /\ Include(s, v) # <<>>
         /\ Elements(Include(s, v)) = Elements(s) \cup {v}
         /\ Unique(s) => Unique(Include(s, v))
         /\ Extends(s, Include(s, v))
<1>1. CASE v \in Elements(s)
  <2>1. Include(s, v) = s
    BY <1>1 DEF Include
  <2>2. s # <<>>
    BY <1>1 DEF Elements
  <2>3. Extends(s, s)
    BY DEF Extends
  <2> QED BY <1>1, <2>1, <2>2, <2>3
<1>2. CASE v \notin Elements(s)
  <2> DEFINE t == Append(s, v)
  <2>1. Include(s, v) = t
    BY <1>2 DEF Include
  <2>2. /\ t \in Seq(S) /\ t # <<>> /\ Len(s) \in Nat /\ Len(t) = Len(s) + 1
        /\ t[Len(s) + 1] = v /\ \A i \in 1..Len(s) : t[i] = s[i]
    OBVIOUS
  <2> HIDE DEF t
  <2>3. Elements(t) = Elements(s) \cup {v}
    <3>1. ASSUME NEW x \in Elements(t) PROVE x \in Elements(s) \cup {v}
      <4>1. PICK i \in 1..Len(t) : x = t[i]
        BY <3>1 DEF Elements
      <4>2. CASE i = Len(s) + 1
        BY <2>2, <4>1, <4>2
      <4>3. CASE i # Len(s) + 1
        <5>1. i \in 1..Len(s)
          BY <2>2, <4>1, <4>3
        <5> QED BY <2>2, <4>1, <5>1 DEF Elements
      <4> QED BY <4>2, <4>3
    <3>2. ASSUME NEW x \in Elements(s) PROVE x \in Elements(t)
      <4>1. PICK i \in 1..Len(s) : x = s[i]
        BY <3>2 DEF Elements
      <4>2. i \in 1..Len(t) /\ t[i] = x
        BY <2>2, <4>1
      <4> QED BY <4>2 DEF Elements
    <3>3. v \in Elements(t)
      <4>1. Len(s) + 1 \in 1..Len(t)
        BY <2>2
      <4> QED BY <2>2, <4>1 DEF Elements
    <3> QED BY <3>1, <3>2, <3>3
  <2>4. ASSUME Unique(s) PROVE Unique(t)
    <3> SUFFICES ASSUME NEW i \in 1..Len(t), NEW j \in 1..Len(t), t[i] = t[j]
                 PROVE  i = j
      BY DEF Unique
    <3>1. \A k \in 1..Len(s) : s[k] # v
      BY <1>2 DEF Elements
    <3> QED BY <2>2, <2>4, <3>1 DEF Unique
  <2>5. Extends(s, t)
    BY <2>2 DEF Extends
  <2> QED BY <2>1, <2>2, <2>3, <2>4, <2>5
<1> QED BY <1>1, <1>2

-----------------------------------------------------------------------------
(* A declared class belongs to one object (_validate_capsule), so a list of *)
(* its revised attempts concerns that object alone.                         *)
LEMMA ClassHasOneObject ==
  ASSUME CapsuleValid(capsule), NEW o \in Objects, NEW p \in Objects,
         NEW k \in capsule[o].solutionClasses, k \in capsule[p].solutionClasses
  PROVE  o = p
BY DEF CapsuleValid, ClassesDisjoint

LEMMA RevisedOfOneObject ==
  ASSUME ShapeValid, NEW o \in Objects, NEW k \in capsule[o].solutionClasses
  PROVE  /\ k \in Declared /\ k \in Classes
         /\ rejectedAttempts[k] \in Seq(Attempts) /\ Unique(rejectedAttempts[k])
         /\ \A a \in Elements(rejectedAttempts[k]) :
              a \in DOMAIN attempts /\ attempts[a].object = o /\ attempts[a].class = k
<1>1. k \in Declared /\ k \in Classes
  BY DEF ShapeValid, Declared, Declarations
<1>2. ASSUME NEW a \in Elements(rejectedAttempts[k])
      PROVE  a \in DOMAIN attempts /\ attempts[a].object = o /\ attempts[a].class = k
  <2>1. a \in DOMAIN attempts /\ attempts[a].class = k
    BY <1>1, <1>2 DEF ShapeValid, RejectedValid
  <2>2. attempts[a].object \in Objects /\ k \in capsule[attempts[a].object].solutionClasses
    BY <2>1 DEF ShapeValid, AttemptsValid, AttemptRecords
  <2> QED BY <2>1, <2>2, ClassHasOneObject DEF ShapeValid
<1> QED BY <1>1, <1>2 DEF ShapeValid, RejectedValid

(* An event that touches only the launch keeps the rest valid.              *)
LEMMA LaunchKeepsShape ==
  ASSUME ShapeValid, NEW from, NEW to, NEW outcome, LaunchTo(from, to, outcome),
         to \in LaunchStates,
         to \in {"TERMINAL", "REAPED"} => outcome \in TerminalOutcomes,
         to \notin {"TERMINAL", "REAPED"} => outcome = None
  PROVE  ShapeValid'
<1>1. UNCHANGED <<capsule, attempts, active, rejectedAttempts, reviews, rejectedClasses, frontier>>
  BY DEF LaunchTo, declared, verdicts
<1>2. /\ (CapsuleValid(capsule))' = CapsuleValid(capsule) /\ Declared' = Declared
      /\ AttemptsValid' = AttemptsValid /\ ActiveValid' = ActiveValid
      /\ RejectedValid' = RejectedValid /\ ReviewsValid' = ReviewsValid
      /\ FrontierValid' = FrontierValid
  BY <1>1 DEF CapsuleValid, ClassesDisjoint, Declared, AttemptsValid, ActiveValid, RejectedValid,
              ReviewsValid, FrontierValid
<1>3. LaunchValid'
  BY DEF LaunchTo, LaunchValid
<1> QED BY <1>1, <1>2, <1>3 DEF ShapeValid

LEMMA LaunchesKeepShape ==
  ASSUME ShapeValid,
         \/ LaunchClaimed \/ SpawnBoundary \/ LaunchStarted \/ ProcessReaped
         \/ \E from \in LaunchStates, outcome \in TerminalOutcomes : LaunchTerminal(from, outcome)
  PROVE  ShapeValid'
<1>1. CASE LaunchClaimed
  BY <1>1, LaunchKeepsShape DEF LaunchClaimed, LaunchStates
<1>2. CASE SpawnBoundary
  BY <1>2, LaunchKeepsShape DEF SpawnBoundary, LaunchStates
<1>3. CASE LaunchStarted
  BY <1>3, LaunchKeepsShape DEF LaunchStarted, LaunchStates
<1>4. CASE ProcessReaped
  <2>1. launchState = "TERMINAL"
    BY <1>4 DEF ProcessReaped, LaunchTo
  <2>2. terminalOutcome \in TerminalOutcomes
    BY <2>1 DEF ShapeValid, LaunchValid
  <2> QED BY <1>4, <2>2, LaunchKeepsShape DEF ProcessReaped, LaunchStates
<1>5. ASSUME NEW from \in LaunchStates, NEW outcome \in TerminalOutcomes, LaunchTerminal(from, outcome)
      PROVE  ShapeValid'
  BY <1>5, LaunchKeepsShape DEF LaunchTerminal, LaunchStates
<1> QED BY <1>1, <1>2, <1>3, <1>4, <1>5

LEMMA GuardKeepsShape ==
  ASSUME ShapeValid, NEW a \in Attempts, NEW g \in Guards, GuardTriggered(a, g)
  PROVE  ShapeValid'
<1>1. UNCHANGED <<capsule, attempts, active, rejectedAttempts, reviews, frontier, launchState,
                  terminalOutcome>>
  BY DEF GuardTriggered, declared, launch
<1>2. /\ (CapsuleValid(capsule))' = CapsuleValid(capsule) /\ Declared' = Declared
      /\ AttemptsValid' = AttemptsValid /\ ActiveValid' = ActiveValid
      /\ ReviewsValid' = ReviewsValid /\ FrontierValid' = FrontierValid
      /\ LaunchValid' = LaunchValid
  BY <1>1 DEF CapsuleValid, ClassesDisjoint, Declared, AttemptsValid, ActiveValid, ReviewsValid,
              FrontierValid, LaunchValid
<1>3. attempts[a].object \in Objects /\ attempts[a].class \in capsule[attempts[a].object].solutionClasses
  BY DEF GuardTriggered, ShapeValid, AttemptsValid, AttemptRecords
<1>4. attempts[a].class \in Declared /\ attempts[a].class \in Classes
  BY <1>3, RevisedOfOneObject
<1>5. RejectedValid'
  <2>1. /\ rejectedClasses' \in Seq(Classes) /\ Unique(rejectedClasses')
        /\ Elements(rejectedClasses') = Elements(rejectedClasses) \cup {attempts[a].class}
    <3>1. rejectedClasses \in Seq(Classes) /\ Unique(rejectedClasses)
      BY DEF ShapeValid, RejectedValid
    <3>2. rejectedClasses' = Include(rejectedClasses, attempts[a].class)
      BY DEF GuardTriggered
    <3> DEFINE k    == attempts[a].class
               list == Include(rejectedClasses, k)
    <3>3. k \in Classes
      BY <1>4
    <3> HIDE DEF k
    <3>4. /\ list \in Seq(Classes) /\ Unique(list)
          /\ Elements(list) = Elements(rejectedClasses) \cup {k}
      BY <3>1, <3>3, IncludeFacts
    <3>5. rejectedClasses' = list
      BY <3>2 DEF k
    <3> HIDE DEF list
    <3> QED BY <3>4, <3>5 DEF k
  <2> QED BY <1>1, <1>2, <1>4, <2>1 DEF ShapeValid, RejectedValid
<1> QED BY <1>1, <1>2, <1>5 DEF ShapeValid

LEMMA ReassessmentKeepsShape ==
  ASSUME ShapeValid, NEW o \in Objects, Reassessment(o)
  PROVE  ShapeValid'
<1>1. UNCHANGED <<capsule, attempts, active, rejectedAttempts, reviews, rejectedClasses, launchState,
                  terminalOutcome>>
  BY DEF Reassessment, declared, launch
<1>2. /\ (CapsuleValid(capsule))' = CapsuleValid(capsule) /\ Declared' = Declared
      /\ AttemptsValid' = AttemptsValid /\ ActiveValid' = ActiveValid
      /\ RejectedValid' = RejectedValid /\ ReviewsValid' = ReviewsValid
      /\ LaunchValid' = LaunchValid
  BY <1>1 DEF CapsuleValid, ClassesDisjoint, Declared, AttemptsValid, ActiveValid, RejectedValid,
              ReviewsValid, LaunchValid
<1>3. DOMAIN frontier' = DOMAIN frontier \ {o} /\ \A p \in DOMAIN frontier' : frontier'[p] = frontier[p]
  BY DEF Reassessment, Remove
<1>4. FrontierValid'
  BY <1>1, <1>3 DEF ShapeValid, FrontierValid
<1> QED BY <1>1, <1>2, <1>4 DEF ShapeValid

LEMMA AdmissionKeepsShape ==
  ASSUME ShapeValid, NEW o \in Objects, NEW c \in Classes, NEW a \in Attempts,
         NEW s \in SurfaceLists, AttemptAdmission(o, c, a, s)
  PROVE  ShapeValid'
<1> DEFINE new == [object |-> o, class |-> c, surfaces |-> s]
<1>1. UNCHANGED <<capsule, rejectedAttempts, rejectedClasses, frontier, launchState, terminalOutcome>>
  BY DEF AttemptAdmission, launch
<1>2. /\ (CapsuleValid(capsule))' = CapsuleValid(capsule) /\ Declared' = Declared
      /\ LaunchValid' = LaunchValid
  BY <1>1 DEF CapsuleValid, ClassesDisjoint, Declared, LaunchValid
<1>3. a \notin DOMAIN attempts
  BY DEF AttemptAdmission, NewAttempt
<1>4. /\ DOMAIN attempts' = DOMAIN attempts \cup {a} /\ attempts'[a] = new
      /\ \A b \in DOMAIN attempts : attempts'[b] = attempts[b]
  BY <1>3 DEF AttemptAdmission, Put
<1>5. AttemptsValid'
  <2>1. /\ new \in AttemptRecords /\ new.class \in capsule[new.object].solutionClasses
        /\ new.surfaces # <<>> /\ Unique(new.surfaces)
        /\ Elements(new.surfaces) \subseteq Elements(capsule[new.object].mutationSurfaces)
    BY SurfaceListsAreLists DEF AttemptAdmission, AttemptRecords
  <2> HIDE DEF new
  <2> QED BY <1>1, <1>3, <1>4, <2>1 DEF ShapeValid, AttemptsValid, Initial
<1>6. ActiveValid'
  BY <1>1, <1>3, <1>4 DEF AttemptAdmission, ShapeValid, ActiveValid
<1>7. RejectedValid'
  BY <1>1, <1>2, <1>4 DEF ShapeValid, RejectedValid
<1>8. ReviewsValid'
  <2>1. reviews' = Put(reviews, a, <<>>)
    BY DEF AttemptAdmission
  <2>2. /\ DOMAIN reviews' = DOMAIN reviews \cup {a} /\ reviews'[a] = <<>>
        /\ \A b \in DOMAIN reviews : b # a => reviews'[b] = reviews[b]
    BY <2>1 DEF Put
  <2>3. <<>> \in Seq(Reviews) /\ Unique(<<>>)
    BY DEF Unique
  <2> QED BY <1>4, <2>2, <2>3 DEF ShapeValid, ReviewsValid
<1>9. FrontierValid'
  BY <1>1, <1>4 DEF ShapeValid, FrontierValid
<1> QED BY <1>1, <1>2, <1>5, <1>6, <1>7, <1>8, <1>9 DEF ShapeValid

LEMMA ReviseKeepsShape ==
  ASSUME ShapeValid, NEW a \in Attempts, NEW r \in Reviews, NEW bounded \in BOOLEAN,
         ReviseBinding(a, r, bounded)
  PROVE  ShapeValid'
<1> DEFINE k == attempts[a].class
           o == attempts[a].object
           rejected == Include(rejectedAttempts[k], a)
<1>1. UNCHANGED <<capsule, attempts, active, launchState, terminalOutcome>>
  BY DEF ReviseBinding, declared, launch
<1>2. /\ (CapsuleValid(capsule))' = CapsuleValid(capsule) /\ Declared' = Declared
      /\ AttemptsValid' = AttemptsValid /\ ActiveValid' = ActiveValid
      /\ LaunchValid' = LaunchValid
  BY <1>1 DEF CapsuleValid, ClassesDisjoint, Declared, AttemptsValid, ActiveValid, LaunchValid
<1>3. a \in DOMAIN attempts /\ o \in Objects /\ k \in capsule[o].solutionClasses
  BY DEF ReviseBinding, ShapeValid, AttemptsValid, AttemptRecords
<1>4. /\ k \in Declared /\ k \in Classes
      /\ rejectedAttempts[k] \in Seq(Attempts) /\ Unique(rejectedAttempts[k])
      /\ \A b \in Elements(rejectedAttempts[k]) :
           b \in DOMAIN attempts /\ attempts[b].object = o /\ attempts[b].class = k
  BY <1>3, RevisedOfOneObject
<1>5. ReviewsValid'
  <2>1. reviews[a] \in Seq(Reviews) /\ Unique(reviews[a])
    BY <1>3 DEF ShapeValid, ReviewsValid
  <2>2. Include(reviews[a], r) \in Seq(Reviews) /\ Unique(Include(reviews[a], r))
    BY <2>1, IncludeFacts
  <2> QED BY <1>1, <2>2 DEF ReviseBinding, ShapeValid, ReviewsValid
<1>6. CASE bounded
  <2>1. /\ rejectedAttempts' = [rejectedAttempts EXCEPT ![k] = rejected]
        /\ frontier' = Put(frontier, o, rejected)
        /\ rejectedClasses' = rejectedClasses
    BY <1>6 DEF ReviseBinding
  <2>2. /\ rejected \in Seq(Attempts) /\ rejected # <<>> /\ Unique(rejected)
        /\ Elements(rejected) = Elements(rejectedAttempts[k]) \cup {a}
    BY <1>4, IncludeFacts
  <2> HIDE DEF rejected
  <2>3. \A b \in Elements(rejected) :
          b \in DOMAIN attempts /\ attempts[b].object = o /\ attempts[b].class = k
    BY <1>3, <1>4, <2>2
  <2>4. DOMAIN rejectedAttempts = Declared
    BY DEF ShapeValid, RejectedValid
  <2>5. /\ DOMAIN rejectedAttempts' = Declared /\ rejectedAttempts'[k] = rejected
        /\ \A c \in Declared : c # k => rejectedAttempts'[c] = rejectedAttempts[c]
    BY <1>4, <2>1, <2>4
  <2>6. RejectedValid'
    BY <1>1, <1>2, <2>1, <2>2, <2>3, <2>5 DEF ShapeValid, RejectedValid
  <2>7. /\ DOMAIN frontier' = DOMAIN frontier \cup {o} /\ frontier'[o] = rejected
        /\ \A p \in DOMAIN frontier : p # o => frontier'[p] = frontier[p]
    BY <2>1 DEF Put
  <2>8. FrontierValid'
    <3>1. ASSUME NEW p \in DOMAIN frontier, p # o
          PROVE  rejectedAttempts'[attempts[frontier[p][1]].class]
                   = rejectedAttempts[attempts[frontier[p][1]].class]
      <4> DEFINE first == frontier[p][1]
      <4>1. p \in Objects /\ first \in DOMAIN attempts /\ attempts[first].object = p
        BY <3>1 DEF ShapeValid, FrontierValid
      <4>2. attempts[first].class \in capsule[p].solutionClasses
        BY <4>1 DEF ShapeValid, AttemptsValid
      <4>3. attempts[first].class # k
        BY <1>3, <3>1, <4>1, <4>2, ClassHasOneObject DEF ShapeValid
      <4>4. attempts[first].class \in Declared
        BY <4>1, <4>2, RevisedOfOneObject
      <4> QED BY <2>5, <4>3, <4>4
    <3>2. \A i \in 1..Len(rejected) :
            /\ rejected[i] \in DOMAIN attempts
            /\ attempts[rejected[i]].object = o /\ attempts[rejected[i]].class = k
      BY <2>3 DEF Elements
    <3>3. 1 \in 1..Len(rejected)
      BY <2>2
    <3>4. attempts[rejected[1]].class = k
      BY <3>2, <3>3
    <3>5. SUFFICES ASSUME NEW p \in DOMAIN frontier'
                   PROVE  /\ p \in Objects
                          /\ /\ frontier'[p] \in Seq(Attempts) /\ frontier'[p] # <<>>
                             /\ Unique(frontier'[p])
                             /\ \A i \in 1..Len(frontier'[p]) :
                                  /\ frontier'[p][i] \in DOMAIN attempts
                                  /\ attempts[frontier'[p][i]].object = p
                                  /\ attempts[frontier'[p][i]].class
                                       = attempts[frontier'[p][1]].class
                             /\ frontier'[p]
                                  = rejectedAttempts'[attempts[frontier'[p][1]].class]
      BY <1>1 DEF FrontierValid
    <3>6. CASE p = o
      BY <1>3, <2>2, <2>5, <2>7, <3>2, <3>4, <3>6
    <3>7. CASE p # o
      BY <2>7, <3>1, <3>7 DEF ShapeValid, FrontierValid
    <3> QED BY <3>6, <3>7
  <2> QED BY <1>1, <1>2, <1>5, <2>6, <2>8 DEF ShapeValid
<1>7. CASE ~bounded
  <2>1. /\ rejectedClasses' = Include(rejectedClasses, k)
        /\ UNCHANGED <<rejectedAttempts, frontier>>
    BY <1>7 DEF ReviseBinding
  <2>2. rejectedClasses \in Seq(Classes) /\ Unique(rejectedClasses)
    BY DEF ShapeValid, RejectedValid
  <2>3. /\ rejectedClasses' \in Seq(Classes) /\ Unique(rejectedClasses')
        /\ Elements(rejectedClasses') = Elements(rejectedClasses) \cup {k}
    <3> DEFINE list == Include(rejectedClasses, k)
    <3>0. k \in Classes
      BY <1>4
    <3> HIDE DEF k
    <3>1. list \in Seq(Classes) /\ Unique(list) /\ Elements(list) = Elements(rejectedClasses) \cup {k}
      BY <2>2, <3>0, IncludeFacts
    <3>2. rejectedClasses' = list
      BY <2>1
    <3> HIDE DEF list
    <3> QED BY <3>1, <3>2
  <2>4. RejectedValid'
    BY <1>1, <1>2, <1>4, <2>1, <2>3 DEF ShapeValid, RejectedValid
  <2>5. FrontierValid'
    BY <1>1, <2>1 DEF ShapeValid, FrontierValid
  <2> QED BY <1>1, <1>2, <1>5, <2>4, <2>5 DEF ShapeValid
<1> QED BY <1>6, <1>7

LEMMA BootstrapShapes ==
  ASSUME head = 0 => launchState = None /\ terminalOutcome = None /\ rejectedClasses = <<>>
                     /\ frontier = <<>>,
         NEW c \in Capsules, Bootstrap(c)
  PROVE  ShapeValid'
<1> DEFINE initial     == {c[o].initialAttemptId : o \in Objects}
           objectOf(a) == CHOOSE o \in Objects : c[o].initialAttemptId = a
<1>1. /\ c \in [Objects -> Declarations] /\ CapsuleValid(c) /\ capsule' = c
      /\ launchState' = None /\ terminalOutcome' = None /\ rejectedClasses' = <<>>
      /\ frontier' = <<>>
  BY CapsulesDeclare DEF Bootstrap, launch
<1>2. /\ attempts' = [a \in initial |-> Initial(c, objectOf(a))]
      /\ active' = [o \in Objects |-> c[o].initialAttemptId]
      /\ rejectedAttempts' = [k \in UNION {c[o].solutionClasses : o \in Objects} |-> <<>>]
      /\ reviews' = [a \in initial |-> <<>>]
  BY DEF Bootstrap
<1>3. (CapsuleValid(capsule))'
  BY <1>1 DEF CapsuleValid, ClassesDisjoint
<1>4. \A o \in Objects : objectOf(c[o].initialAttemptId) = o
  BY <1>1 DEF CapsuleValid
<1>5. /\ DOMAIN attempts' = initial
      /\ \A o \in Objects : c[o].initialAttemptId \in initial
                           /\ attempts'[c[o].initialAttemptId] = Initial(c, o)
  BY <1>2, <1>4
<1>6. AttemptsValid'
  <2>1. ASSUME NEW o \in Objects
        PROVE  /\ c[o].initialAttemptId \in Attempts
               /\ Initial(c, o) \in AttemptRecords
               /\ Initial(c, o).object = o
               /\ Initial(c, o).class \in c[o].solutionClasses
               /\ Initial(c, o).surfaces = c[o].mutationSurfaces
               /\ Initial(c, o).surfaces # <<>> /\ Unique(Initial(c, o).surfaces)
    BY <1>1 DEF CapsuleValid, Initial, AttemptRecords, Declarations
  <2>2. ASSUME NEW a \in initial
        PROVE  \E o \in Objects : a = c[o].initialAttemptId
    OBVIOUS
  <2>3. \A o \in Objects : Initial(c, o) = (Initial(capsule, o))'
    BY <1>1 DEF Initial
  <2>4. ASSUME NEW a \in DOMAIN attempts'
        PROVE  LET t == attempts'[a] IN
               /\ t \in AttemptRecords
               /\ t.class \in capsule'[t.object].solutionClasses
               /\ t.surfaces # <<>> /\ Unique(t.surfaces)
               /\ Elements(t.surfaces) \subseteq Elements(capsule'[t.object].mutationSurfaces)
    <3>1. PICK o \in Objects : a = c[o].initialAttemptId
      BY <1>5, <2>2
    <3>2. attempts'[a] = Initial(c, o)
      BY <1>5, <3>1
    <3> QED BY <1>1, <2>1, <3>2
  <2>5. DOMAIN attempts' \subseteq Attempts
    BY <1>5, <2>1, <2>2
  <2>6. \A o \in Objects : /\ capsule'[o].initialAttemptId \in DOMAIN attempts'
                           /\ attempts'[capsule'[o].initialAttemptId] = (Initial(capsule, o))'
    BY <1>1, <1>5, <2>3
  <2> QED BY <2>4, <2>5, <2>6 DEF AttemptsValid
<1>7. ActiveValid'
  <2>1. DOMAIN active' = Objects
    BY <1>2
  <2>2. ASSUME NEW o \in Objects
        PROVE  active'[o] \in DOMAIN attempts' /\ attempts'[active'[o]].object = o
    <3>1. active'[o] = c[o].initialAttemptId
      BY <1>2
    <3>2. active'[o] \in DOMAIN attempts' /\ attempts'[active'[o]] = Initial(c, o)
      BY <1>5, <3>1
    <3> QED BY <3>2 DEF Initial
  <2> QED BY <2>1, <2>2 DEF ActiveValid
<1>8. <<>> \in Seq(Attempts) /\ <<>> \in Seq(Reviews) /\ <<>> \in Seq(Classes) /\ Unique(<<>>)
      /\ Elements(<<>>) = {}
  BY DEF Unique, Elements
<1>9. RejectedValid'
  BY <1>1, <1>2, <1>8 DEF RejectedValid, Declared
<1>10. ReviewsValid'
  BY <1>2, <1>5, <1>8 DEF ReviewsValid
<1>11. FrontierValid'
  BY <1>1 DEF FrontierValid
<1>12. LaunchValid'
  BY <1>1 DEF LaunchValid, LaunchStates, None
<1> QED BY <1>1, <1>3, <1>6, <1>7, <1>9, <1>10, <1>11, <1>12 DEF ShapeValid

-----------------------------------------------------------------------------
(* Before the bootstrap nothing is recorded; after it the state is valid.   *)
RecordInv ==
  /\ head \in Nat
  /\ head = 0 => launchState = None /\ terminalOutcome = None /\ rejectedClasses = <<>>
                 /\ frontier = <<>>
  /\ ClosedUnderValidation

LEMMA RecordInvInit == Init => RecordInv
BY DEF Init, RecordInv, ClosedUnderValidation

LEMMA RecordInvStep == RecordInv /\ [Next]_vars => RecordInv'
<1> SUFFICES ASSUME RecordInv, [Next]_vars PROVE RecordInv'
  OBVIOUS
<1>1. CASE UNCHANGED vars
  <2>1. /\ (CapsuleValid(capsule))' = CapsuleValid(capsule) /\ Declared' = Declared
        /\ AttemptsValid' = AttemptsValid /\ ActiveValid' = ActiveValid
        /\ ReviewsValid' = ReviewsValid /\ FrontierValid' = FrontierValid
        /\ LaunchValid' = LaunchValid
    BY <1>1 DEF vars, CapsuleValid, ClassesDisjoint, Declared, AttemptsValid, ActiveValid,
                ReviewsValid, FrontierValid, LaunchValid
  <2>2. RejectedValid' = RejectedValid
    BY <1>1, <2>1 DEF vars, RejectedValid
  <2>3. ShapeValid' = ShapeValid
    BY <1>1, <2>1, <2>2 DEF vars, ShapeValid
  <2> QED BY <1>1, <2>3 DEF vars, RecordInv, ClosedUnderValidation
<1>2. ASSUME NEW c \in Capsules, Bootstrap(c) PROVE RecordInv'
  <2>1. ShapeValid'
    BY <1>2, BootstrapShapes DEF RecordInv
  <2>2. head' = 1
    BY <1>2 DEF Bootstrap, Commit
  <2> QED BY <2>1, <2>2 DEF RecordInv, ClosedUnderValidation
<1>3. ASSUME Reducible, CommitValid, ShapeValid' PROVE RecordInv'
  <2>1. head' = head + 1 /\ head \in Nat
    BY <1>3 DEF CommitValid, Commit, RecordInv
  <2> QED BY <1>3, <2>1 DEF RecordInv, ClosedUnderValidation
<1>4. ASSUME NEW o \in Objects, NEW c \in Classes, NEW a \in Attempts, NEW s \in SurfaceLists,
             AttemptAdmission(o, c, a, s)
      PROVE  RecordInv'
  BY <1>3, <1>4, AdmissionKeepsShape DEF AttemptAdmission, CommitValid
<1>5. ASSUME NEW a \in Attempts, NEW r \in Reviews, NEW b \in BOOLEAN, ReviseBinding(a, r, b)
      PROVE  RecordInv'
  BY <1>3, <1>5, ReviseKeepsShape DEF ReviseBinding, CommitValid
<1>6. ASSUME NEW a \in Attempts, NEW g \in Guards, GuardTriggered(a, g) PROVE RecordInv'
  BY <1>3, <1>6, GuardKeepsShape DEF GuardTriggered, CommitValid
<1>7. ASSUME NEW o \in Objects, Reassessment(o) PROVE RecordInv'
  BY <1>3, <1>7, ReassessmentKeepsShape DEF Reassessment, CommitValid
<1>8. ASSUME \/ LaunchClaimed \/ SpawnBoundary \/ LaunchStarted \/ ProcessReaped
             \/ \E from \in LaunchStates, outcome \in TerminalOutcomes : LaunchTerminal(from, outcome)
      PROVE  RecordInv'
  <2>1. Reducible /\ CommitValid
    BY <1>8 DEF LaunchClaimed, SpawnBoundary, LaunchStarted, ProcessReaped, LaunchTerminal, LaunchTo
  <2>2. ShapeValid'
    BY <1>8, <2>1, LaunchesKeepShape DEF CommitValid
  <2> QED BY <1>3, <2>1, <2>2
<1> QED BY <1>1, <1>2, <1>4, <1>5, <1>6, <1>7, <1>8 DEF Next

(* The reducer never builds a state that _state_shape_valid refuses with    *)
(* the next event, for any capsules, attempts and order of events.          *)
THEOREM ReducerIsClosed == Spec => []ClosedUnderValidation
<1>1. RecordInv => ClosedUnderValidation
  BY DEF RecordInv
<1> QED BY RecordInvInit, RecordInvStep, <1>1, PTL DEF Spec

-----------------------------------------------------------------------------
(* A launch goes through its states in order, and has no outcome before the *)
(* end: with that, the outcome tells how far it came.                       *)
LaunchInv ==
  /\ launchState \in LaunchStates
  /\ launchState = None => reached = {}
  /\ launchState = "CLAIMED_NO_SPAWN" => reached = {"CLAIMED_NO_SPAWN"}
  /\ launchState = "SPAWNED_UNCONFIRMED" => reached = {"CLAIMED_NO_SPAWN", "SPAWNED_UNCONFIRMED"}
  /\ launchState = "STARTED" => reached = {"CLAIMED_NO_SPAWN", "SPAWNED_UNCONFIRMED", "STARTED"}
  /\ launchState \notin {"TERMINAL", "REAPED"} => terminalOutcome = None
  /\ OutcomeTellsHowFar

LEMMA LaunchInvInit == Init => LaunchInv
BY DEF Init, LaunchInv, LaunchStates, OutcomeTellsHowFar, None

LEMMA LaunchInvStep == LaunchInv /\ [Next]_vars => LaunchInv'
<1> SUFFICES ASSUME LaunchInv, [Next]_vars PROVE LaunchInv'
  OBVIOUS
<1> USE DEF LaunchInv, LaunchStates, None
<1>1. CASE UNCHANGED launch
  BY <1>1 DEF launch, OutcomeTellsHowFar
<1>2. CASE LaunchClaimed
  BY <1>2 DEF LaunchClaimed, LaunchTo, OutcomeTellsHowFar
<1>3. CASE SpawnBoundary
  BY <1>3 DEF SpawnBoundary, LaunchTo, OutcomeTellsHowFar
<1>4. CASE LaunchStarted
  BY <1>4 DEF LaunchStarted, LaunchTo, OutcomeTellsHowFar
<1>5. CASE ProcessReaped
  BY <1>5 DEF ProcessReaped, LaunchTo, OutcomeTellsHowFar
<1>6. ASSUME NEW from \in LaunchStates, NEW outcome \in TerminalOutcomes, LaunchTerminal(from, outcome)
      PROVE  LaunchInv'
  <2>1. /\ launchState = from /\ launchState' = "TERMINAL" /\ terminalOutcome' = outcome
        /\ reached' = reached \cup {"TERMINAL"} /\ OutcomeFits(from, outcome)
    BY <1>6 DEF LaunchTerminal, LaunchTo
  <2>2. CASE from = "CLAIMED_NO_SPAWN" /\ outcome \in PreSpawnOutcomes
    BY <2>1, <2>2, OutcomesDiffer DEF OutcomeTellsHowFar
  <2>3. CASE from = "SPAWNED_UNCONFIRMED" /\ outcome \in PreAuthOutcomes
    BY <2>1, <2>3, OutcomesDiffer DEF OutcomeTellsHowFar
  <2>4. CASE from = "STARTED" /\ outcome \in StartedOutcomes
    BY <2>1, <2>4, OutcomesDiffer DEF OutcomeTellsHowFar
  <2> QED BY <2>1, <2>2, <2>3, <2>4 DEF OutcomeFits
<1>7. ASSUME \/ \E c \in Capsules : Bootstrap(c)
             \/ \E o \in Objects, c \in Classes, a \in Attempts, s \in SurfaceLists :
                  AttemptAdmission(o, c, a, s)
             \/ \E a \in Attempts, r \in Reviews, b \in BOOLEAN : ReviseBinding(a, r, b)
             \/ \E a \in Attempts, g \in Guards : GuardTriggered(a, g)
             \/ \E o \in Objects : Reassessment(o)
      PROVE  UNCHANGED launch
  BY <1>7 DEF Bootstrap, AttemptAdmission, ReviseBinding, GuardTriggered, Reassessment
<1>8. CASE UNCHANGED vars
  BY <1>1, <1>8 DEF vars, launch
<1> QED BY <1>1, <1>2, <1>3, <1>4, <1>5, <1>6, <1>7, <1>8 DEF Next

(* The recorded outcome of a launch says how far it came, for any sets of   *)
(* outcomes that differ.                                                    *)
THEOREM OutcomeIsHonest == Spec => []OutcomeTellsHowFar
<1>1. LaunchInv => OutcomeTellsHowFar
  BY DEF LaunchInv
<1> QED BY LaunchInvInit, LaunchInvStep, <1>1, PTL DEF Spec

-----------------------------------------------------------------------------
LEMMA ExtendsItself == \A s : Len(s) \in Nat => Extends(s, s)
BY DEF Extends

(* The lists of a valid state, for the steps that leave them alone.         *)
LEMMA ListsExtendThemselves ==
  ASSUME ShapeValid
  PROVE  /\ \A a \in DOMAIN attempts : Extends(reviews[a], reviews[a])
         /\ \A c \in DOMAIN rejectedAttempts : Extends(rejectedAttempts[c], rejectedAttempts[c])
         /\ Extends(rejectedClasses, rejectedClasses)
<1>1. ASSUME NEW a \in DOMAIN attempts PROVE Extends(reviews[a], reviews[a])
  <2>1. reviews[a] \in Seq(Reviews)
    BY <1>1 DEF ShapeValid, ReviewsValid
  <2>2. Len(reviews[a]) \in Nat
    BY <2>1
  <2> QED BY <2>2, ExtendsItself
<1>2. ASSUME NEW c \in DOMAIN rejectedAttempts PROVE Extends(rejectedAttempts[c], rejectedAttempts[c])
  <2>1. rejectedAttempts[c] \in Seq(Attempts)
    BY <1>2 DEF ShapeValid, RejectedValid
  <2>2. Len(rejectedAttempts[c]) \in Nat
    BY <2>1
  <2> QED BY <2>2, ExtendsItself
<1>3. Extends(rejectedClasses, rejectedClasses)
  <2>1. rejectedClasses \in Seq(Classes)
    BY DEF ShapeValid, RejectedValid
  <2>2. Len(rejectedClasses) \in Nat
    BY <2>1
  <2> QED BY <2>2, ExtendsItself
<1> QED BY <1>1, <1>2, <1>3

LEMMA VerdictsStandStep == RecordInv /\ [Next]_vars => [head # 0 => Stands]_vars
<1> SUFFICES ASSUME RecordInv, Next, head # 0 PROVE Stands
  OBVIOUS
<1>1. ShapeValid
  BY DEF RecordInv, ClosedUnderValidation
<1>2. /\ \A a \in DOMAIN attempts : Extends(reviews[a], reviews[a])
      /\ \A c \in DOMAIN rejectedAttempts : Extends(rejectedAttempts[c], rejectedAttempts[c])
      /\ Extends(rejectedClasses, rejectedClasses)
  BY <1>1, ListsExtendThemselves
<1>3. ASSUME NEW c \in Capsules, Bootstrap(c) PROVE Stands
  BY <1>3 DEF Bootstrap
<1>4. ASSUME NEW o \in Objects, NEW c \in Classes, NEW a \in Attempts, NEW s \in SurfaceLists,
             AttemptAdmission(o, c, a, s)
      PROVE  Stands
  <2>1. /\ a \notin DOMAIN attempts /\ DOMAIN reviews = DOMAIN attempts
        /\ UNCHANGED <<capsule, rejectedAttempts, rejectedClasses, terminalOutcome>>
    BY <1>1, <1>4 DEF AttemptAdmission, NewAttempt, launch, ShapeValid, ReviewsValid
  <2>2. \A b \in DOMAIN attempts :
          b \in DOMAIN attempts' /\ attempts'[b] = attempts[b] /\ reviews'[b] = reviews[b]
    BY <1>4, <2>1 DEF AttemptAdmission, Put
  <2> QED BY <1>2, <2>1, <2>2 DEF Stands
<1>5. ASSUME NEW a \in Attempts, NEW r \in Reviews, NEW b \in BOOLEAN, ReviseBinding(a, r, b)
      PROVE  Stands
  <2> DEFINE k == attempts[a].class
  <2>1. /\ UNCHANGED <<capsule, attempts, terminalOutcome>> /\ a \in DOMAIN attempts
        /\ reviews' = [reviews EXCEPT ![a] = Include(@, r)]
    BY <1>5 DEF ReviseBinding, declared, launch
  <2>2. attempts[a].object \in Objects /\ k \in capsule[attempts[a].object].solutionClasses
    BY <1>1, <2>1 DEF ShapeValid, AttemptsValid, AttemptRecords
  <2>3. k \in Classes /\ rejectedAttempts[k] \in Seq(Attempts)
    BY <1>1, <2>2, RevisedOfOneObject
  <2>4. \A x \in DOMAIN attempts : Extends(reviews[x], reviews'[x])
    <3>1. DOMAIN reviews = DOMAIN attempts /\ reviews[a] \in Seq(Reviews)
      BY <1>1, <2>1 DEF ShapeValid, ReviewsValid
    <3>2. Extends(reviews[a], Include(reviews[a], r))
      BY <3>1, IncludeFacts
    <3> QED BY <1>2, <2>1, <3>1, <3>2
  <2>5. \A c \in DOMAIN rejectedAttempts : Extends(rejectedAttempts[c], rejectedAttempts'[c])
    <3>1. Extends(rejectedAttempts[k], Include(rejectedAttempts[k], a))
      BY <2>3, IncludeFacts
    <3>2. \/ rejectedAttempts' = rejectedAttempts
          \/ rejectedAttempts' = [rejectedAttempts EXCEPT ![k] = Include(rejectedAttempts[k], a)]
      BY <1>5 DEF ReviseBinding
    <3> QED BY <1>2, <3>1, <3>2
  <2>6. Extends(rejectedClasses, rejectedClasses')
    <3>1. rejectedClasses \in Seq(Classes)
      BY <1>1 DEF ShapeValid, RejectedValid
    <3>2. rejectedClasses' = rejectedClasses \/ rejectedClasses' = Include(rejectedClasses, k)
      BY <1>5 DEF ReviseBinding
    <3> HIDE DEF k
    <3>3. Extends(rejectedClasses, Include(rejectedClasses, k))
      BY <2>3, <3>1, IncludeFacts
    <3> QED BY <1>2, <3>2, <3>3
  <2> QED BY <2>1, <2>4, <2>5, <2>6 DEF Stands
<1>6. ASSUME NEW a \in Attempts, NEW g \in Guards, GuardTriggered(a, g) PROVE Stands
  <2> DEFINE k == attempts[a].class
  <2>1. /\ UNCHANGED <<capsule, attempts, rejectedAttempts, reviews, terminalOutcome>>
        /\ rejectedClasses' = Include(rejectedClasses, k)
    BY <1>6 DEF GuardTriggered, declared, launch
  <2>2. rejectedClasses \in Seq(Classes) /\ k \in Classes
    BY <1>1, <1>6 DEF GuardTriggered, ShapeValid, RejectedValid, AttemptsValid, AttemptRecords
  <2> HIDE DEF k
  <2>3. Extends(rejectedClasses, Include(rejectedClasses, k))
    BY <2>2, IncludeFacts
  <2> QED BY <1>2, <2>1, <2>3 DEF Stands
<1>7. ASSUME NEW o \in Objects, Reassessment(o) PROVE Stands
  BY <1>2, <1>7 DEF Reassessment, declared, launch, Stands
<1>8. ASSUME \/ LaunchClaimed \/ SpawnBoundary \/ LaunchStarted \/ ProcessReaped
             \/ \E from \in LaunchStates, outcome \in TerminalOutcomes : LaunchTerminal(from, outcome)
      PROVE  Stands
  <2>1. UNCHANGED <<capsule, attempts, rejectedAttempts, reviews, rejectedClasses>>
    BY <1>8 DEF LaunchClaimed, SpawnBoundary, LaunchStarted, ProcessReaped, LaunchTerminal, LaunchTo,
                declared, verdicts
  <2>2. terminalOutcome' = terminalOutcome \/ launchState \notin {"TERMINAL", "REAPED"}
    BY <1>8 DEF LaunchClaimed, SpawnBoundary, LaunchStarted, ProcessReaped, LaunchTerminal, LaunchTo,
                OutcomeFits, None
  <2>3. launchState \notin {"TERMINAL", "REAPED"} => terminalOutcome = None
    BY <1>1 DEF ShapeValid, LaunchValid
  <2> QED BY <1>2, <2>1, <2>2, <2>3 DEF Stands
<1> QED BY <1>3, <1>4, <1>5, <1>6, <1>7, <1>8 DEF Next

(* No event takes back an attempt, a review, a rejection or an outcome, for *)
(* any capsules, attempts and order of events.                              *)
THEOREM VerdictsAreFinal == Spec => VerdictsStand
<1> QED BY RecordInvInit, RecordInvStep, VerdictsStandStep, PTL DEF Spec, VerdictsStand

-----------------------------------------------------------------------------
(* Types: the validator's conditions, and what holds before the bootstrap   *)

TypesInv ==
  /\ RecordInv
  /\ head = 0 => attempts = <<>> /\ reviews = <<>> /\ active = <<>> /\ rejectedAttempts = <<>>
  /\ head \in 0..MaxEvents /\ reached \subseteq LaunchStates \ {None}

LEMMA EventsCount ==
  ASSUME head \in 0..MaxEvents, reached \subseteq LaunchStates \ {None}, Next
  PROVE  head' \in 1..MaxEvents /\ reached' \subseteq LaunchStates \ {None}
<1> USE EventBound DEF Reducible, Commit, CommitValid, launch
<1>1. ASSUME NEW c \in Capsules, Bootstrap(c)
      PROVE  head' \in 1..MaxEvents /\ reached' = reached
  BY <1>1 DEF Bootstrap
<1>2. ASSUME NEW o \in Objects, NEW c \in Classes, NEW a \in Attempts, NEW s \in SurfaceLists,
             AttemptAdmission(o, c, a, s)
      PROVE  head' \in 1..MaxEvents /\ reached' = reached
  BY <1>2 DEF AttemptAdmission
<1>3. ASSUME NEW a \in Attempts, NEW r \in Reviews, NEW b \in BOOLEAN, ReviseBinding(a, r, b)
      PROVE  head' \in 1..MaxEvents /\ reached' = reached
  BY <1>3 DEF ReviseBinding
<1>4. ASSUME NEW a \in Attempts, NEW g \in Guards, GuardTriggered(a, g)
      PROVE  head' \in 1..MaxEvents /\ reached' = reached
  BY <1>4 DEF GuardTriggered
<1>5. ASSUME NEW o \in Objects, Reassessment(o)
      PROVE  head' \in 1..MaxEvents /\ reached' = reached
  BY <1>5 DEF Reassessment
<1>6. ASSUME NEW from, NEW to \in LaunchStates \ {None}, NEW outcome, LaunchTo(from, to, outcome)
      PROVE  head' \in 1..MaxEvents /\ reached' \subseteq LaunchStates \ {None}
  BY <1>6 DEF LaunchTo
<1>7. {"CLAIMED_NO_SPAWN", "SPAWNED_UNCONFIRMED", "STARTED", "TERMINAL", "REAPED"}
        \subseteq LaunchStates \ {None}
  BY DEF LaunchStates, None
<1>8. CASE LaunchClaimed \/ SpawnBoundary \/ LaunchStarted \/ ProcessReaped
  BY <1>6, <1>7, <1>8 DEF LaunchClaimed, SpawnBoundary, LaunchStarted, ProcessReaped
<1>9. CASE \E from \in LaunchStates, outcome \in TerminalOutcomes : LaunchTerminal(from, outcome)
  BY <1>6, <1>7, <1>9 DEF LaunchTerminal
<1> QED BY <1>1, <1>2, <1>3, <1>4, <1>5, <1>8, <1>9 DEF Next

LEMMA TypesInvTypes == TypesInv => TypeOK
<1> SUFFICES ASSUME TypesInv PROVE TypeOK  OBVIOUS
<1>1. CASE head = 0
  <2>1. DOMAIN attempts = {} /\ DOMAIN reviews = {} /\ DOMAIN active = {}
        /\ DOMAIN rejectedAttempts = {} /\ DOMAIN frontier = {}
    BY <1>1 DEF TypesInv, RecordInv
  <2>2. rejectedClasses \in Seq(Classes)  BY <1>1 DEF TypesInv, RecordInv
  <2>3. launchState \in LaunchStates /\ terminalOutcome = None
    BY <1>1 DEF TypesInv, RecordInv, LaunchStates
  <2> QED BY <2>1, <2>2, <2>3 DEF TypesInv, TypeOK
<1>2. CASE head # 0
  <2>1. ShapeValid  BY <1>2 DEF TypesInv, RecordInv, ClosedUnderValidation
  <2>2. \A a \in DOMAIN attempts : a \in Attempts /\ attempts[a] \in AttemptRecords
    BY <2>1 DEF ShapeValid, AttemptsValid
  <2>3. \A a \in DOMAIN reviews : a \in Attempts /\ reviews[a] \in Seq(Reviews)
    BY <2>1, <2>2 DEF ShapeValid, ReviewsValid
  <2>4. \A o \in DOMAIN active : o \in Objects /\ active[o] \in Attempts
    BY <2>1, <2>2 DEF ShapeValid, ActiveValid
  <2>5. Declared \subseteq Classes  BY <2>1 DEF ShapeValid, Declared, Declarations
  <2>6. \A c \in DOMAIN rejectedAttempts : c \in Classes /\ rejectedAttempts[c] \in Seq(Attempts)
    BY <2>1, <2>5 DEF ShapeValid, RejectedValid
  <2>7. \A o \in DOMAIN frontier :
          o \in Objects /\ frontier[o] \in Seq(Attempts) /\ frontier[o] # <<>>
    BY <2>1 DEF ShapeValid, FrontierValid
  <2>8. rejectedClasses \in Seq(Classes)  BY <2>1 DEF ShapeValid, RejectedValid
  <2>9. launchState \in LaunchStates /\ terminalOutcome \in TerminalOutcomes \cup {None}
    BY <2>1 DEF ShapeValid, LaunchValid
  <2> QED BY <2>2, <2>3, <2>4, <2>6, <2>7, <2>8, <2>9 DEF TypesInv, TypeOK
<1> QED BY <1>1, <1>2

(* Every reachable state of the reducer, for any capsules, attempts and     *)
(* bound, is type correct, before the bootstrap and after.                  *)
THEOREM TypesHold == Spec => []TypeOK
<1>1. Init => TypesInv  BY RecordInvInit, EventBound DEF Init, TypesInv
<1>2. TypesInv /\ [Next]_vars => TypesInv'
  <2> SUFFICES ASSUME TypesInv, [Next]_vars PROVE TypesInv'  OBVIOUS
  <2>1. RecordInv'  BY RecordInvStep DEF TypesInv
  <2>2. CASE UNCHANGED vars  BY <2>1, <2>2 DEF TypesInv, vars
  <2>3. CASE Next
    <3>1. head' \in 1..MaxEvents /\ reached' \subseteq LaunchStates \ {None}
      BY <2>3, EventsCount DEF TypesInv
    <3> QED BY <2>1, <3>1, EventBound DEF TypesInv
  <2> QED BY <2>2, <2>3
<1> QED BY <1>1, <1>2, TypesInvTypes, PTL DEF Spec
=============================================================================
