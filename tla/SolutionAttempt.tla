--------------------------- MODULE SolutionAttempt ---------------------------
(***************************************************************************)
(* The reducer of solution-attempt V3 events                               *)
(* (src/scripts/solution_attempt/reducer.py): a bootstrap freezes the      *)
(* declared decision objects; attempts are admitted under a class of       *)
(* solutions, revised by reviews, rejected by guards, reassessed; one      *)
(* launch runs from its claim to its reap.                                 *)
(*                                                                         *)
(* One action is one event that the reducer commits. A denied event, an    *)
(* exact replay, a conflicting or a stale one returns the state unchanged  *)
(* and is no step. Operation ids and fingerprints are drawn fresh: the     *)
(* operation committed n-th has number n, and head is the last one's.      *)
(***************************************************************************)
EXTENDS Naturals, Sequences

CONSTANTS
  Objects, Classes, Attempts, Reviews, Guards,   \* identifiers
  Surfaces,           \* mutation surfaces
  SurfaceLists,       \* lists of surfaces an event may carry
  Capsules,           \* capsules a bootstrap may carry: object -> declaration
  PreSpawnOutcomes, PreAuthOutcomes, StartedOutcomes,
  MaxEvents           \* bound on the events committed

None == "none"
TerminalOutcomes == PreSpawnOutcomes \cup PreAuthOutcomes \cup StartedOutcomes

Declarations ==
  [solutionClasses : SUBSET Classes, initialClassId : Classes, initialAttemptId : Attempts,
   mutationSurfaces : Seq(Surfaces), guardIds : SUBSET Guards]

ASSUME CapsulesDeclare == Capsules \subseteq [Objects -> Declarations]
ASSUME SurfaceListsAreLists == SurfaceLists \subseteq Seq(Surfaces)
ASSUME NoneIsNoOutcome == None \notin TerminalOutcomes
ASSUME OutcomesDiffer ==
  /\ PreSpawnOutcomes \cap PreAuthOutcomes = {}
  /\ PreSpawnOutcomes \cap StartedOutcomes = {}
  /\ PreAuthOutcomes \cap StartedOutcomes = {}
ASSUME EventBound == MaxEvents \in Nat

VARIABLES
  head,              \* number of the last committed operation; 0: no state yet
  capsule,           \* the declarations, also "objects"; <<>> before the bootstrap
  attempts,          \* attempt -> [object, class, surfaces]
  active,            \* activeAttemptByObject
  rejectedAttempts,  \* class -> its revised attempts, oldest first
  reviews,           \* attempt -> its review runs
  rejectedClasses,   \* a list
  frontier,          \* reassessmentFrontier: object -> revised attempts
  launchState, terminalOutcome,
  reached            \* history: the launch states that were reached

declared  == <<capsule, attempts, active>>
verdicts  == <<rejectedAttempts, reviews, rejectedClasses, frontier>>
launch    == <<launchState, terminalOutcome, reached>>
vars      == <<head, capsule, attempts, active, rejectedAttempts, reviews, rejectedClasses, frontier,
               launchState, terminalOutcome, reached>>

LaunchStates == {None, "CLAIMED_NO_SPAWN", "SPAWNED_UNCONFIRMED", "STARTED", "TERMINAL", "REAPED"}

AttemptRecords == [object : Objects, class : Classes, surfaces : Seq(Surfaces)]

Elements(s) == {s[i] : i \in 1..Len(s)}

Unique(s) == \A i, j \in 1..Len(s) : s[i] = s[j] => i = j

Put(f, k, v) == [x \in DOMAIN f \cup {k} |-> IF x = k THEN v ELSE f[x]]

Remove(f, k) == [x \in DOMAIN f \ {k} |-> f[x]]

AppendAlways(s, v) == Append(s, v)          \* mutant of Include

(* Append v unless it is in the list.                                       *)
Include(s, v) == IF v \in Elements(s) THEN s ELSE Append(s, v)

-----------------------------------------------------------------------------
(* _validate_capsule.                                                       *)
ClassesMayOverlap(c) == TRUE                \* mutant of ClassesDisjoint

ClassesDisjoint(c) ==
  \A o, p \in Objects : o # p => c[o].solutionClasses \cap c[p].solutionClasses = {}

CapsuleValid(c) ==
  /\ ClassesDisjoint(c)
  /\ \A o, p \in Objects : o # p =>
       /\ c[o].initialAttemptId # c[p].initialAttemptId
       /\ Elements(c[o].mutationSurfaces) \cap Elements(c[p].mutationSurfaces) = {}
  /\ \A o \in Objects :
       /\ c[o].initialClassId \in c[o].solutionClasses
       /\ c[o].mutationSurfaces # <<>> /\ Unique(c[o].mutationSurfaces)
       /\ c[o].guardIds # {}

Declared == UNION {capsule[o].solutionClasses : o \in Objects}

Initial(c, o) == [object |-> o, class |-> c[o].initialClassId, surfaces |-> c[o].mutationSurfaces]

(* _state_shape_valid, part by part.                                        *)
AttemptsValid ==
  /\ DOMAIN attempts \subseteq Attempts
  /\ \A a \in DOMAIN attempts :
       LET t == attempts[a] IN
       /\ t \in AttemptRecords
       /\ t.class \in capsule[t.object].solutionClasses
       /\ t.surfaces # <<>> /\ Unique(t.surfaces)
       /\ Elements(t.surfaces) \subseteq Elements(capsule[t.object].mutationSurfaces)
  /\ \A o \in Objects : /\ capsule[o].initialAttemptId \in DOMAIN attempts
                        /\ attempts[capsule[o].initialAttemptId] = Initial(capsule, o)

ActiveValid ==
  /\ DOMAIN active = Objects
  /\ \A o \in Objects : active[o] \in DOMAIN attempts /\ attempts[active[o]].object = o

RejectedValid ==
  /\ DOMAIN rejectedAttempts = Declared
  /\ \A c \in Declared :
       /\ rejectedAttempts[c] \in Seq(Attempts) /\ Unique(rejectedAttempts[c])
       /\ \A a \in Elements(rejectedAttempts[c]) : a \in DOMAIN attempts /\ attempts[a].class = c
  /\ rejectedClasses \in Seq(Classes) /\ Unique(rejectedClasses)
  /\ Elements(rejectedClasses) \subseteq Declared

ReviewsValid ==
  /\ DOMAIN reviews = DOMAIN attempts
  /\ \A a \in DOMAIN reviews : reviews[a] \in Seq(Reviews) /\ Unique(reviews[a])

FrontierValid ==
  /\ DOMAIN frontier \subseteq Objects
  /\ \A o \in DOMAIN frontier :
       /\ frontier[o] \in Seq(Attempts) /\ frontier[o] # <<>> /\ Unique(frontier[o])
       /\ \A i \in 1..Len(frontier[o]) :
            /\ frontier[o][i] \in DOMAIN attempts
            /\ attempts[frontier[o][i]].object = o
            /\ attempts[frontier[o][i]].class = attempts[frontier[o][1]].class
       /\ frontier[o] = rejectedAttempts[attempts[frontier[o][1]].class]

LaunchValid ==
  /\ launchState \in LaunchStates
  /\ IF launchState \in {"TERMINAL", "REAPED"} THEN terminalOutcome \in TerminalOutcomes
                                              ELSE terminalOutcome = None

ShapeValid ==
  /\ capsule \in [Objects -> Declarations] /\ CapsuleValid(capsule)
  /\ AttemptsValid /\ ActiveValid /\ RejectedValid /\ ReviewsValid /\ FrontierValid
  /\ LaunchValid

-----------------------------------------------------------------------------
Init ==
  /\ head = 0 /\ capsule = <<>> /\ attempts = <<>> /\ active = <<>>
  /\ rejectedAttempts = <<>> /\ reviews = <<>> /\ rejectedClasses = <<>> /\ frontier = <<>>
  /\ launchState = None /\ terminalOutcome = None /\ reached = {}

(* reduce_solution_attempt: every event but the bootstrap needs a state, a  *)
(* valid one (here last in each action, which is the same), and _commit     *)
(* moves the head.                                                          *)
Reducible == head \in 1..MaxEvents - 1

Commit == head' = head + 1

CommitValid == ShapeValid /\ Commit

(* solution-bootstrap: decode_capsule and _bootstrap_state.                 *)
Bootstrap(c) ==
  LET initial == {c[o].initialAttemptId : o \in Objects}
      objectOf(a) == CHOOSE o \in Objects : c[o].initialAttemptId = a
  IN
  /\ head = 0 /\ MaxEvents > 0 /\ Commit
  /\ CapsuleValid(c)
  /\ capsule' = c
  /\ attempts' = [a \in initial |-> Initial(c, objectOf(a))]
  /\ active' = [o \in Objects |-> c[o].initialAttemptId]
  /\ rejectedAttempts' = [k \in UNION {c[o].solutionClasses : o \in Objects} |-> <<>>]
  /\ reviews' = [a \in initial |-> <<>>]
  /\ UNCHANGED <<rejectedClasses, frontier, launch>>

(* The attempts of an object that a review has sent back.                   *)
Revised(o) ==
  {a \in DOMAIN attempts : /\ attempts[a].object = o
                           /\ \E c \in Declared : a \in Elements(rejectedAttempts[c])}

(* _attempt_admission: SOL-E003 and SOL-E004.                               *)
ClassOpen(c) == c \notin Elements(rejectedClasses)

SameDesign(o, c, s) ==
  \A a \in Revised(o) : attempts[a].class = c /\ attempts[a].surfaces = s

NeedsNoReassessment(o, c, s) == Len(rejectedAttempts[c]) < 2 /\ SameDesign(o, c, s)

AnyAttempt(a) == a \in Attempts             \* mutant of NewAttempt

NewAttempt(a) == a \in Attempts \ DOMAIN attempts

AttemptAdmission(o, c, a, s) ==
  /\ Reducible
  /\ c \in capsule[o].solutionClasses
  /\ s # <<>> /\ Unique(s) /\ Elements(s) \subseteq Elements(capsule[o].mutationSurfaces)
  /\ NewAttempt(a)
  /\ ClassOpen(c) /\ NeedsNoReassessment(o, c, s)
  /\ attempts' = Put(attempts, a, [object |-> o, class |-> c, surfaces |-> s])
  /\ active' = [active EXCEPT ![o] = a]
  /\ reviews' = Put(reviews, a, <<>>)
  /\ UNCHANGED <<capsule, rejectedAttempts, rejectedClasses, frontier, launch>>
  /\ CommitValid

(* _revise_binding: a bounded correction, or the class is rejected.         *)
ReviseBinding(a, r, bounded) ==
  /\ Reducible
  /\ a \in DOMAIN attempts
  /\ reviews' = [reviews EXCEPT ![a] = Include(@, r)]
  /\ LET c == attempts[a].class
         rejected == Include(rejectedAttempts[c], a)
     IN \/ /\ ~bounded
           /\ rejectedClasses' = Include(rejectedClasses, c)
           /\ UNCHANGED <<rejectedAttempts, frontier>>
        \/ /\ bounded
           /\ rejectedAttempts' = [rejectedAttempts EXCEPT ![c] = rejected]
           /\ frontier' = Put(frontier, attempts[a].object, rejected)
           /\ UNCHANGED rejectedClasses
  /\ UNCHANGED <<declared, launch>>
  /\ CommitValid

GuardTriggered(a, g) ==
  /\ Reducible
  /\ a \in DOMAIN attempts /\ g \in capsule[attempts[a].object].guardIds
  /\ rejectedClasses' = Include(rejectedClasses, attempts[a].class)
  /\ UNCHANGED <<declared, rejectedAttempts, reviews, frontier, launch>>
  /\ CommitValid

(* _reassessment: the receipt must name the frontier.                       *)
Reassessment(o) ==
  /\ Reducible
  /\ o \in DOMAIN frontier
  /\ frontier' = Remove(frontier, o)
  /\ UNCHANGED <<declared, rejectedAttempts, reviews, rejectedClasses, launch>>
  /\ CommitValid

(* _launch_transition.                                                      *)
LaunchTo(from, to, outcome) ==
  /\ Reducible
  /\ launchState = from /\ launchState' = to
  /\ terminalOutcome' = outcome
  /\ reached' = reached \cup {to}
  /\ UNCHANGED <<declared, verdicts>>
  /\ CommitValid

LaunchClaimed  == LaunchTo(None, "CLAIMED_NO_SPAWN", None)
SpawnBoundary  == LaunchTo("CLAIMED_NO_SPAWN", "SPAWNED_UNCONFIRMED", None)
LaunchStarted  == LaunchTo("SPAWNED_UNCONFIRMED", "STARTED", None)
ProcessReaped  == LaunchTo("TERMINAL", "REAPED", terminalOutcome)

AnyOutcomeFits(from, outcome) == outcome \in TerminalOutcomes   \* mutant of OutcomeFits

OutcomeFits(from, outcome) ==
  \/ from = "CLAIMED_NO_SPAWN" /\ outcome \in PreSpawnOutcomes
  \/ from = "SPAWNED_UNCONFIRMED" /\ outcome \in PreAuthOutcomes
  \/ from = "STARTED" /\ outcome \in StartedOutcomes

LaunchTerminal(from, outcome) == OutcomeFits(from, outcome) /\ LaunchTo(from, "TERMINAL", outcome)

Next ==
  \/ \E c \in Capsules : Bootstrap(c)
  \/ \E o \in Objects, c \in Classes, a \in Attempts, s \in SurfaceLists :
       AttemptAdmission(o, c, a, s)
  \/ \E a \in Attempts :
       \/ \E r \in Reviews, b \in BOOLEAN : ReviseBinding(a, r, b)
       \/ \E g \in Guards : GuardTriggered(a, g)
  \/ \E o \in Objects : Reassessment(o)
  \/ LaunchClaimed \/ SpawnBoundary \/ LaunchStarted \/ ProcessReaped
  \/ \E from \in LaunchStates, outcome \in TerminalOutcomes : LaunchTerminal(from, outcome)

Spec == Init /\ [][Next]_vars

-----------------------------------------------------------------------------
(* Types of the state (_STATE_KEYS); before the bootstrap there is none.    *)
TypeOK ==
  /\ head \in 0..MaxEvents
  /\ launchState \in LaunchStates /\ terminalOutcome \in TerminalOutcomes \cup {None}
  /\ reached \subseteq LaunchStates \ {None}
  /\ \A a \in DOMAIN attempts : a \in Attempts /\ attempts[a] \in AttemptRecords
  /\ \A a \in DOMAIN reviews : a \in Attempts /\ reviews[a] \in Seq(Reviews)
  /\ \A o \in DOMAIN active : o \in Objects /\ active[o] \in Attempts
  /\ \A c \in DOMAIN rejectedAttempts : c \in Classes /\ rejectedAttempts[c] \in Seq(Attempts)
  /\ \A o \in DOMAIN frontier :
       o \in Objects /\ frontier[o] \in Seq(Attempts) /\ frontier[o] # <<>>
  /\ rejectedClasses \in Seq(Classes)

(* The reducer never builds a state that its own validator                  *)
(* (_state_shape_valid) refuses with the next event: such a state would     *)
(* deny every later event, and the log would have ended for good.           *)
ClosedUnderValidation == head # 0 => ShapeValid

(* The outcome says how far the launch came: one of _STARTED_OUTCOMES if    *)
(* and only if it was started, one of _PRE_SPAWN_OUTCOMES only if nothing   *)
(* was spawned, whatever events came between and after.                     *)
OutcomeTellsHowFar ==
  terminalOutcome # None =>
    /\ terminalOutcome \in StartedOutcomes <=> "STARTED" \in reached
    /\ terminalOutcome \in PreSpawnOutcomes => "SPAWNED_UNCONFIRMED" \notin reached
    /\ terminalOutcome \in PreAuthOutcomes => "SPAWNED_UNCONFIRMED" \in reached

Extends(s, t) == Len(s) <= Len(t) /\ \A i \in 1..Len(s) : s[i] = t[i]

(* What an event leaves standing of the verdicts before it.                 *)
Stands ==
  /\ capsule' = capsule
  /\ \A a \in DOMAIN attempts :
       /\ a \in DOMAIN attempts' /\ attempts'[a] = attempts[a]
       /\ Extends(reviews[a], reviews'[a])
  /\ \A c \in DOMAIN rejectedAttempts : Extends(rejectedAttempts[c], rejectedAttempts'[c])
  /\ Extends(rejectedClasses, rejectedClasses')
  /\ terminalOutcome # None => terminalOutcome' = terminalOutcome

(* Verdicts are final: no later event (an admission under an attempt id     *)
(* already used, a second review, a reassessment) takes back an attempt, a  *)
(* review, a rejection or an outcome, or changes what an attempt was        *)
(* admitted for.                                                            *)
VerdictsStand == [][head # 0 => Stands]_vars
=============================================================================
