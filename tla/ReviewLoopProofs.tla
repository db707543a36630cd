-------------------------- MODULE ReviewLoopProofs --------------------------
(***************************************************************************)
(* What the record of a review loop keeps, whatever commands arrive in     *)
(* whatever order: proofs for every set of lanes, every cap and every      *)
(* result.                                                                 *)
(*                                                                         *)
(* The argument. In every round a lane is either retained, with nothing of *)
(* its own, or stands in a chain: the attempts before the current one all  *)
(* failed and each names its successor, and only the current one may have  *)
(* failed unretried, in which case it has no result (LaneSound). Every     *)
(* round but the last is complete (InOrder), so only the last one is       *)
(* written. A lane has been worked on in some round, the origin of its     *)
(* effective block (Based). The outcomes recorded are those the rounds     *)
(* show (Told). With these the record is one validate_v2 accepts           *)
(* (Accepted), so that the check of _atomic_write never refuses a command  *)
(* that passed its own.                                                    *)
(***************************************************************************)
EXTENDS ReviewLoop, FiniteSetTheorems, SequenceTheorems, TLAPS

(* The failure of attempt k of lane l, retried by the next one.            *)
Edge(l, k) == [lane |-> l, attempt |-> k, next |-> k + 1]

(* The chain of attempts of lane l, whose block is b, in the failures fs.  *)
Chained(fs, l, b) ==
  /\ \A k \in 1..(b.attempt - 1) : Edge(l, k) \in fs
  /\ \A f \in fs : f.lane = l =>
       \/ f.attempt < b.attempt /\ f = Edge(l, f.attempt)
       \/ f.attempt = b.attempt /\ f.next = 0 /\ b.state # "complete"

LaneSound(r, l) ==
  LET b == r.lanes[l] IN
  IF l \in r.affected
    THEN /\ b.state # "retained" /\ b.attempt \in Attempts
         /\ b.result \in (IF b.state = "complete" THEN ResultsOf(l) ELSE {NoResult})
         /\ r.phase = "complete" => b.state = "complete"
         /\ Chained(r.failures, l, b)
    ELSE b = Retained /\ \A f \in r.failures : f.lane # l

Shaped ==
  /\ status \in {"running"} \cup Outcomes
  /\ rounds \in Seq(Round) /\ Len(rounds) \in 1..RoundCap
  /\ amended \in Seq(Seq(Amendments)) /\ Len(amended) = Len(rounds)
  /\ commands \in Seq(SUBSET Commands) /\ Len(commands) = Len(rounds)

RoundsSound == \A i \in 1..Latest, l \in Lanes : LaneSound(rounds[i], l)

InOrder == \A i \in 1..(Latest - 1) : rounds[i].phase = "complete"

(* j is the origin of the block of lane l that is effective in round i.    *)
IsOrigin(rs, i, l, j) ==
  /\ j \in 1..i /\ rs[j].lanes[l].state # "retained"
  /\ \A k \in (j + 1)..i : rs[k].lanes[l].state = "retained"

Based == \A i \in 1..Latest, l \in Lanes : \E j \in 1..i : IsOrigin(rounds, i, l, j)

Accepted == Valid(rounds, amended)

OutcomeRecords == [round : 1..RoundCap, lane : Lanes, attempt : Attempts,
                   failed : BOOLEAN, result : Results]

Success(i, l, b) == [round |-> i, lane |-> l, attempt |-> b.attempt,
                     failed |-> FALSE, result |-> b.result]

Told ==
  /\ outcomes \subseteq OutcomeRecords
  /\ \A o \in outcomes :
       /\ o.round \in 1..Latest
       /\ o.failed => o.result = NoResult /\ HasFailed(o.round, o.lane, o.attempt)
       /\ ~o.failed => LET b == rounds[o.round].lanes[o.lane] IN
                       b.state = "complete" /\ o = Success(o.round, o.lane, b)
  /\ \A i \in 1..Latest, l \in Lanes :
       rounds[i].lanes[l].state = "complete" => Success(i, l, rounds[i].lanes[l]) \in outcomes

Earned ==
  /\ status = "converged" => AllPass(Latest) /\ ScoutReconciled(rounds, amended, Latest)
  /\ status \in {"drift", "deadlock"} =>
       SomeRevise(Latest) \/ \A o \in outcomes : o.round # Latest

IInv == Shaped /\ RoundsSound /\ InOrder /\ Based /\ Accepted /\ Told /\ Earned /\ OwnChecksSuffice

-----------------------------------------------------------------------------
(* Lemmas on the record *)

LEMMA RoundParts ==
  ASSUME NEW r \in Round
  PROVE  /\ r.phase \in {"admitted", "collecting", "complete"} /\ r.revision \in Revisions
         /\ r.affected \subseteq Lanes /\ r.affected # {}
         /\ r.lanes \in [Lanes -> Blocks] /\ r.failures \subseteq Failures
BY DEF Round

LEMMA FailureParts ==
  \A f \in Failures : f.lane \in Lanes /\ f.attempt \in Attempts /\ f.next \in Attempts \cup {0}
                      /\ f = [lane |-> f.lane, attempt |-> f.attempt, next |-> f.next]
BY DEF Failures

LEMMA AttemptsAreNumbers == Attempts \subseteq Nat \ {0} /\ 1 \in Attempts
BY CapsAreNumbers DEF Attempts

LEMMA SetLaneParts ==
  ASSUME NEW i, rounds[i] \in Round,
         NEW l \in Lanes, NEW b \in Blocks, NEW fs \in SUBSET Failures
  PROVE  LET s == SetLane(i, l, b, fs)
         IN  /\ s \in Round /\ s.phase = "collecting" /\ s.affected = rounds[i].affected
             /\ s.lanes = [rounds[i].lanes EXCEPT ![l] = b] /\ s.failures = fs
BY DEF Round, SetLane

(* A chain of n attempts has n - 1 edges.                                   *)
LEMMA EdgesCounted ==
  ASSUME NEW r, NEW l \in Lanes, r.failures \subseteq Failures,
         NEW n \in Attempts, r.lanes[l].attempt = n, Chained(r.failures, l, r.lanes[l])
  PROVE  /\ Edges(r, l) = {Edge(l, k) : k \in 1..(n - 1)}
         /\ Cardinality(Edges(r, l)) = n - 1
<1> DEFINE E == Edges(r, l)
           g == [k \in 1..(n - 1) |-> Edge(l, k)]
<1>0. n \in Nat \ {0} /\ n - 1 \in Nat  BY AttemptsAreNumbers
<1>1. ASSUME NEW k \in 1..(n - 1) PROVE Edge(l, k) \in E
  BY <1>0 DEF Chained, Edges, Edge
<1>2. ASSUME NEW f \in E PROVE \E k \in 1..(n - 1) : f = Edge(l, k)
  <2>1. f \in r.failures /\ f.lane = l /\ f.next # 0  BY DEF Edges
  <2>2. f.attempt \in Nat \ {0}  BY <2>1, FailureParts, AttemptsAreNumbers
  <2>3. f.attempt < n /\ f = Edge(l, f.attempt)  BY <2>1 DEF Chained
  <2> QED BY <1>0, <2>2, <2>3
<1>3. E = {Edge(l, k) : k \in 1..(n - 1)}  BY <1>1, <1>2
<1>4. g \in Bijection(1..(n - 1), E)
  <2>1. g \in [1..(n - 1) -> E]  BY <1>1
  <2>2. \A k, m \in 1..(n - 1) : g[k] = g[m] => k = m
    <3>1. \A k, m \in 1..(n - 1) : Edge(l, k) = Edge(l, m) => k = m
      BY DEF Edge
    <3> QED BY <3>1
  <2>3. \A f \in E : \E k \in 1..(n - 1) : g[k] = f  BY <1>2
  <2> QED BY <2>1, <2>2, <2>3 DEF Bijection, Injection, Surjection, IsInjective
<1>5. ExistsBijection(1..(n - 1), E)  BY <1>4 DEF ExistsBijection
<1> QED BY <1>0, <1>3, <1>5, FS_CountingElements

(* validate_v2 has nothing to say of such a chain.                          *)
LEMMA SoundChainHasNoErrors ==
  ASSUME NEW r \in Round, NEW l \in r.affected, LaneSound(r, l)
  PROVE  ~ChainErrors(r, l)
<1> DEFINE n == r.lanes[l].attempt
           E == Edges(r, l)
           fails == {f \in r.failures : f.lane = l}
           nodes == {n} \cup {f.attempt : f \in fails} \cup {f.next : f \in E}
<1>0. l \in Lanes /\ r.failures \subseteq Failures  BY RoundParts
<1>1. n \in Attempts /\ Chained(r.failures, l, r.lanes[l])
      /\ (r.phase = "complete" => r.lanes[l].state = "complete")
  BY DEF LaneSound
<1>2. n \in Nat \ {0} /\ n - 1 <= RetryCap  BY <1>1, CapsAreNumbers DEF Attempts
<1>3. E = {Edge(l, k) : k \in 1..(n - 1)} /\ Cardinality(E) = n - 1
  BY <1>0, <1>1, EdgesCounted
<1>4. \A f \in E : \E k \in 1..(n - 1) : f = Edge(l, k) /\ f.attempt = k /\ f.next = k + 1
  BY <1>3 DEF Edge
<1>5. ASSUME NEW f \in fails PROVE f.attempt \in 1..n
  <2>1. f.attempt \in Nat \ {0}  BY <1>0, FailureParts, AttemptsAreNumbers
  <2> QED BY <1>1, <1>2, <2>1 DEF Chained
<1>6. ASSUME NEW f \in fails, f.next = 0 PROVE f.attempt = n /\ r.phase # "complete"
  <2>1. f.attempt < n => f.next = f.attempt + 1 /\ f.attempt + 1 # 0
    BY <1>1, <1>5, <1>2 DEF Chained, Edge
  <2> QED BY <1>1, <1>6, <2>1 DEF Chained
<1>7. \A f, g \in E : f # g => f.attempt # g.attempt /\ f.next # g.next
  BY <1>2, <1>4
<1>8. nodes \subseteq 1..n
  <2>1. \A f \in E : f.next \in 1..n  BY <1>2, <1>4
  <2> QED BY <1>2, <1>5, <2>1
<1>9. \A k \in 1..(n - 1) : Edge(l, k) \in E /\ Edge(l, k).attempt = k /\ Edge(l, k).next = k + 1
  BY <1>3 DEF Edge
<1>10. {m \in nodes : \A f \in E : f.attempt # m} = {n}
  <2>1. \A f \in E : f.attempt # n  BY <1>2, <1>4
  <2>2. ASSUME NEW m \in nodes, m # n PROVE \E f \in E : f.attempt = m
    <3>1. m \in 1..n  BY <1>8
    <3>2. m \in 1..(n - 1)  BY <1>2, <2>2, <3>1
    <3>3. Edge(l, m) \in E /\ Edge(l, m).attempt = m  BY <1>9, <3>2
    <3> QED BY <3>3
  <2> QED BY <2>1, <2>2
<1>11. {m \in nodes : \A f \in E : f.next # m} = {1}
  <2>1. 1 \in nodes
    <3>1. CASE n = 1  BY <3>1
    <3>2. CASE n # 1
      <4>1. 1 \in 1..(n - 1)  BY <1>2, <3>2
      <4>2. Edge(l, 1) \in fails /\ Edge(l, 1).attempt = 1  BY <1>9, <4>1 DEF Edges
      <4> QED BY <4>2
    <3> QED BY <3>1, <3>2
  <2>2. \A f \in E : f.next # 1  BY <1>2, <1>4
  <2>3. ASSUME NEW m \in nodes, m # 1 PROVE \E f \in E : f.next = m
    <3>1. m \in 1..n  BY <1>8
    <3>2. m - 1 \in 1..(n - 1) /\ (m - 1) + 1 = m  BY <1>2, <2>3, <3>1
    <3>3. Edge(l, m - 1) \in E /\ Edge(l, m - 1).next = m  BY <1>9, <3>2
    <3> QED BY <3>3
  <2> QED BY <2>1, <2>2, <2>3
<1>12. Cardinality({m \in nodes : \A f \in E : f.next # m}) = 1
  BY <1>11, FS_Singleton
<1>13. ~(Cardinality(E) > RetryCap)  BY <1>2, <1>3, CapsAreNumbers
<1> QED BY <1>6, <1>7, <1>10, <1>12, <1>13 DEF ChainErrors

(* The origin of an effective block.                                        *)
LEMMA OriginIs ==
  ASSUME NEW rs, NEW i \in Nat, NEW l, NEW j, IsOrigin(rs, i, l, j)
  PROVE  Origin(rs, i, l) = j
<1> DEFINE P(m) == /\ rs[m].lanes[l].state # "retained"
                   /\ \A k \in (m + 1)..i : rs[k].lanes[l].state = "retained"
<1>1. Origin(rs, i, l) = CHOOSE m \in 1..i : P(m)  BY DEF Origin
<1>2. j \in 1..i /\ P(j)  BY DEF IsOrigin
<1>3. ASSUME NEW m \in 1..i, P(m) PROVE m = j
  <2>1. CASE m < j  BY <1>2, <1>3, <2>1
  <2>2. CASE j < m  BY <1>2, <1>3, <2>2
  <2> QED BY <1>2, <2>1, <2>2
<1> HIDE DEF P
<1>4. (CHOOSE m \in 1..i : P(m)) \in 1..i /\ P(CHOOSE m \in 1..i : P(m))
  BY <1>2
<1> QED BY <1>1, <1>3, <1>4

LEMMA OriginAgrees ==
  ASSUME NEW rs, NEW ss, NEW i \in Nat, NEW l, NEW j, IsOrigin(rs, i, l, j),
         \A k \in 1..i : ss[k].lanes[l].state = "retained" <=> rs[k].lanes[l].state = "retained"
  PROVE  IsOrigin(ss, i, l, j) /\ Origin(rs, i, l) = j /\ Origin(ss, i, l) = j
<1>1. IsOrigin(ss, i, l, j)  BY DEF IsOrigin
<1> QED BY <1>1, OriginIs

LEMMA OriginOfOwn ==
  ASSUME NEW rs, NEW i \in Nat \ {0}, NEW l, rs[i].lanes[l].state # "retained"
  PROVE  IsOrigin(rs, i, l, i) /\ Origin(rs, i, l) = i /\ EffectiveLane(rs, i, l) = rs[i].lanes[l]
<1>1. IsOrigin(rs, i, l, i)  BY DEF IsOrigin
<1> QED BY <1>1, OriginIs DEF EffectiveLane

(* What is read of a record up to round i is the same in another that       *)
(* agrees with it so far.                                                   *)
LEMMA PrefixReads ==
  ASSUME NEW rs, NEW ss, NEW am, NEW i \in Nat, \A k \in 1..i : ss[k] = rs[k],
         NEW l, NEW j, IsOrigin(rs, i, l, j)
  PROVE  /\ EffectiveLane(ss, i, l) = EffectiveLane(rs, i, l)
         /\ l = Scout => ScoutReconciled(ss, am, i) = ScoutReconciled(rs, am, i)
<1>0. \A k \in 1..i : ss[k].lanes[l].state = "retained" <=> rs[k].lanes[l].state = "retained"
  OBVIOUS
<1>1. Origin(rs, i, l) = j /\ Origin(ss, i, l) = j
  BY <1>0, OriginAgrees
<1>2. j \in 1..i
  BY DEF IsOrigin
<1> QED BY <1>1, <1>2 DEF EffectiveLane, ScoutReconciled

-----------------------------------------------------------------------------
(* Lemmas on a write to the last round                                      *)

Rewritten(r) == [rounds EXCEPT ![Latest] = r]

(* What every command that writes the last round keeps of it: the lanes it  *)
(* affects, sound and with the fields of their results.                     *)
Rewrites(r) ==
  /\ r \in Round /\ r.affected = rounds[Latest].affected
  /\ \A l \in Lanes : LaneSound(r, l)

ValidRound(rs, am, i) ==
  /\ ~AmendmentErrors(rs, am, i)
  /\ rs[i].phase = "complete" =>
       \A l \in Lanes : EffectiveLane(rs, i, l).state = "complete"
  /\ rs[i].affected # Lanes => i > 1 /\ rs[i - 1].phase = "complete"
  /\ \A l \in Lanes :
       IF rs[i].lanes[l].state = "retained"
         THEN l \notin rs[i].affected /\ ~RetentionErrors(rs, am, i, l)
         ELSE /\ l \in rs[i].affected /\ ~ChainErrors(rs[i], l)
              /\ rs[i].lanes[l].result.verdict # "bare"

LEMMA ValidByRounds ==
  ASSUME NEW rs, NEW am
  PROVE  Valid(rs, am) <=> Len(rs) <= RoundCap /\ \A i \in 1..Len(rs) : ValidRound(rs, am, i)
BY DEF Valid, ValidRound

LEMMA LatestParts ==
  ASSUME Shaped
  PROVE  /\ Latest \in 1..RoundCap /\ Latest \in Nat \ {0} /\ RoundCap \in Nat \ {0}
         /\ \A i \in 1..Latest : rounds[i] \in Round
         /\ DOMAIN rounds = 1..Latest /\ Scout \in Lanes
BY CapsAreNumbers DEF Shaped, Latest, Lanes

LEMMA RewrittenParts ==
  ASSUME Shaped, NEW r \in Round
  PROVE  /\ Rewritten(r) \in Seq(Round) /\ Len(Rewritten(r)) = Latest
         /\ Rewritten(r)[Latest] = r
         /\ \A i \in 1..Latest : i # Latest => Rewritten(r)[i] = rounds[i]
<1>1. rounds \in Seq(Round) /\ Latest \in 1..Len(rounds)
  BY LatestParts DEF Shaped, Latest
<1>2. /\ Rewritten(r) \in Seq(Round) /\ Len(Rewritten(r)) = Len(rounds)
      /\ \A i \in 1..Len(rounds) : Rewritten(r)[i] = IF i = Latest THEN r ELSE rounds[i]
  BY <1>1, ExceptSeq DEF Rewritten
<1> QED BY <1>1, <1>2 DEF Latest

LEMMA RetainedWhereUnaffected ==
  ASSUME NEW r, NEW l, LaneSound(r, l)
  PROVE  r.lanes[l].state = "retained" <=> l \notin r.affected
BY DEF LaneSound, Retained

(* A write to the last round leaves the origins.                            *)
LEMMA RewriteKeepsOrigins ==
  ASSUME Shaped, RoundsSound, NEW r, Rewrites(r), NEW i \in 1..Latest, NEW l \in Lanes
  PROVE  /\ (Rewritten(r)[i].lanes[l].state = "retained" <=> rounds[i].lanes[l].state = "retained")
         /\ Rewritten(r)[i].affected = rounds[i].affected
<1>1. CASE i = Latest
  <2>1. LaneSound(r, l) /\ LaneSound(rounds[Latest], l) /\ r \in Round
    BY LatestParts, <1>1 DEF Rewrites, RoundsSound
  <2>2. r.lanes[l].state = "retained" <=> rounds[Latest].lanes[l].state = "retained"
    BY <2>1, RetainedWhereUnaffected DEF Rewrites
  <2> QED BY <1>1, <2>1, <2>2, RewrittenParts DEF Rewrites
<1>2. CASE i # Latest
  <2>1. r \in Round  BY DEF Rewrites
  <2> QED BY <1>2, <2>1, RewrittenParts
<1> QED BY <1>1, <1>2

LEMMA OriginExists ==
  ASSUME Based, NEW i \in 1..Latest, NEW l \in Lanes
  PROVE  \E j : IsOrigin(rounds, i, l, j)
BY DEF Based

(* Retention, amendments and effective lanes of the rounds before.          *)
LEMMA RewriteKeepsEarlier ==
  ASSUME Shaped, Based, NEW r \in Round, NEW i \in Nat, i < Latest, i > 0
  PROVE  /\ Rewritten(r)[i] = rounds[i]
         /\ \A l \in Lanes : EffectiveLane(Rewritten(r), i, l) = EffectiveLane(rounds, i, l)
         /\ ScoutReconciled(Rewritten(r), amended, i) = ScoutReconciled(rounds, amended, i)
<1>1. \A k \in 1..i : Rewritten(r)[k] = rounds[k] /\ k \in 1..Latest
  BY RewrittenParts, LatestParts
<1>2. i \in 1..Latest /\ Scout \in Lanes  BY LatestParts
<1>3. ASSUME NEW l \in Lanes
      PROVE  /\ EffectiveLane(Rewritten(r), i, l) = EffectiveLane(rounds, i, l)
             /\ l = Scout => ScoutReconciled(Rewritten(r), amended, i)
                             = ScoutReconciled(rounds, amended, i)
  <2>1. PICK j : IsOrigin(rounds, i, l, j)  BY <1>2, OriginExists
  <2> QED BY <1>1, <2>1, PrefixReads
<1> QED BY <1>1, <1>2, <1>3

(* The record stays valid when the new last round is as sound as the one    *)
(* before: validate_v2 reads nothing else of it.                            *)
LEMMA RewriteIsValid ==
  ASSUME Shaped, RoundsSound, Based, Accepted, NEW r, Rewrites(r),
         rounds[Latest].phase # "complete",
         \A l \in r.affected : r.lanes[l].result.verdict # "bare",
         r.phase = "complete" =>
           \A l \in Lanes : EffectiveLane(Rewritten(r), Latest, l).state = "complete"
  PROVE  Valid(Rewritten(r), amended)
<1> DEFINE rs == Rewritten(r)
<1>0. r \in Round  BY DEF Rewrites
<1>1. /\ Len(rs) = Latest /\ rs[Latest] = r
      /\ \A i \in 1..Latest : i # Latest => rs[i] = rounds[i]
  BY <1>0, RewrittenParts
<1>2. Latest \in Nat \ {0} /\ Latest <= RoundCap  BY LatestParts
<1>3. \A i \in 1..Latest : ValidRound(rounds, amended, i)
  BY ValidByRounds DEF Accepted, Latest
<1> HIDE DEF rs
<1>4. ASSUME NEW i \in 1..Latest, i # Latest PROVE ValidRound(rs, amended, i)
  <2>1. i \in Nat /\ i < Latest /\ i > 0 /\ rs[i] = rounds[i]  BY <1>1, <1>2, <1>4
  <2>2. \A l \in Lanes : EffectiveLane(rs, i, l) = EffectiveLane(rounds, i, l)
    BY <1>0, <2>1, RewriteKeepsEarlier DEF rs
  <2>3. AmendmentErrors(rs, amended, i) = AmendmentErrors(rounds, amended, i)
    BY <2>1 DEF AmendmentErrors
  <2>4. rs[i].affected # Lanes => i > 1 /\ rs[i - 1].phase = "complete"
    <3>1. rs[i].affected # Lanes => i > 1 /\ rounds[i - 1].phase = "complete"
      BY <1>3, <2>1 DEF ValidRound
    <3>2. i > 1 => rs[i - 1] = rounds[i - 1]  BY <1>1, <1>2, <2>1
    <3> QED BY <3>1, <3>2
  <2>5. ASSUME NEW l \in Lanes, rs[i].lanes[l].state = "retained"
        PROVE  l \notin rs[i].affected /\ ~RetentionErrors(rs, amended, i, l)
    <3>1. l \notin rounds[i].affected /\ ~RetentionErrors(rounds, amended, i, l)
      BY <1>3, <2>1, <2>5 DEF ValidRound
    <3>2. i > 1
      <4>1. l \in Lanes /\ l \notin rounds[i].affected  BY <3>1
      <4> QED BY <1>3, <4>1 DEF ValidRound
    <3>3. /\ \A m \in Lanes : EffectiveLane(rs, i - 1, m) = EffectiveLane(rounds, i - 1, m)
          /\ ScoutReconciled(rs, amended, i - 1) = ScoutReconciled(rounds, amended, i - 1)
      <4>1. i - 1 \in Nat /\ i - 1 < Latest /\ i - 1 > 0  BY <1>2, <2>1, <3>2
      <4> QED BY <1>0, <4>1, RewriteKeepsEarlier DEF rs
    <3> QED BY <2>1, <3>1, <3>3 DEF RetentionErrors
  <2>6. ASSUME NEW l \in Lanes, rs[i].lanes[l].state # "retained"
        PROVE  /\ l \in rs[i].affected /\ ~ChainErrors(rs[i], l)
               /\ rs[i].lanes[l].result.verdict # "bare"
    BY <1>3, <2>1, <2>6 DEF ValidRound
  <2>7. rs[i].phase = "complete" => \A l \in Lanes : EffectiveLane(rs, i, l).state = "complete"
    BY <1>3, <2>1, <2>2 DEF ValidRound
  <2>8. ~AmendmentErrors(rs, amended, i)
    BY <1>3, <2>3 DEF ValidRound
  <2> QED BY <2>4, <2>5, <2>6, <2>7, <2>8 DEF ValidRound
<1>5. ValidRound(rs, amended, Latest)
  <2>0. ValidRound(rounds, amended, Latest) /\ Latest \in 1..Latest  BY <1>2, <1>3
  <2>1. ~AmendmentErrors(rs, amended, Latest)
    <3>1. ~AmendmentErrors(rounds, amended, Latest)  BY <2>0 DEF ValidRound
    <3>2. \A n \in 1..Len(amended[Latest]) : FALSE  BY <3>1 DEF AmendmentErrors
    <3> QED BY <3>2 DEF AmendmentErrors
  <2>2. rs[Latest].affected # Lanes => Latest > 1 /\ rs[Latest - 1].phase = "complete"
    <3>1. r.affected # Lanes => Latest > 1 /\ rounds[Latest - 1].phase = "complete"
      BY <2>0 DEF ValidRound, Rewrites
    <3>2. Latest > 1 => rs[Latest - 1] = rounds[Latest - 1]  BY <1>1, <1>2
    <3> QED BY <1>1, <3>1, <3>2
  <2>3. ASSUME NEW l \in Lanes, r.lanes[l].state = "retained"
        PROVE  l \notin r.affected /\ ~RetentionErrors(rs, amended, Latest, l)
    <3>1. LaneSound(r, l) /\ LaneSound(rounds[Latest], l)
      BY <2>0 DEF Rewrites, RoundsSound
    <3>2. l \notin r.affected /\ l \notin rounds[Latest].affected
          /\ rounds[Latest].lanes[l].state = "retained"
      BY <2>3, <3>1, RetainedWhereUnaffected DEF Rewrites
    <3>3. \A f \in r.failures : f.lane # l  BY <3>1, <3>2 DEF LaneSound
    <3>4. ~RetentionErrors(rounds, amended, Latest, l) /\ Latest > 1
      BY <2>0, <3>2 DEF ValidRound
    <3>5. /\ \A m \in Lanes : EffectiveLane(rs, Latest - 1, m)
                              = EffectiveLane(rounds, Latest - 1, m)
          /\ ScoutReconciled(rs, amended, Latest - 1)
             = ScoutReconciled(rounds, amended, Latest - 1)
      <4>1. Latest - 1 \in Nat /\ Latest - 1 < Latest /\ Latest - 1 > 0  BY <1>2, <3>4
      <4> QED BY <1>0, <4>1, RewriteKeepsEarlier DEF rs
    <3> QED BY <1>1, <3>2, <3>3, <3>4, <3>5 DEF RetentionErrors
  <2>4. ASSUME NEW l \in Lanes, r.lanes[l].state # "retained"
        PROVE  l \in r.affected /\ ~ChainErrors(r, l) /\ r.lanes[l].result.verdict # "bare"
    <3>1. LaneSound(r, l)  BY DEF Rewrites
    <3>2. l \in r.affected  BY <2>4, <3>1, RetainedWhereUnaffected
    <3> QED BY <1>0, <3>1, <3>2, SoundChainHasNoErrors
  <2> QED BY <1>1, <2>1, <2>2, <2>3, <2>4 DEF ValidRound, rs
<1>6. \A i \in 1..Len(rs) : ValidRound(rs, amended, i)  BY <1>1, <1>4, <1>5
<1> QED BY <1>1, <1>2, <1>6, ValidByRounds DEF rs

-----------------------------------------------------------------------------
(* Lemmas on the steps                                                      *)

LEMMA ResultTypes ==
  /\ NoResult \in Results /\ NoResult.verdict = "none"
  /\ \A l \in Lanes : ResultsOf(l) \subseteq Results
  /\ \A k \in Attempts : Admitted(k) \in Blocks
  /\ Retained \in Blocks
<1>1. ASSUME NEW l \in Lanes PROVE ResultsOf(l) \subseteq Results
  <2>1. ResultsOf(l) \in {ResultsOf(m) : m \in Lanes}  OBVIOUS
  <2> QED BY <2>1 DEF Results
<1>3. NoResult \in Results  BY DEF Results
<1>2. NoResult.verdict = "none"  BY DEF NoResult
<1> QED BY <1>1, <1>2, <1>3 DEF Admitted, Retained, Blocks

LEMMA CommandNames ==
  /\ {"mark-running", "record-result", "record-failure", "admit-retry", "complete-round"} \subseteq Commands
  /\ {"begin", "next-round", "amend", "close"} \subseteq Commands
BY DEF Commands

(* Only the last round is worked on, and only before it is complete.        *)
LEMMA WorkIsOnLast ==
  ASSUME IInv, NEW i \in 1..Latest, NEW l \in Lanes, IsOpen(rounds[i].lanes[l])
  PROVE  i = Latest /\ rounds[Latest].phase # "complete" /\ l \in rounds[Latest].affected
<1>1. LaneSound(rounds[i], l)  BY DEF IInv, RoundsSound
<1>2. l \in rounds[i].affected  BY <1>1 DEF LaneSound, Retained, IsOpen
<1>3. rounds[i].phase # "complete"  BY <1>1, <1>2 DEF LaneSound, IsOpen
<1>4. i = Latest  BY <1>3, LatestParts DEF IInv, InOrder
<1> QED BY <1>2, <1>3, <1>4

(* A commit on a round there is: all of it, or none.                        *)
LEMMA CommitCases ==
  ASSUME Shaped, NEW c \in Commands, NEW i \in 1..Latest, NEW st, NEW rs, NEW am,
         Commit(c, i, st, rs, am)
  PROVE  \/ /\ Valid(rs, am)
            /\ status' = st /\ rounds' = rs /\ amended' = am /\ UNCHANGED refused
            /\ commands' \in Seq(SUBSET Commands) /\ Len(commands') = Len(commands)
         \/ /\ ~Valid(rs, am) /\ refused' = refused \cup ({c} \ Validating)
            /\ UNCHANGED <<status, rounds, amended, commands>>
<1>1. CASE Valid(rs, am)
  <2>1. i \in 1..Len(commands) /\ ~(i > Len(commands)) /\ commands \in Seq(SUBSET Commands)
    BY LatestParts DEF Shaped, Latest
  <2>2. commands' = [commands EXCEPT ![i] = commands[i] \cup {c}]  BY <1>1, <2>1 DEF Commit
  <2>3. commands[i] \cup {c} \in SUBSET Commands  BY <2>1, ElementOfSeq
  <2>4. commands' \in Seq(SUBSET Commands) /\ Len(commands') = Len(commands)
    BY <2>1, <2>2, <2>3, ExceptSeq
  <2> QED BY <1>1, <2>4 DEF Commit
<1>2. CASE ~Valid(rs, am)  BY <1>2 DEF Commit
<1> QED BY <1>1, <1>2

LEMMA NotBare ==
  ASSUME IInv, NEW l \in rounds[Latest].affected
  PROVE  rounds[Latest].lanes[l].result.verdict # "bare"
<1>1. Latest \in 1..Latest /\ l \in Lanes
  BY LatestParts, RoundParts DEF IInv
<1>2. ValidRound(rounds, amended, Latest)
  BY <1>1, ValidByRounds DEF IInv, Accepted, Latest
<1>3. rounds[Latest].lanes[l].state # "retained"
  BY <1>1, RetainedWhereUnaffected DEF IInv, RoundsSound
<1> QED BY <1>1, <1>2, <1>3 DEF ValidRound

(* A write keeps the invariant once it is committed.                        *)
LEMMA RewriteKeeps ==
  ASSUME IInv, Running, NEW r, Rewrites(r), rounds' = Rewritten(r),
         Valid(Rewritten(r), amended), UNCHANGED <<status, amended, refused>>,
         commands' \in Seq(SUBSET Commands), Len(commands') = Len(commands), Told'
  PROVE  IInv'
<1>0. r \in Round  BY DEF Rewrites
<1>1. /\ rounds' \in Seq(Round) /\ Len(rounds') = Latest /\ rounds'[Latest] = r
      /\ \A i \in 1..Latest : i # Latest => rounds'[i] = rounds[i]
  BY <1>0, RewrittenParts DEF IInv
<1>2. Latest' = Latest  BY <1>1 DEF Latest
<1>3. Latest \in Nat \ {0}  BY LatestParts DEF IInv
<1>4. Shaped'  BY <1>1 DEF IInv, Shaped, Latest
<1>5. RoundsSound'
  <2>1. ASSUME NEW i \in 1..Latest, NEW l \in Lanes PROVE LaneSound(rounds'[i], l)
    BY <1>1 DEF IInv, RoundsSound, Rewrites
  <2> QED BY <1>2, <2>1 DEF RoundsSound, LaneSound
<1>6. InOrder'
  <2>1. \A i \in 1..(Latest - 1) : i \in 1..Latest /\ i # Latest  BY <1>3
  <2> QED BY <1>1, <1>2, <2>1 DEF IInv, InOrder
<1>7. Based'
  <2>1. ASSUME NEW i \in 1..Latest, NEW l \in Lanes
        PROVE  \E j \in 1..i : IsOrigin(rounds', i, l, j)
    <3>1. PICK j \in 1..i : IsOrigin(rounds, i, l, j)  BY DEF IInv, Based
    <3>2. ASSUME NEW k \in 1..i
          PROVE rounds'[k].lanes[l].state = "retained" <=> rounds[k].lanes[l].state = "retained"
      <4>1. k \in 1..Latest  BY <1>3
      <4> QED BY <4>1, RewriteKeepsOrigins DEF IInv
    <3>3. i \in Nat  OBVIOUS
    <3>4. IsOrigin(rounds', i, l, j)  BY <3>1, <3>2, <3>3, OriginAgrees
    <3> QED BY <3>4
  <2> QED BY <1>2, <2>1 DEF Based, IsOrigin
<1>8. Accepted'  BY DEF Accepted
<1>9. Earned'  BY DEF Earned, Running, Outcomes
<1>10. OwnChecksSuffice'  BY DEF IInv, OwnChecksSuffice
<1> QED BY <1>4, <1>5, <1>6, <1>7, <1>8, <1>9, <1>10 DEF IInv

(* The outcomes told after a write that adds those of new.                  *)
LEMMA RewriteTells ==
  ASSUME IInv, NEW r \in Round, rounds' = Rewritten(r),
         NEW new, outcomes' = outcomes \cup new,
         new \subseteq OutcomeRecords,
         \A o \in new :
           /\ o.round = Latest
           /\ o.failed => /\ o.result = NoResult
                          /\ \E f \in r.failures : f.lane = o.lane /\ f.attempt = o.attempt
           /\ ~o.failed => /\ r.lanes[o.lane].state = "complete"
                           /\ o = Success(Latest, o.lane, r.lanes[o.lane]),
         \A f \in rounds[Latest].failures :
           \E g \in r.failures : g.lane = f.lane /\ g.attempt = f.attempt,
         \A l \in Lanes : rounds[Latest].lanes[l].state = "complete" =>
                            r.lanes[l] = rounds[Latest].lanes[l],
         \A l \in Lanes : r.lanes[l].state = "complete" =>
                            \/ r.lanes[l] = rounds[Latest].lanes[l]
                            \/ Success(Latest, l, r.lanes[l]) \in new
  PROVE  Told'
<1>1. /\ Len(rounds') = Latest /\ rounds'[Latest] = r
      /\ \A i \in 1..Latest : i # Latest => rounds'[i] = rounds[i]
  BY RewrittenParts DEF IInv
<1>2. Latest' = Latest /\ Latest \in 1..Latest
  BY <1>1, LatestParts DEF Latest, IInv
<1>3. Told  BY DEF IInv
<1>4. outcomes' \subseteq OutcomeRecords  BY <1>3 DEF Told
<1>5. ASSUME NEW o \in outcomes'
      PROVE  /\ o.round \in 1..Latest
             /\ o.failed => /\ o.result = NoResult
                            /\ \E f \in rounds'[o.round].failures : f.lane = o.lane /\ f.attempt = o.attempt
             /\ ~o.failed => /\ rounds'[o.round].lanes[o.lane].state = "complete"
                             /\ o = Success(o.round, o.lane, rounds'[o.round].lanes[o.lane])
  <2>1. CASE o \in new  BY <1>1, <1>2, <2>1
  <2>2. CASE o \in outcomes
    <3>1. /\ o.round \in 1..Latest /\ o.lane \in Lanes
          /\ o.failed => /\ o.result = NoResult
                         /\ \E f \in rounds[o.round].failures : f.lane = o.lane /\ f.attempt = o.attempt
          /\ ~o.failed => /\ rounds[o.round].lanes[o.lane].state = "complete"
                          /\ o = Success(o.round, o.lane, rounds[o.round].lanes[o.lane])
      BY <1>3, <2>2 DEF Told, HasFailed, OutcomeRecords
    <3>2. CASE o.round # Latest  BY <1>1, <3>1, <3>2
    <3>3. CASE o.round = Latest /\ o.failed
      <4>1. PICK f \in rounds[Latest].failures : f.lane = o.lane /\ f.attempt = o.attempt
        BY <3>1, <3>3
      <4>2. PICK g \in r.failures : g.lane = f.lane /\ g.attempt = f.attempt  OBVIOUS
      <4> QED BY <1>1, <3>1, <3>3, <4>1, <4>2
    <3>4. CASE o.round = Latest /\ ~o.failed
      <4>1. r.lanes[o.lane] = rounds[Latest].lanes[o.lane]  BY <3>1, <3>4
      <4> QED BY <1>1, <3>1, <3>4, <4>1
    <3> QED BY <3>2, <3>3, <3>4
  <2> QED BY <2>1, <2>2
<1>6. ASSUME NEW i \in 1..Latest, NEW l \in Lanes, rounds'[i].lanes[l].state = "complete"
      PROVE  Success(i, l, rounds'[i].lanes[l]) \in outcomes'
  <2>1. CASE i # Latest  BY <1>1, <1>3, <1>6, <2>1 DEF Told
  <2>2. CASE i = Latest /\ r.lanes[l] = rounds[Latest].lanes[l]
    BY <1>1, <1>3, <1>6, <2>2 DEF Told
  <2>3. CASE i = Latest /\ Success(Latest, l, r.lanes[l]) \in new  BY <1>1, <2>3
  <2> QED BY <1>1, <1>6, <2>1, <2>2, <2>3
<1> QED BY <1>2, <1>4, <1>5, <1>6 DEF Told, HasFailed, Success

LEMMA RewriteTellsNothing ==
  ASSUME IInv, NEW r \in Round, rounds' = Rewritten(r), UNCHANGED outcomes,
         \A f \in rounds[Latest].failures :
           \E g \in r.failures : g.lane = f.lane /\ g.attempt = f.attempt,
         \A l \in Lanes :
           rounds[Latest].lanes[l].state = "complete" \/ r.lanes[l].state = "complete" =>
             r.lanes[l] = rounds[Latest].lanes[l]
  PROVE  Told'
<1> DEFINE new == {}
<1>1. outcomes' = outcomes \cup new /\ new \subseteq OutcomeRecords
      /\ \A o \in new :
           /\ o.round = Latest
           /\ o.failed => /\ o.result = NoResult
                          /\ \E f \in r.failures : f.lane = o.lane /\ f.attempt = o.attempt
           /\ ~o.failed => /\ r.lanes[o.lane].state = "complete"
                           /\ o = Success(Latest, o.lane, r.lanes[o.lane])
  OBVIOUS
<1>2. /\ \A l \in Lanes : rounds[Latest].lanes[l].state = "complete" =>
                           r.lanes[l] = rounds[Latest].lanes[l]
      /\ \A l \in Lanes : r.lanes[l].state = "complete" =>
                           \/ r.lanes[l] = rounds[Latest].lanes[l]
                           \/ Success(Latest, l, r.lanes[l]) \in new
  OBVIOUS
<1> HIDE DEF new
<1> QED BY <1>1, <1>2, RewriteTells

(* A step that writes nothing but the receipts.                             *)
LEMMA ReceiptKeeps ==
  ASSUME IInv, UNCHANGED <<status, rounds, amended, outcomes, refused>>,
         commands' \in Seq(SUBSET Commands), Len(commands') = Len(commands)
  PROVE  IInv'
<1>1. Shaped'  BY DEF IInv, Shaped
<1>2. RoundsSound' /\ InOrder' /\ Based'
  BY DEF IInv, RoundsSound, InOrder, Based, Latest
<1>3. Accepted'  BY DEF IInv, Accepted
<1>4. Told'  BY DEF IInv, Told, HasFailed, Latest
<1>5. Earned'
  BY DEF IInv, Earned, AllPass, SomeRevise, ScoutReconciled, EffectiveLane, Origin, Latest
<1>6. OwnChecksSuffice'  BY DEF IInv, OwnChecksSuffice
<1> QED BY <1>1, <1>2, <1>3, <1>4, <1>5, <1>6 DEF IInv

LEMMA WriteKeeps ==
  ASSUME IInv, Running, NEW c \in Commands, NEW r, Rewrites(r), CommitRound(c, Latest, r),
         c \in Validating \/ Valid(Rewritten(r), amended),
         rounds' = Rewritten(r) => Told', rounds' = rounds => UNCHANGED outcomes
  PROVE  IInv'
<1>1. Latest \in 1..Latest /\ Shaped  BY LatestParts DEF IInv
<1>2. Commit(c, Latest, status, Rewritten(r), amended)  BY DEF CommitRound, Rewritten
<1>3. \/ /\ Valid(Rewritten(r), amended)
         /\ rounds' = Rewritten(r) /\ UNCHANGED <<status, amended, refused>>
         /\ commands' \in Seq(SUBSET Commands) /\ Len(commands') = Len(commands)
      \/ /\ ~Valid(Rewritten(r), amended) /\ refused' = refused \cup ({c} \ Validating)
         /\ UNCHANGED <<status, rounds, amended, commands>>
  BY <1>1, <1>2, CommitCases
<1>4. CASE Valid(Rewritten(r), amended) /\ rounds' = Rewritten(r)
  BY <1>3, <1>4, RewriteKeeps
<1>5. CASE ~Valid(Rewritten(r), amended)
  <2>1. c \in Validating  BY <1>5
  <2>2. UNCHANGED <<status, rounds, amended, commands, refused>>  BY <1>3, <1>5, <2>1
  <2> QED BY <1>1, <2>2, ReceiptKeeps DEF Shaped
<1> QED BY <1>3, <1>4, <1>5

(* Another block and more failures of a lane whose attempt is open.         *)
LEMMA SetLaneRewrites ==
  ASSUME IInv, NEW l \in Lanes, IsOpen(rounds[Latest].lanes[l]),
         NEW b \in Blocks, b.state # "retained", b.attempt \in Attempts,
         b.result \in (IF b.state = "complete" THEN ResultsOf(l) ELSE {NoResult}),
         NEW fs \in SUBSET Failures, rounds[Latest].failures \subseteq fs,
         \A f \in fs : f.lane # l => f \in rounds[Latest].failures,
         Chained(fs, l, b)
  PROVE  LET r == SetLane(Latest, l, b, fs)
         IN  /\ Rewrites(r) /\ r.phase = "collecting" /\ r.affected = rounds[Latest].affected
             /\ r.lanes = [rounds[Latest].lanes EXCEPT ![l] = b] /\ r.failures = fs
<1> DEFINE old == rounds[Latest]
           r == SetLane(Latest, l, b, fs)
<1>1. old \in Round /\ Latest \in 1..Latest  BY LatestParts DEF IInv
<1>2. old.lanes \in [Lanes -> Blocks]  BY <1>1, RoundParts
<1>3. /\ r \in Round /\ r.phase = "collecting" /\ r.affected = old.affected
      /\ r.lanes = [old.lanes EXCEPT ![l] = b] /\ r.failures = fs
  BY <1>1, SetLaneParts
<1>4. l \in old.affected  BY <1>1, WorkIsOnLast
<1>5. ASSUME NEW m \in Lanes PROVE LaneSound(r, m)
  <2>1. CASE m = l
    <3>1. r.lanes[m] = b  BY <1>2, <1>3, <2>1
    <3> QED BY <1>3, <1>4, <2>1, <3>1 DEF LaneSound
  <2>2. CASE m # l
    <3>1. LaneSound(old, m)  BY <1>1 DEF IInv, RoundsSound
    <3>2. r.lanes[m] = old.lanes[m]  BY <1>2, <1>3, <2>2
    <3>3. \A f \in fs : f.lane = m => f \in old.failures  BY <2>2
    <3>4. CASE m \in old.affected
      <4>1. Chained(fs, m, old.lanes[m])
        BY <3>1, <3>3, <3>4 DEF LaneSound, Chained
      <4> QED BY <1>3, <3>1, <3>2, <3>4, <4>1 DEF LaneSound
    <3>5. CASE m \notin old.affected
      BY <1>3, <3>1, <3>2, <3>3, <3>5 DEF LaneSound
    <3> QED BY <3>4, <3>5
  <2> QED BY <2>1, <2>2
<1> QED BY <1>3, <1>5 DEF Rewrites

(* What is known of the attempt a call names once its checks pass.          *)
LEMMA OpenAttempt ==
  ASSUME IInv, NEW i \in 1..Latest, NEW l \in Lanes, NEW k, IsCurrent(i, l, k),
         IsOpen(rounds[i].lanes[l])
  PROVE  /\ i = Latest /\ rounds[i].phase # "complete" /\ l \in rounds[i].affected
         /\ rounds[i].lanes \in [Lanes -> Blocks] /\ rounds[i].failures \in SUBSET Failures
         /\ rounds[i].lanes[l] \in Blocks
         /\ rounds[i].lanes[l].attempt = k /\ k \in Attempts
         /\ rounds[i].lanes[l].result = NoResult
         /\ Chained(rounds[i].failures, l, rounds[i].lanes[l])
<1>1. i = Latest /\ rounds[i].phase # "complete" /\ l \in rounds[i].affected  BY WorkIsOnLast
<1>2. rounds[i] \in Round  BY LatestParts DEF IInv
<1>3. LaneSound(rounds[i], l)  BY DEF IInv, RoundsSound
<1>4. rounds[i].lanes[l].state # "complete"  BY DEF IsOpen
<1> QED BY <1>1, <1>2, <1>3, <1>4, RoundParts DEF LaneSound, IsCurrent

LEMMA MarkRunningKeeps ==
  ASSUME IInv, NEW i \in 1..Latest, NEW l \in Lanes, NEW k \in Attempts, MarkRunning(i, l, k)
  PROVE  IInv'
<1> DEFINE old == rounds[Latest]
           b == [old.lanes[l] EXCEPT !.state = "running"]
           r == SetLane(Latest, l, b, old.failures)
<1>1. Running /\ IsCurrent(i, l, k) /\ rounds[i].lanes[l].state = "admitted" /\ UNCHANGED outcomes
  BY DEF MarkRunning
<1>2. IsOpen(rounds[i].lanes[l])  BY <1>1 DEF IsOpen
<1>3. /\ i = Latest /\ old.phase # "complete" /\ l \in old.affected
      /\ old.lanes \in [Lanes -> Blocks] /\ old.failures \in SUBSET Failures
      /\ old.lanes[l] \in Blocks /\ old.lanes[l].attempt = k /\ old.lanes[l].result = NoResult
      /\ Chained(old.failures, l, old.lanes[l])
  BY <1>1, <1>2, OpenAttempt
<1>4. b \in Blocks /\ b.state = "running" /\ b.attempt = k /\ b.result = NoResult
  BY <1>3 DEF Blocks
<1>5. Chained(old.failures, l, b)
  BY <1>3, <1>4 DEF Chained
<1>6. /\ Rewrites(r) /\ r.phase = "collecting" /\ r.affected = old.affected
      /\ r.lanes = [old.lanes EXCEPT ![l] = b] /\ r.failures = old.failures
  <2>1. /\ IsOpen(old.lanes[l]) /\ b.state # "retained" /\ b.attempt \in Attempts
        /\ b.result \in (IF b.state = "complete" THEN ResultsOf(l) ELSE {NoResult})
    BY <1>2, <1>3, <1>4
  <2> HIDE DEF b
  <2> QED BY <1>3, <1>4, <1>5, <2>1, SetLaneRewrites
<1>7. CommitRound("mark-running", Latest, r)  BY <1>3 DEF MarkRunning
<1> HIDE DEF r, b
<1>8. r.lanes[l] = b /\ \A m \in Lanes : m # l => r.lanes[m] = old.lanes[m]
  BY <1>3, <1>6
<1>9. Valid(Rewritten(r), amended)
  <2>1. ASSUME NEW m \in r.affected PROVE r.lanes[m].result.verdict # "bare"
    <3>1. m \in Lanes /\ m \in old.affected  BY <1>6, RoundParts DEF Rewrites
    <3> QED BY <1>4, <1>8, <3>1, NotBare, ResultTypes
  <2> QED BY <1>3, <1>6, <2>1, RewriteIsValid DEF IInv
<1>10. ASSUME rounds' = Rewritten(r) PROVE Told'
  <2>1. r \in Round  BY <1>6 DEF Rewrites
  <2>2. old.lanes[l].state # "complete"  BY <1>1, <1>3
  <2>3. \A m \in Lanes : old.lanes[m].state = "complete" \/ r.lanes[m].state = "complete"
                          => r.lanes[m] = old.lanes[m]
    BY <1>4, <1>8, <2>2
  <2> QED BY <1>1, <1>6, <1>10, <2>1, <2>3, RewriteTellsNothing
<1> QED BY <1>1, <1>6, <1>7, <1>9, <1>10, WriteKeeps, CommandNames

LEMMA RecordResultKeeps ==
  ASSUME IInv, NEW i \in 1..Latest, NEW l \in Lanes, NEW k \in Attempts,
         NEW v, NEW result \in ResultsOf(l), RecordResult(i, l, k, v, result)
  PROVE  IInv'
<1> DEFINE old == rounds[Latest]
           b == [state |-> "complete", attempt |-> k, result |-> result]
           r == SetLane(Latest, l, b, old.failures)
           o == Success(Latest, l, b)
<1>1. /\ Running /\ IsCurrent(i, l, k) /\ IsOpen(rounds[i].lanes[l])
      /\ ~HasFailed(i, l, k) /\ Recorded(i, l, k, FALSE, result)
  BY DEF RecordResult, MayDeliver
<1>2. /\ i = Latest /\ old.phase # "complete" /\ l \in old.affected
      /\ old.lanes \in [Lanes -> Blocks] /\ old.failures \in SUBSET Failures
      /\ old.lanes[l] \in Blocks /\ old.lanes[l].attempt = k
      /\ Chained(old.failures, l, old.lanes[l])
  BY <1>1, OpenAttempt
<1>3. b \in Blocks /\ b.state = "complete" /\ b.attempt = k /\ b.result = result
  BY ResultTypes DEF Blocks
<1>4. Chained(old.failures, l, b)
  BY <1>1, <1>2, <1>3 DEF Chained, HasFailed
<1>5. /\ Rewrites(r) /\ r.phase = "collecting" /\ r.affected = old.affected
      /\ r.lanes = [old.lanes EXCEPT ![l] = b] /\ r.failures = old.failures
  <2>1. /\ IsOpen(old.lanes[l]) /\ b.state # "retained" /\ b.attempt \in Attempts
        /\ b.result \in (IF b.state = "complete" THEN ResultsOf(l) ELSE {NoResult})
    BY <1>1, <1>2, <1>3
  <2> HIDE DEF b
  <2> QED BY <1>2, <1>3, <1>4, <2>1, SetLaneRewrites
<1>6. CommitRound("record-result", Latest, r)  BY <1>2 DEF RecordResult
<1>7. o \in OutcomeRecords /\ o = [round |-> i, lane |-> l, attempt |-> k,
                                   failed |-> FALSE, result |-> result]
      /\ o.round = Latest /\ ~o.failed /\ o.lane = l
  BY <1>2, LatestParts, ResultTypes DEF OutcomeRecords, Success, IInv
<1> HIDE DEF r, b, o
<1>8. r.lanes[l] = b /\ \A m \in Lanes : m # l => r.lanes[m] = old.lanes[m]
  BY <1>2, <1>5
<1>9. r \in Round  BY <1>5 DEF Rewrites
<1>10. Rewritten(r) # rounds
  <2>1. Rewritten(r)[Latest] = r  BY <1>9, RewrittenParts DEF IInv
  <2>2. r # old  BY <1>1, <1>2, <1>3, <1>8 DEF IsOpen
  <2> QED BY <2>1, <2>2
<1>11. ASSUME rounds' = Rewritten(r) PROVE Told'
  <2>1. outcomes' = outcomes \cup {o}  BY <1>1, <1>7, <1>10, <1>11 DEF Recorded
  <2>2. old.lanes[l].state # "complete"  BY <1>1, <1>2 DEF IsOpen
  <2>3. \A m \in Lanes : old.lanes[m].state = "complete" => r.lanes[m] = old.lanes[m]
    BY <1>8, <2>2
  <2>4. \A m \in Lanes : r.lanes[m].state = "complete" =>
                            \/ r.lanes[m] = old.lanes[m]
                            \/ Success(Latest, m, r.lanes[m]) \in {o}
    BY <1>8 DEF o
  <2>5. /\ {o} \subseteq OutcomeRecords
        /\ \A p \in {o} :
             /\ p.round = Latest
             /\ p.failed => /\ p.result = NoResult
                            /\ \E f \in r.failures : f.lane = p.lane /\ f.attempt = p.attempt
             /\ ~p.failed => /\ r.lanes[p.lane].state = "complete"
                             /\ p = Success(Latest, p.lane, r.lanes[p.lane])
    <3>1. o = Success(Latest, l, b)  BY DEF o
    <3> QED BY <1>3, <1>7, <1>8, <3>1
  <2> QED BY <1>5, <1>9, <1>11, <2>1, <2>3, <2>4, <2>5, RewriteTells
<1>12. "record-result" \in Validating  BY DEF Validating
<1>13. rounds' = rounds => UNCHANGED outcomes  BY <1>1 DEF Recorded
<1> QED BY <1>1, <1>5, <1>6, <1>11, <1>12, <1>13, WriteKeeps, CommandNames

LEMMA RecordFailureKeeps ==
  ASSUME IInv, NEW i \in 1..Latest, NEW l \in Lanes, NEW k \in Attempts,
         NEW v, RecordFailure(i, l, k, v)
  PROVE  IInv'
<1> DEFINE old == rounds[Latest]
           f == [lane |-> l, attempt |-> k, next |-> 0]
           fs == old.failures \cup {f}
           r == SetLane(Latest, l, old.lanes[l], fs)
           o == [round |-> Latest, lane |-> l, attempt |-> k, failed |-> TRUE,
                 result |-> NoResult]
<1>1. /\ Running /\ IsCurrent(i, l, k) /\ IsOpen(rounds[i].lanes[l])
      /\ ~HasFailed(i, l, k) /\ Recorded(i, l, k, TRUE, NoResult)
  BY DEF RecordFailure
<1>2. /\ i = Latest /\ old.phase # "complete" /\ l \in old.affected
      /\ old.lanes \in [Lanes -> Blocks] /\ old.failures \in SUBSET Failures
      /\ old.lanes[l] \in Blocks /\ old.lanes[l].attempt = k /\ old.lanes[l].result = NoResult
      /\ Chained(old.failures, l, old.lanes[l])
  BY <1>1, OpenAttempt
<1>3. f.lane = l /\ f.attempt = k /\ f.next = 0 /\ f \in Failures /\ f \notin old.failures
  BY <1>1, <1>2 DEF Failures, HasFailed
<1>4. fs \in SUBSET Failures /\ \A g \in fs : g.lane # l => g \in old.failures
  BY <1>2, <1>3
<1>5. Chained(fs, l, old.lanes[l])
  <2>1. old.lanes[l].state # "complete"  BY <1>1, <1>2 DEF IsOpen
  <2>2. f.attempt = old.lanes[l].attempt /\ f.next = 0  BY <1>2, <1>3
  <2> HIDE DEF f
  <2> QED BY <1>2, <2>1, <2>2 DEF Chained
<1>6. /\ Rewrites(r) /\ r.phase = "collecting" /\ r.affected = old.affected
      /\ r.lanes = [old.lanes EXCEPT ![l] = old.lanes[l]] /\ r.failures = fs
  <2>1. /\ IsOpen(old.lanes[l]) /\ old.lanes[l].state # "retained"
        /\ old.lanes[l].attempt \in Attempts
        /\ old.lanes[l].result
             \in (IF old.lanes[l].state = "complete" THEN ResultsOf(l) ELSE {NoResult})
    BY <1>1, <1>2 DEF IsOpen
  <2>2. old.failures \subseteq fs  OBVIOUS
  <2> HIDE DEF fs
  <2> QED BY <1>2, <1>4, <1>5, <2>1, <2>2, SetLaneRewrites
<1>7. CommitRound("record-failure", Latest, r)  BY <1>2 DEF RecordFailure
<1>8. r.lanes = old.lanes  BY <1>2, <1>6
<1>9. o \in OutcomeRecords /\ o = [round |-> i, lane |-> l, attempt |-> k,
                                   failed |-> TRUE, result |-> NoResult]
      /\ o.round = Latest /\ o.failed /\ o.lane = l /\ o.attempt = k /\ o.result = NoResult
  BY <1>2, LatestParts, ResultTypes DEF OutcomeRecords, IInv
<1>10. f \in r.failures /\ \A g \in old.failures : g \in r.failures  BY <1>6
<1> HIDE DEF r, f, fs, o
<1>11. r \in Round  BY <1>6 DEF Rewrites
<1>12. Rewritten(r) # rounds
  <2>1. Rewritten(r)[Latest] = r  BY <1>11, RewrittenParts DEF IInv
  <2>2. r # old  BY <1>3, <1>10
  <2> QED BY <2>1, <2>2
<1>13. Valid(Rewritten(r), amended)
  <2>1. \A m \in r.affected : r.lanes[m].result.verdict # "bare"
    BY <1>6, <1>8, NotBare
  <2> QED BY <1>2, <1>6, <2>1, RewriteIsValid DEF IInv
<1>14. ASSUME rounds' = Rewritten(r) PROVE Told'
  <2>1. outcomes' = outcomes \cup {o}  BY <1>1, <1>9, <1>12, <1>14 DEF Recorded
  <2>2. /\ \A g \in old.failures : \E h \in r.failures : h.lane = g.lane /\ h.attempt = g.attempt
        /\ \A m \in Lanes : old.lanes[m].state = "complete" => r.lanes[m] = old.lanes[m]
        /\ \A m \in Lanes : r.lanes[m].state = "complete" =>
                              \/ r.lanes[m] = old.lanes[m]
                              \/ Success(Latest, m, r.lanes[m]) \in {o}
    BY <1>8, <1>10
  <2>3. /\ {o} \subseteq OutcomeRecords
        /\ \A p \in {o} :
             /\ p.round = Latest
             /\ p.failed => /\ p.result = NoResult
                            /\ \E g \in r.failures : g.lane = p.lane /\ g.attempt = p.attempt
             /\ ~p.failed => /\ r.lanes[p.lane].state = "complete"
                             /\ p = Success(Latest, p.lane, r.lanes[p.lane])
    BY <1>3, <1>9, <1>10
  <2> QED BY <1>11, <1>14, <2>1, <2>2, <2>3, RewriteTells
<1>15. rounds' = rounds => UNCHANGED outcomes  BY <1>1 DEF Recorded
<1> QED BY <1>1, <1>6, <1>7, <1>13, <1>14, <1>15, WriteKeeps, CommandNames

(* A failure that has not been retried is that of an attempt still open.    *)
LEMMA OpenFailure ==
  ASSUME IInv, NEW i \in 1..Latest, NEW f \in rounds[i].failures, f.next = 0
  PROVE  /\ f.lane \in rounds[i].affected /\ rounds[i].lanes[f.lane].attempt = f.attempt
         /\ IsOpen(rounds[i].lanes[f.lane])
<1> DEFINE l == f.lane
           b == rounds[i].lanes[l]
<1>1. rounds[i] \in Round  BY LatestParts DEF IInv
<1>2. f \in Failures /\ l \in Lanes /\ f.attempt \in Nat \ {0}
  BY <1>1, RoundParts, FailureParts, AttemptsAreNumbers
<1>3. LaneSound(rounds[i], l)  BY <1>2 DEF IInv, RoundsSound
<1>4. l \in rounds[i].affected  BY <1>3 DEF LaneSound
<1>5. /\ b.state # "retained" /\ b \in Blocks
      /\ Chained(rounds[i].failures, l, b)
  BY <1>1, <1>2, <1>3, <1>4, RoundParts DEF LaneSound
<1>6. f = Edge(l, f.attempt) => f.next # 0
  BY <1>2 DEF Edge
<1>7. f.attempt = b.attempt /\ b.state # "complete"
  BY <1>5, <1>6 DEF Chained
<1> QED BY <1>4, <1>5, <1>7 DEF IsOpen, Blocks

LEMMA AdmitRetryKeeps ==
  ASSUME IInv, NEW i \in 1..Latest, NEW l \in Lanes, NEW k \in Attempts, AdmitRetry(i, l, k)
  PROVE  IInv'
<1> DEFINE old == rounds[Latest]
           f == [lane |-> l, attempt |-> k, next |-> 0]
           e == Edge(l, k)
           fs == Redispatched(old.failures, f, k + 1)
           b == Admitted(k + 1)
           r == [old EXCEPT !.lanes[l] = b, !.failures = fs]
<1>1. /\ Running /\ f \in rounds[i].failures /\ rounds[i].lanes[l].attempt = k
      /\ BudgetLeft(rounds[i], l) /\ UNCHANGED outcomes
  BY DEF AdmitRetry
<1>2. f.lane = l /\ f.attempt = k /\ f.next = 0 /\ e.lane = l /\ e.attempt = k /\ e.next = k + 1
      /\ e = [f EXCEPT !.next = k + 1]
  BY DEF Edge
<1>3. IsOpen(rounds[i].lanes[l])  BY <1>1, <1>2, OpenFailure
<1>4. i = Latest /\ old.phase # "complete" /\ l \in old.affected
  BY <1>3, WorkIsOnLast
<1>5. IsCurrent(i, l, k)  BY <1>1, <1>3 DEF IsCurrent, IsOpen
<1>6. /\ old.lanes \in [Lanes -> Blocks] /\ old.failures \in SUBSET Failures
      /\ Chained(old.failures, l, old.lanes[l]) /\ old \in Round
  BY <1>3, <1>4, <1>5, OpenAttempt, LatestParts DEF IInv
<1>7. k \in Nat \ {0} /\ k + 1 \in Attempts
  <2>1. Cardinality(Edges(old, l)) = k - 1  BY <1>1, <1>4, <1>6, EdgesCounted
  <2>2. k - 1 < RetryCap  BY <1>1, <1>4, <2>1 DEF BudgetLeft
  <2>3. k \in Nat \ {0}  BY AttemptsAreNumbers
  <2> QED BY <2>2, <2>3, CapsAreNumbers DEF Attempts
<1>8. b \in Blocks /\ b.state = "admitted" /\ b.attempt = k + 1 /\ b.result = NoResult
  BY <1>7, ResultTypes DEF Admitted
<1>9. fs = (old.failures \ {f}) \cup {e} /\ e \in Failures
  BY <1>2, <1>7 DEF Redispatched, Failures, Edge
<1>10. /\ r.phase = old.phase /\ r.affected = old.affected /\ r \in Round
       /\ r.lanes = [old.lanes EXCEPT ![l] = b] /\ r.failures = fs
  <2>1. fs \in SUBSET Failures  BY <1>6, <1>9
  <2> HIDE DEF fs, b
  <2> QED BY <1>6, <1>8, <2>1 DEF Round
<1>11. CommitRound("admit-retry", Latest, r)  BY <1>4 DEF AdmitRetry
<1> HIDE DEF r, b, fs, e, f
<1>12. Chained(fs, l, b)
  <2>1. ASSUME NEW m \in 1..k PROVE Edge(l, m) \in fs
    <3>1. CASE m = k  BY <1>9, <3>1 DEF e
    <3>2. CASE m # k
      <4>1. Edge(l, m) \in old.failures  BY <1>1, <1>4, <1>6, <1>7, <3>2 DEF Chained
      <4>2. Edge(l, m).attempt = m  BY DEF Edge
      <4> QED BY <1>2, <1>9, <3>2, <4>1, <4>2
    <3> QED BY <3>1, <3>2
  <2>2. ASSUME NEW g \in fs, g.lane = l PROVE g.attempt < k + 1 /\ g = Edge(l, g.attempt)
    <3>1. CASE g = e  BY <1>2, <1>7, <3>1 DEF e
    <3>2. CASE g \in old.failures /\ g # f
      <4>1. ~(g.attempt = k /\ g.next = 0)
        <5>1. g = [lane |-> g.lane, attempt |-> g.attempt, next |-> g.next]
          BY <1>6, <3>2, FailureParts
        <5> QED BY <2>2, <3>2, <5>1 DEF f
      <4>2. g.attempt \in Nat  BY <1>6, <3>2, FailureParts, AttemptsAreNumbers
      <4> QED BY <1>1, <1>4, <1>6, <1>7, <2>2, <3>2, <4>1, <4>2 DEF Chained
    <3> QED BY <1>9, <3>1, <3>2
  <2>3. b.attempt - 1 = k  BY <1>7, <1>8
  <2> QED BY <1>8, <2>1, <2>2, <2>3 DEF Chained
<1>13. r.lanes[l] = b /\ \A m \in Lanes : m # l => r.lanes[m] = old.lanes[m]
  BY <1>6, <1>10
<1>14. ASSUME NEW m \in Lanes PROVE LaneSound(r, m)
  <2>1. CASE m = l
    BY <1>4, <1>7, <1>8, <1>10, <1>12, <1>13, <2>1 DEF LaneSound
  <2>2. CASE m # l
    <3>1. LaneSound(old, m)  BY <1>4 DEF IInv, RoundsSound
    <3>2. r.lanes[m] = old.lanes[m]  BY <1>13, <2>2
    <3>3. \A g : g.lane = m => (g \in fs <=> g \in old.failures)  BY <1>2, <1>9, <2>2
    <3>4. CASE m \in old.affected
      <4>1. \A n : Edge(m, n).lane = m  BY DEF Edge
      <4>2. Chained(fs, m, old.lanes[m])
        BY <3>1, <3>3, <3>4, <4>1 DEF LaneSound, Chained
      <4> QED BY <1>10, <3>1, <3>2, <3>4, <4>2 DEF LaneSound
    <3>5. CASE m \notin old.affected
      BY <1>10, <3>1, <3>2, <3>3, <3>5 DEF LaneSound
    <3> QED BY <3>4, <3>5
  <2> QED BY <2>1, <2>2
<1>15. Rewrites(r)  BY <1>10, <1>14 DEF Rewrites
<1>16. Valid(Rewritten(r), amended)
  <2>1. ASSUME NEW m \in r.affected PROVE r.lanes[m].result.verdict # "bare"
    <3>1. m \in Lanes /\ m \in old.affected  BY <1>10, RoundParts
    <3> QED BY <1>8, <1>13, <3>1, NotBare, ResultTypes
  <2> QED BY <1>4, <1>10, <1>15, <2>1, RewriteIsValid DEF IInv
<1>17. ASSUME rounds' = Rewritten(r) PROVE Told'
  <2>1. \A g \in old.failures : \E h \in r.failures : h.lane = g.lane /\ h.attempt = g.attempt
    BY <1>2, <1>9, <1>10
  <2>2. old.lanes[l].state # "complete"  BY <1>3, <1>4 DEF IsOpen
  <2>3. \A m \in Lanes : old.lanes[m].state = "complete" \/ r.lanes[m].state = "complete"
                          => r.lanes[m] = old.lanes[m]
    BY <1>8, <1>13, <2>2
  <2> QED BY <1>1, <1>10, <1>17, <2>1, <2>3, RewriteTellsNothing
<1> QED BY <1>1, <1>11, <1>15, <1>16, <1>17, WriteKeeps, CommandNames

LEMMA CompleteRoundKeeps ==
  ASSUME IInv, NEW i \in 1..Latest, CompleteRound(i)
  PROVE  IInv'
<1> DEFINE old == rounds[i]
           r == [old EXCEPT !.phase = "complete"]
<1>1. Running /\ Completable(i) /\ CommitRound("complete-round", i, r) /\ UNCHANGED outcomes
  BY DEF CompleteRound
<1>2. old \in Round /\ Shaped /\ Latest \in Nat \ {0}  BY LatestParts DEF IInv
<1>3. /\ r \in Round /\ r.phase = "complete" /\ r.affected = old.affected
      /\ r.lanes = old.lanes /\ r.failures = old.failures /\ r.revision = old.revision
  BY <1>2 DEF Round
<1>4. CASE old.phase = "complete"
  <2>1. r = old  BY <1>2, <1>4 DEF Round
  <2>2. [rounds EXCEPT ![i] = r] = rounds
    <3>1. rounds \in [1..Len(rounds) -> Round]  BY <1>2, LenProperties DEF Shaped
    <3> QED BY <2>1, <3>1
  <2>3. Commit("complete-round", i, status, rounds, amended)
    BY <1>1, <2>2 DEF CommitRound
  <2>4. Valid(rounds, amended)  BY DEF IInv, Accepted
  <2>5. /\ UNCHANGED <<status, rounds, amended, outcomes, refused>>
        /\ commands' \in Seq(SUBSET Commands) /\ Len(commands') = Len(commands)
    BY <1>1, <1>2, <2>3, <2>4, CommitCases, CommandNames
  <2> QED BY <2>5, ReceiptKeeps
<1>5. CASE old.phase # "complete"
  <2>1. i = Latest  BY <1>2, <1>5 DEF IInv, InOrder
  <2> HIDE DEF r
  <2>2. ASSUME NEW l \in Lanes PROVE LaneSound(r, l)
    <3>1. LaneSound(old, l)  BY DEF IInv, RoundsSound
    <3>2. ASSUME l \in old.affected PROVE old.lanes[l].state = "complete"
      <4>1. old.lanes[l].state # "retained"  BY <3>1, <3>2, RetainedWhereUnaffected
      <4>2. EffectiveLane(rounds, i, l) = old.lanes[l]  BY <1>2, <2>1, <4>1, OriginOfOwn
      <4> QED BY <1>1, <4>2 DEF Completable
    <3> QED BY <1>3, <3>1, <3>2 DEF LaneSound
  <2>3. Rewrites(r)  BY <1>3, <2>1, <2>2 DEF Rewrites
  <2>4. Valid(Rewritten(r), amended)
    <3>1. \A l \in r.affected : r.lanes[l].result.verdict # "bare"
      BY <1>3, <2>1, NotBare
    <3>2. ASSUME NEW l \in Lanes
          PROVE  EffectiveLane(Rewritten(r), Latest, l).state = "complete"
      <4>1. PICK j : IsOrigin(rounds, Latest, l, j)  BY <1>2, <2>1, OriginExists DEF IInv
      <4>2. ASSUME NEW n \in 1..Latest
            PROVE  Rewritten(r)[n].lanes[l].state = "retained"
                     <=> rounds[n].lanes[l].state = "retained"
        BY <2>3, RewriteKeepsOrigins DEF IInv
      <4>3. Origin(rounds, Latest, l) = j /\ Origin(Rewritten(r), Latest, l) = j
        BY <1>2, <4>1, <4>2, OriginAgrees
      <4>4. j \in 1..Latest  BY <4>1 DEF IsOrigin
      <4>5. Rewritten(r)[j].lanes = rounds[j].lanes
        BY <1>2, <1>3, <2>1, <4>4, RewrittenParts
      <4>6. EffectiveLane(rounds, Latest, l).state = "complete"
        BY <1>1, <2>1 DEF Completable
      <4> QED BY <4>3, <4>5, <4>6 DEF EffectiveLane
    <3> QED BY <1>5, <2>1, <2>3, <3>1, <3>2, RewriteIsValid DEF IInv
  <2>5. ASSUME rounds' = Rewritten(r) PROVE Told'
    <3>1. \A g \in rounds[Latest].failures :
            \E h \in r.failures : h.lane = g.lane /\ h.attempt = g.attempt
      BY <1>3, <2>1
    <3> QED BY <1>1, <1>3, <2>1, <2>5, <3>1, RewriteTellsNothing
  <2> QED BY <1>1, <2>1, <2>3, <2>4, <2>5, WriteKeeps, CommandNames
<1> QED BY <1>4, <1>5

LEMMA CloseKeeps ==
  ASSUME IInv, Running, NEW outcome \in Outcomes, UNCHANGED outcomes,
         Commit("close", Latest, outcome, rounds, amended),
         outcome = "converged" => AllPass(Latest) /\ ScoutReconciled(rounds, amended, Latest),
         outcome # "converged" => SomeRevise(Latest) \/ \A o \in outcomes : o.round # Latest
  PROVE  IInv'
<1>1. Shaped /\ Latest \in 1..Latest /\ Valid(rounds, amended)
  BY LatestParts DEF IInv, Accepted
<1>2. /\ status' = outcome /\ UNCHANGED <<rounds, amended, refused>>
      /\ commands' \in Seq(SUBSET Commands) /\ Len(commands') = Len(commands)
  BY <1>1, CommitCases, CommandNames
<1>3. Shaped'  BY <1>1, <1>2 DEF Shaped
<1>4. RoundsSound' /\ InOrder' /\ Based'
  BY <1>2 DEF IInv, RoundsSound, InOrder, Based, Latest
<1>5. Accepted'  BY <1>2 DEF IInv, Accepted
<1>6. Told'  BY <1>2 DEF IInv, Told, HasFailed, Latest
<1>7. Earned'
  <2>1. /\ AllPass(Latest)' = AllPass(Latest) /\ SomeRevise(Latest)' = SomeRevise(Latest)
        /\ ScoutReconciled(rounds, amended, Latest)' = ScoutReconciled(rounds, amended, Latest)
        /\ Latest' = Latest
    BY <1>2 DEF AllPass, SomeRevise, Latest
  <2>2. status' \in {"drift", "deadlock"} => outcome # "converged"  BY <1>2
  <2> QED BY <1>2, <2>1, <2>2 DEF Earned
<1>8. OwnChecksSuffice'  BY <1>2 DEF IInv, OwnChecksSuffice
<1> QED BY <1>3, <1>4, <1>5, <1>6, <1>7, <1>8 DEF IInv

(* Nothing has been told of a round as it was admitted.                     *)
LEMMA UnstartedIsUntold ==
  ASSUME IInv, Unstarted(Latest), NEW o \in outcomes
  PROVE  o.round # Latest
<1> SUFFICES ASSUME o.round = Latest PROVE FALSE
  OBVIOUS
<1>1. Latest \in 1..Latest /\ o.lane \in Lanes
  BY LatestParts DEF IInv, Told, OutcomeRecords
<1>2. ~o.failed  BY DEF IInv, Told, HasFailed, Unstarted
<1>3. rounds[Latest].lanes[o.lane].state = "complete"  BY <1>2 DEF IInv, Told
<1>4. LaneSound(rounds[Latest], o.lane)  BY <1>1 DEF IInv, RoundsSound
<1>5. o.lane \in rounds[Latest].affected
  BY <1>3, <1>4, RetainedWhereUnaffected
<1> QED BY <1>3, <1>5 DEF Unstarted

(* An amendment settles no less than there was.                             *)
LEMMA AmendedStaysReconciled ==
  ASSUME NEW rs, NEW am, NEW an, NEW i \in Nat, NEW j, IsOrigin(rs, i, Scout, j),
         am[j] # <<>> => an[j] # <<>>, ScoutReconciled(rs, am, i)
  PROVE  ScoutReconciled(rs, an, i)
<1>1. Origin(rs, i, Scout) = j  BY OriginIs
<1> QED BY <1>1 DEF ScoutReconciled

LEMMA AmendScoutKeeps ==
  ASSUME IInv, NEW i \in 1..Latest, NEW k, NEW v, NEW seen,
         NEW expected \in 0..MaxAmendments, NEW link,
         AmendScout(i, k, v, seen, expected, link)
  PROVE  IInv'
<1> DEFINE n == Len(amended[i]) + 1
           a == [id |-> n, previous |-> expected, seen |-> Latest]
           am == [amended EXCEPT ![i] = Append(amended[i], a)]
<1>1. /\ Running /\ n - 1 < MaxAmendments /\ i = Latest
      /\ rounds[i].phase = "complete" /\ rounds[i].lanes[Scout].state = "complete"
      /\ expected = HeadId(i) /\ Commit("amend", i, status, rounds, am) /\ UNCHANGED outcomes
  BY DEF AmendScout, ExpectedHead
<1>2. /\ amended \in Seq(Seq(Amendments)) /\ Len(amended) = Latest /\ i \in 1..Len(amended)
      /\ Shaped /\ Latest \in 1..RoundCap
  BY LatestParts DEF IInv, Shaped, Latest
<1>3. amended[i] \in Seq(Amendments) /\ Len(amended[i]) \in Nat /\ n \in Nat \ {0}
  BY <1>2, ElementOfSeq
<1>4. a \in Amendments
  BY <1>1, <1>2, <1>3, CapsAreNumbers DEF Amendments
<1>5. a.previous = expected /\ a.seen = Latest  OBVIOUS
<1> HIDE DEF a
<1>6. /\ Append(amended[i], a) \in Seq(Amendments) /\ Len(Append(amended[i], a)) = n
      /\ Append(amended[i], a)[n] = a
      /\ \A m \in 1..(n - 1) : Append(amended[i], a)[m] = amended[i][m]
      /\ Append(amended[i], a) # <<>>
  BY <1>3, <1>4
<1>7. /\ am \in Seq(Seq(Amendments)) /\ Len(am) = Len(amended)
      /\ \A m \in 1..Len(amended) : am[m] = IF m = i THEN Append(amended[i], a) ELSE amended[m]
  BY <1>2, <1>6, ExceptSeq
<1> HIDE DEF am, n
<1>8. \A m \in 1..Latest : ValidRound(rounds, amended, m)
  BY ValidByRounds DEF IInv, Accepted, Latest
<1>9. ASSUME NEW m \in 1..Latest PROVE ValidRound(rounds, am, m)
  <2>1. ~AmendmentErrors(rounds, am, m)
    <3>0. ~AmendmentErrors(rounds, amended, m)  BY <1>8 DEF ValidRound
    <3>1. CASE m # i
      <4>1. am[m] = amended[m]  BY <1>2, <1>7, <3>1
      <4> QED BY <3>0, <4>1 DEF AmendmentErrors
    <3>2. CASE m = i
      <4>1. am[i] = Append(amended[i], a)  BY <1>2, <1>7
      <4>2. expected = IF n = 1 THEN 0 ELSE amended[i][n - 1].id
        <5>1. amended[i] = <<>> <=> n = 1  BY <1>3, EmptySeq DEF n
        <5>2. n - 1 = Len(amended[i])  BY <1>3 DEF n
        <5> QED BY <1>1, <5>1, <5>2 DEF HeadId
      <4>3. ASSUME NEW x \in 1..n
            PROVE  /\ am[i][x].previous = IF x = 1 THEN 0 ELSE am[i][x - 1].id
                   /\ am[i][x].seen = i
        <5>1. CASE x = n
          <6>1. x # 1 => am[i][x - 1] = amended[i][n - 1]  BY <1>3, <1>6, <4>1, <5>1
          <6> QED BY <1>1, <1>5, <1>6, <4>1, <4>2, <5>1, <6>1
        <5>2. CASE x # n
          <6>1. x \in 1..(n - 1) /\ x \in 1..Len(amended[i])  BY <1>3, <5>2 DEF n
          <6>2. /\ amended[i][x].previous = IF x = 1 THEN 0 ELSE amended[i][x - 1].id
                /\ amended[i][x].seen = i
            BY <3>0, <3>2, <6>1 DEF AmendmentErrors
          <6>3. x # 1 => x - 1 \in 1..(n - 1)  BY <1>3, <6>1
          <6> QED BY <1>6, <4>1, <6>1, <6>2, <6>3
        <5> QED BY <5>1, <5>2
      <4> QED BY <1>1, <1>6, <3>2, <4>1, <4>3 DEF AmendmentErrors
    <3> QED BY <3>1, <3>2
  <2>2. ASSUME NEW l \in Lanes, rounds[m].lanes[l].state = "retained"
        PROVE  l \notin rounds[m].affected /\ ~RetentionErrors(rounds, am, m, l)
    <3>1. l \notin rounds[m].affected /\ ~RetentionErrors(rounds, amended, m, l)
      BY <1>8, <2>2 DEF ValidRound
    <3>2. m > 1
      <4>1. l \in Lanes /\ l \notin rounds[m].affected  BY <3>1
      <4> QED BY <1>8, <4>1 DEF ValidRound
    <3>3. ASSUME l = Scout PROVE ScoutReconciled(rounds, am, m - 1)
      <4>1. m - 1 \in 1..Latest /\ m - 1 \in Nat  BY <1>2, <3>2
      <4>2. PICK j : IsOrigin(rounds, m - 1, Scout, j)
        BY <3>3, <4>1, OriginExists DEF IInv
      <4>3. j \in 1..Latest  BY <1>2, <4>1, <4>2 DEF IsOrigin
      <4>4. amended[j] # <<>> => am[j] # <<>>  BY <1>2, <1>6, <1>7, <4>3
      <4>5. ScoutReconciled(rounds, amended, m - 1)  BY <3>1, <3>3 DEF RetentionErrors
      <4> QED BY <4>1, <4>2, <4>4, <4>5, AmendedStaysReconciled
    <3> QED BY <3>1, <3>3 DEF RetentionErrors
  <2> QED BY <1>8, <2>1, <2>2 DEF ValidRound
<1>10. Valid(rounds, am)  BY <1>2, <1>9, ValidByRounds DEF Latest
<1>11. /\ amended' = am /\ UNCHANGED <<status, rounds, refused>>
       /\ commands' \in Seq(SUBSET Commands) /\ Len(commands') = Len(commands)
  BY <1>1, <1>2, <1>10, CommitCases, CommandNames
<1>12. Shaped'  BY <1>2, <1>7, <1>11 DEF Shaped
<1>13. RoundsSound' /\ InOrder' /\ Based'
  BY <1>11 DEF IInv, RoundsSound, InOrder, Based, Latest
<1>14. Accepted'  BY <1>10, <1>11 DEF Accepted
<1>15. Told'  BY <1>1, <1>11 DEF IInv, Told, HasFailed, Latest
<1>16. Earned'  BY <1>1, <1>11 DEF Earned, Running, Outcomes
<1>17. OwnChecksSuffice'  BY <1>11 DEF IInv, OwnChecksSuffice
<1> QED BY <1>12, <1>13, <1>14, <1>15, <1>16, <1>17 DEF IInv

LEMMA NewRoundSound ==
  ASSUME NEW v \in Revisions, NEW a \in (SUBSET Lanes) \ {{}}
  PROVE  /\ NewRound(v, a) \in Round /\ NewRound(v, a).affected = a
         /\ \A l \in Lanes : LaneSound(NewRound(v, a), l)
         /\ \A l \in Lanes : NewRound(v, a).lanes[l] = IF l \in a THEN Admitted(1) ELSE Retained
         /\ NewRound(v, a).phase = "admitted"
<1> DEFINE r == NewRound(v, a)
<1>1. /\ r.phase = "admitted" /\ r.affected = a /\ r.failures = {} /\ r.revision = v
      /\ r.lanes = [l \in Lanes |-> IF l \in a THEN Admitted(1) ELSE Retained]
  BY DEF NewRound
<1>2. r.lanes \in [Lanes -> Blocks]  BY <1>1, ResultTypes, AttemptsAreNumbers
<1>3. r \in Round
  <2>1. [l \in Lanes |-> IF l \in a THEN Admitted(1) ELSE Retained] \in [Lanes -> Blocks]
    BY <1>1, <1>2
  <2> HIDE DEF r
  <2> QED BY <2>1 DEF Round, NewRound, r
<1>4. \A l \in Lanes : r.lanes[l] = IF l \in a THEN Admitted(1) ELSE Retained  BY <1>1
<1> HIDE DEF r
<1>5. ASSUME NEW l \in Lanes PROVE LaneSound(r, l)
  <2>1. CASE l \in a
    <3>1. r.lanes[l] = Admitted(1)  BY <1>4, <2>1
    <3>2. /\ r.lanes[l].state = "admitted" /\ r.lanes[l].attempt = 1
          /\ r.lanes[l].result = NoResult
      BY <3>1 DEF Admitted
    <3>3. Chained(r.failures, l, r.lanes[l])  BY <1>1, <3>2 DEF Chained
    <3> QED BY <1>1, <2>1, <3>2, <3>3, AttemptsAreNumbers DEF LaneSound
  <2>2. CASE l \notin a  BY <1>1, <1>4, <2>2 DEF LaneSound
  <2> QED BY <2>1, <2>2
<1> QED BY <1>1, <1>3, <1>4, <1>5 DEF r

LEMMA NextRoundKeeps ==
  ASSUME IInv, NEW v \in Revisions, NEW a \in (SUBSET Lanes) \ {{}}, NextRound(v, a)
  PROVE  IInv'
<1> DEFINE r == NewRound(v, a)
<1>1. /\ Running /\ rounds[Latest].phase = "complete" /\ Latest < RoundCap /\ UNCHANGED outcomes
      /\ Commit("next-round", Latest + 1, status, Append(rounds, r), Append(amended, <<>>))
  BY DEF NextRound
<1>2. /\ r \in Round /\ r.affected = a /\ r.phase = "admitted"
      /\ \A l \in Lanes : LaneSound(r, l)
      /\ \A l \in Lanes : r.lanes[l] = IF l \in a THEN Admitted(1) ELSE Retained
  BY NewRoundSound
<1>3. /\ Shaped /\ Latest \in Nat \ {0} /\ RoundCap \in Nat /\ Latest = Len(rounds)
      /\ rounds \in Seq(Round) /\ amended \in Seq(Seq(Amendments)) /\ Len(amended) = Latest
      /\ commands \in Seq(SUBSET Commands) /\ Len(commands) = Latest
  BY LatestParts DEF IInv, Shaped, Latest
<1> HIDE DEF r
<1>4. CASE ~Valid(Append(rounds, r), Append(amended, <<>>))
  <2>1. refused' = refused \cup ({"next-round"} \ Validating)
        /\ UNCHANGED <<status, rounds, amended, commands>>
    BY <1>1, <1>4 DEF Commit
  <2>2. UNCHANGED refused  BY <2>1 DEF Validating
  <2> QED BY <1>1, <1>3, <2>1, <2>2, ReceiptKeeps
<1>5. CASE Valid(Append(rounds, r), Append(amended, <<>>))
  <2>1. /\ rounds' = Append(rounds, r) /\ amended' = Append(amended, <<>>)
        /\ commands' = Append(commands, {"next-round"}) /\ UNCHANGED <<status, refused>>
    BY <1>1, <1>3, <1>5 DEF Commit
  <2>2. /\ rounds' \in Seq(Round) /\ Len(rounds') = Latest + 1 /\ rounds'[Latest + 1] = r
        /\ \A i \in 1..Latest : rounds'[i] = rounds[i]
    BY <1>2, <1>3, <2>1
  <2>3. Latest' = Latest + 1  BY <2>2 DEF Latest
  <2>4. /\ amended' \in Seq(Seq(Amendments)) /\ Len(amended') = Latest + 1
        /\ commands' \in Seq(SUBSET Commands) /\ Len(commands') = Latest + 1
    BY <1>3, <2>1, EmptySeq, CommandNames
  <2>5. Shaped'
    BY <1>1, <1>3, <2>1, <2>2, <2>4 DEF Shaped
  <2>6. \A i \in 1..(Latest + 1) : i \in 1..Latest \/ i = Latest + 1  BY <1>3
  <2>7. RoundsSound'
    <3>1. ASSUME NEW i \in 1..(Latest + 1), NEW l \in Lanes PROVE LaneSound(rounds'[i], l)
      BY <1>2, <2>2, <2>6 DEF IInv, RoundsSound
    <3> QED BY <2>3, <3>1 DEF RoundsSound, LaneSound
  <2>8. InOrder'
    <3>1. \A i \in 1..Latest : rounds[i].phase = "complete"
      <4>1. \A i \in 1..Latest : i \in 1..(Latest - 1) \/ i = Latest  BY <1>3
      <4> QED BY <1>1, <4>1 DEF IInv, InOrder
    <3>2. (Latest + 1) - 1 = Latest  BY <1>3
    <3> QED BY <2>2, <2>3, <3>1, <3>2 DEF InOrder
  <2>9. Based'
    <3>1. ASSUME NEW i \in 1..Latest, NEW l \in Lanes
          PROVE  \E j \in 1..i : IsOrigin(rounds', i, l, j)
      <4>1. PICK j \in 1..i : IsOrigin(rounds, i, l, j)  BY DEF IInv, Based
      <4>2. \A k \in 1..i : rounds'[k] = rounds[k]  BY <1>3, <2>2
      <4>3. i \in Nat /\ \A k \in 1..i : rounds'[k].lanes[l].state = "retained"
                                         <=> rounds[k].lanes[l].state = "retained"
        BY <4>2
      <4>4. IsOrigin(rounds', i, l, j)  BY <4>1, <4>3, OriginAgrees
      <4> QED BY <4>4
    <3>2. ASSUME NEW l \in Lanes
          PROVE  \E j \in 1..(Latest + 1) : IsOrigin(rounds', Latest + 1, l, j)
      <4>1. CASE l \in a
        <5>1. rounds'[Latest + 1].lanes[l].state # "retained"
          BY <1>2, <2>2, <4>1 DEF Admitted
        <5>2. Latest + 1 \in Nat \ {0} /\ Latest + 1 \in 1..(Latest + 1)  BY <1>3
        <5>3. IsOrigin(rounds', Latest + 1, l, Latest + 1)  BY <5>1, <5>2, OriginOfOwn
        <5> QED BY <5>2, <5>3
      <4>2. CASE l \notin a
        <5>1. rounds'[Latest + 1].lanes[l].state = "retained"
          BY <1>2, <2>2, <4>2 DEF Retained
        <5>2. PICK j \in 1..Latest : IsOrigin(rounds', Latest, l, j)  BY <1>3, <3>1
        <5>3. IsOrigin(rounds', Latest + 1, l, j)
          <6>1. \A k \in (j + 1)..(Latest + 1) : k \in (j + 1)..Latest \/ k = Latest + 1
            <7>1. j \in Nat  BY <1>3, <5>2
            <7> QED BY <1>3, <7>1
          <6>2. j \in 1..(Latest + 1)  BY <1>3
          <6> QED BY <5>1, <5>2, <6>1, <6>2 DEF IsOrigin
        <5> QED BY <1>3, <5>3
      <4> QED BY <4>1, <4>2
    <3>3. \A i \in 1..(Latest + 1), l \in Lanes : \E j \in 1..i : IsOrigin(rounds', i, l, j)
      BY <2>6, <3>1, <3>2
    <3> QED BY <2>3, <3>3 DEF Based, IsOrigin
  <2>10. Accepted'  BY <1>5, <2>1 DEF Accepted
  <2>11. Told'
    <3>1. Told /\ outcomes' = outcomes  BY <1>1 DEF IInv
    <3>2. \A o \in outcomes : o.round \in 1..(Latest + 1) /\ rounds'[o.round] = rounds[o.round]
      BY <1>3, <2>2, <3>1 DEF Told
    <3>3. \A o \in outcomes :
            /\ o.failed => /\ o.result = NoResult
                           /\ \E f \in rounds'[o.round].failures : f.lane = o.lane /\ f.attempt = o.attempt
            /\ ~o.failed => /\ rounds'[o.round].lanes[o.lane].state = "complete"
                            /\ o = Success(o.round, o.lane, rounds'[o.round].lanes[o.lane])
      BY <3>1, <3>2 DEF Told, HasFailed
    <3>4. ASSUME NEW i \in 1..(Latest + 1), NEW l \in Lanes,
                 rounds'[i].lanes[l].state = "complete"
          PROVE  Success(i, l, rounds'[i].lanes[l]) \in outcomes
      <4>1. i # Latest + 1
        <5>1. r.lanes[l].state # "complete"  BY <1>2 DEF Admitted, Retained
        <5> QED BY <2>2, <3>4, <5>1
      <4> QED BY <2>2, <2>6, <3>1, <3>4, <4>1 DEF Told
    <3> QED BY <2>3, <3>1, <3>2, <3>3, <3>4 DEF Told, HasFailed, Success
  <2>12. Earned'  BY <1>1, <2>1 DEF Earned, Running, Outcomes
  <2>13. OwnChecksSuffice'  BY <2>1 DEF IInv, OwnChecksSuffice
  <2> QED BY <2>5, <2>7, <2>8, <2>9, <2>10, <2>11, <2>12, <2>13 DEF IInv
<1> QED BY <1>4, <1>5

-----------------------------------------------------------------------------
(* The inductive invariant                                                  *)

LEMMA IInvInit == Init => IInv
<1> SUFFICES ASSUME Init PROVE IInv
  OBVIOUS
<1>0. PICK v \in Revisions :
        /\ status = "running" /\ rounds = <<NewRound(v, Lanes)>> /\ amended = <<<<>>>>
        /\ commands = <<{"begin"}>> /\ outcomes = {} /\ refused = {}
  BY DEF Init
<1> DEFINE r == NewRound(v, Lanes)
<1>1. Lanes \in (SUBSET Lanes) \ {{}} /\ Scout \in Lanes  BY DEF Lanes
<1>2. /\ r \in Round /\ r.affected = Lanes /\ r.phase = "admitted"
      /\ \A l \in Lanes : LaneSound(r, l)
      /\ \A l \in Lanes : r.lanes[l] = Admitted(1)
  BY <1>1, NewRoundSound
<1> HIDE DEF r
<1>3. rounds = <<r>> /\ Latest = 1 /\ rounds[1] = r /\ rounds \in Seq(Round)
  BY <1>0, <1>2 DEF r, Latest
<1>4. Shaped
  <2>1. amended \in Seq(Seq(Amendments)) /\ Len(amended) = 1
    BY <1>0, EmptySeq
  <2>2. {"begin"} \in SUBSET Commands  BY CommandNames
  <2>3. commands \in Seq(SUBSET Commands) /\ Len(commands) = 1  BY <1>0, <2>2
  <2> QED BY <1>0, <1>3, <2>1, <2>3, CapsAreNumbers DEF Shaped, Latest
<1>5. RoundsSound /\ InOrder  BY <1>2, <1>3 DEF RoundsSound, InOrder
<1>6. \A l \in Lanes : /\ r.lanes[l].state = "admitted" /\ r.lanes[l].result = NoResult
  BY <1>2 DEF Admitted
<1>7. Based
  <2>1. \A l \in Lanes : IsOrigin(rounds, 1, l, 1)  BY <1>3, <1>6, OriginOfOwn
  <2> QED BY <1>3, <2>1 DEF Based
<1>8. Accepted
  <2>1. amended[1] = <<>>  BY <1>0
  <2>2. ~AmendmentErrors(rounds, amended, 1)  BY <2>1, EmptySeq DEF AmendmentErrors
  <2>3. \A l \in Lanes : ~ChainErrors(r, l)  BY <1>2, SoundChainHasNoErrors
  <2>4. ValidRound(rounds, amended, 1)
    BY <1>2, <1>3, <1>6, <2>2, <2>3, ResultTypes DEF ValidRound
  <2>5. Len(rounds) = 1 /\ Len(rounds) <= RoundCap  BY <1>3, CapsAreNumbers DEF Latest
  <2>6. \A i \in 1..Len(rounds) : ValidRound(rounds, amended, i)
    <3>1. \A i \in 1..Len(rounds) : i = 1  BY <2>5
    <3> QED BY <2>4, <3>1
  <2> QED BY <2>5, <2>6, ValidByRounds DEF Accepted
<1>9. Told  BY <1>0, <1>3, <1>6 DEF Told
<1>10. Earned /\ OwnChecksSuffice  BY <1>0 DEF Earned, OwnChecksSuffice
<1> QED BY <1>4, <1>5, <1>7, <1>8, <1>9, <1>10 DEF IInv

LEMMA IInvNext == IInv /\ [Next]_vars => IInv'
<1> SUFFICES ASSUME IInv, [Next]_vars PROVE IInv'
  OBVIOUS
<1>1. ASSUME NEW i \in 1..Latest, NEW l \in Lanes, NEW k \in Attempts, MarkRunning(i, l, k)
      PROVE  IInv'
  BY <1>1, MarkRunningKeeps
<1>2. ASSUME NEW i \in 1..Latest, NEW l \in Lanes, NEW k \in Attempts, AdmitRetry(i, l, k)
      PROVE  IInv'
  BY <1>2, AdmitRetryKeeps
<1>3. ASSUME NEW i \in 1..Latest, NEW l \in Lanes, NEW k \in Attempts, NEW v \in Revisions,
             RecordFailure(i, l, k, v)
      PROVE  IInv'
  BY <1>3, RecordFailureKeeps
<1>4. ASSUME NEW i \in 1..Latest, NEW l \in Lanes, NEW k \in Attempts, NEW v \in Revisions,
             NEW s \in ResultsOf(l), RecordResult(i, l, k, v, s)
      PROVE  IInv'
  BY <1>4, RecordResultKeeps
<1>5. ASSUME NEW i \in 1..Latest, CompleteRound(i) PROVE IInv'
  BY <1>5, CompleteRoundKeeps
<1>6. ASSUME NEW i \in 1..Latest, NEW o \in Outcomes, NEW v \in Revisions,
             CloseUnstarted(o, i, v)
      PROVE  IInv'
  <2>1. /\ Running /\ o # "converged" /\ Unstarted(Latest) /\ UNCHANGED outcomes
        /\ Commit("close", Latest, o, rounds, amended)
    BY <1>6 DEF CloseUnstarted
  <2>2. \A p \in outcomes : p.round # Latest  BY <2>1, UnstartedIsUntold
  <2> QED BY <2>1, <2>2, CloseKeeps
<1>7. ASSUME NEW i \in 1..Latest, NEW k \in Attempts, NEW v \in Revisions,
             NEW s \in ResultsOf(Scout), NEW h \in 0..MaxAmendments, NEW n \in RowNumbers,
             AmendScout(i, k, v, s, h, n)
      PROVE  IInv'
  BY <1>7, AmendScoutKeeps
<1>8. ASSUME NEW v \in Revisions, NEW a \in (SUBSET Lanes) \ {{}}, NextRound(v, a) PROVE IInv'
  BY <1>8, NextRoundKeeps
<1>9. ASSUME NEW o \in Outcomes, Close(o) PROVE IInv'
  <2>1. /\ Running /\ MayClose(o, Latest) /\ UNCHANGED outcomes
        /\ Commit("close", Latest, o, rounds, amended)
    BY <1>9 DEF Close
  <2>2. /\ o = "converged" => AllPass(Latest) /\ ScoutReconciled(rounds, amended, Latest)
        /\ o # "converged" => SomeRevise(Latest)
    BY <2>1 DEF MayClose
  <2> QED BY <2>1, <2>2, CloseKeeps
<1>10. CASE UNCHANGED vars
  BY <1>10, ReceiptKeeps DEF vars, IInv, Shaped
<1> QED BY <1>1, <1>2, <1>3, <1>4, <1>5, <1>6, <1>7, <1>8, <1>9, <1>10 DEF Next

(* The record is sound after every step, and validate_v2 accepts it.        *)
THEOREM RecordIsSound == Spec => []IInv
<1>1. Init => IInv  BY IInvInit
<1>2. IInv /\ [Next]_vars => IInv'  BY IInvNext
<1> QED BY <1>1, <1>2, PTL DEF Spec

-----------------------------------------------------------------------------
(* What the record promises                                                 *)

LEMMA InvariantTypes == IInv => TypeOK
<1> SUFFICES ASSUME IInv PROVE TypeOK
  OBVIOUS
<1>1. ASSUME NEW i \in 1..Len(rounds), NEW l \in Lanes
      PROVE  /\ (rounds[i].lanes[l].attempt = 0) = (l \notin rounds[i].affected)
             /\ rounds[i].lanes[l].state # "complete" => rounds[i].lanes[l].result = NoResult
  <2>1. LaneSound(rounds[i], l)  BY DEF IInv, RoundsSound, Latest
  <2>2. CASE l \in rounds[i].affected
    <3>1. rounds[i].lanes[l].attempt # 0
      BY <2>1, <2>2, AttemptsAreNumbers DEF LaneSound
    <3>2. rounds[i].lanes[l].state # "complete" => rounds[i].lanes[l].result = NoResult
      BY <2>1, <2>2 DEF LaneSound
    <3> QED BY <2>2, <3>1, <3>2
  <2>3. CASE l \notin rounds[i].affected
    <3>1. rounds[i].lanes[l].attempt = 0 /\ rounds[i].lanes[l].result = NoResult
      BY <2>1, <2>3 DEF LaneSound, Retained
    <3> QED BY <2>3, <3>1
  <2> QED BY <2>2, <2>3
<1>2. \A o \in outcomes : /\ o.round \in 1..RoundCap /\ o.lane \in Lanes
                          /\ o.attempt \in Attempts
                          /\ o.failed \in BOOLEAN /\ o.result \in Results
  BY DEF IInv, Told, OutcomeRecords
<1>3. refused \subseteq Commands  BY DEF IInv, OwnChecksSuffice
<1> QED BY <1>1, <1>2, <1>3 DEF IInv, Shaped, TypeOK

(* Whatever is called in whatever order, the record has its shape: a lane   *)
(* has an attempt where it is affected, a result where it is complete, no   *)
(* round or receipt goes past the caps.                                     *)
THEOREM TypeCorrect == Spec => []TypeOK
BY RecordIsSound, InvariantTypes, PTL

(* The commands' own checks are enough: validate_v2 at the end of a write   *)
(* refuses no command but the two that call it on purpose.                  *)
THEOREM ChecksAreEnough == Spec => []OwnChecksSuffice
<1>1. IInv => OwnChecksSuffice  BY DEF IInv
<1> QED BY <1>1, RecordIsSound, PTL

(* What outcomes say of an attempt, they say once.                          *)
LEMMA InvariantEndsOnce == IInv => AttemptEndsOnce
<1> SUFFICES ASSUME IInv, NEW o \in outcomes, NEW p \in outcomes,
                    o.round = p.round, o.lane = p.lane, o.attempt = p.attempt
             PROVE  o = p
  BY DEF AttemptEndsOnce
<1>1. /\ o \in OutcomeRecords /\ p \in OutcomeRecords
      /\ o.round \in 1..Latest /\ o.lane \in Lanes
  BY DEF IInv, Told, OutcomeRecords
<1>2. ASSUME NEW q \in outcomes, q.round = o.round, q.lane = o.lane, ~q.failed
      PROVE  ~HasFailed(q.round, q.lane, q.attempt)
  <2> DEFINE b == rounds[o.round].lanes[o.lane]
  <2>1. b.state = "complete" /\ q = Success(o.round, o.lane, b)
    BY <1>2 DEF IInv, Told
  <2>2. q.attempt = b.attempt  BY <2>1 DEF Success
  <2>3. LaneSound(rounds[o.round], o.lane)  BY <1>1 DEF IInv, RoundsSound
  <2>4. rounds[o.round] \in Round  BY <1>1, LatestParts DEF IInv
  <2>5. o.lane \in rounds[o.round].affected  BY <2>1, <2>3, RetainedWhereUnaffected
  <2>6. Chained(rounds[o.round].failures, o.lane, b) /\ b.attempt \in Nat
    BY <2>3, <2>5, AttemptsAreNumbers DEF LaneSound
  <2>7. ASSUME NEW f \in rounds[o.round].failures, f.lane = o.lane PROVE f.attempt # b.attempt
    <3>1. Chained(rounds[o.round].failures, o.lane, b)  BY <2>6
    <3>2. b.attempt \in Nat /\ b.state = "complete"  BY <2>1, <2>6
    <3> HIDE DEF b
    <3>3. f.attempt < b.attempt  BY <2>7, <3>1, <3>2 DEF Chained
    <3> QED BY <3>2, <3>3
  <2>8. q.round = o.round /\ q.lane = o.lane  BY <1>2
  <2> HIDE DEF b
  <2> QED BY <2>2, <2>7, <2>8 DEF HasFailed
<1>3. CASE o.failed /\ p.failed
  <2>1. o.result = NoResult /\ p.result = NoResult  BY <1>3 DEF IInv, Told
  <2>2. o.failed = TRUE /\ p.failed = TRUE  BY <1>1, <1>3 DEF OutcomeRecords
  <2> QED BY <1>1, <2>1, <2>2 DEF OutcomeRecords
<1>4. CASE ~o.failed /\ ~p.failed
  BY <1>4 DEF IInv, Told
<1>5. CASE o.failed /\ ~p.failed
  BY <1>2, <1>5 DEF IInv, Told
<1>6. CASE ~o.failed /\ p.failed
  BY <1>2, <1>6 DEF IInv, Told
<1> QED BY <1>3, <1>4, <1>5, <1>6

(* Late or repeated calls never give an attempt a second end.               *)
THEOREM AttemptsEndOnce == Spec => []AttemptEndsOnce
BY RecordIsSound, InvariantEndsOnce, PTL

LEMMA InvariantSupersedes == IInv => FailuresSuperseded
<1> SUFFICES ASSUME IInv, NEW i \in 1..Latest, rounds[i].phase = "complete",
                    NEW l \in rounds[i].affected
             PROVE  /\ rounds[i].lanes[l].state = "complete"
                    /\ \A k \in Attempts :
                         LET n == rounds[i].lanes[l].attempt IN
                         IF k < n THEN [lane |-> l, attempt |-> k, next |-> k + 1] \in rounds[i].failures
                         ELSE ~HasFailed(i, l, k)
  BY DEF FailuresSuperseded
<1> DEFINE b == rounds[i].lanes[l]
<1>1. rounds[i] \in Round  BY LatestParts DEF IInv
<1>2. l \in Lanes  BY <1>1, RoundParts
<1>3. LaneSound(rounds[i], l)  BY <1>2 DEF IInv, RoundsSound
<1>4. b.state = "complete" /\ b.attempt \in Attempts /\ Chained(rounds[i].failures, l, b)
  BY <1>3 DEF LaneSound
<1>5. b.attempt \in Nat \ {0} /\ \A k \in Attempts : k \in Nat \ {0}
  BY <1>4, AttemptsAreNumbers
<1>6. ASSUME NEW k \in Attempts, k < b.attempt PROVE Edge(l, k) \in rounds[i].failures
  <2>1. k \in 1..(b.attempt - 1)  BY <1>5, <1>6
  <2> QED BY <1>4, <2>1 DEF Chained
<1>7. ASSUME NEW k \in Attempts, ~(k < b.attempt) PROVE ~HasFailed(i, l, k)
  BY <1>4, <1>7 DEF HasFailed, Chained
<1> QED BY <1>4, <1>6, <1>7 DEF Edge

(* A complete round hides no failure: each is followed by its retry, and    *)
(* the chain ends in a success.                                             *)
THEOREM FailuresAreSuperseded == Spec => []FailuresSuperseded
BY RecordIsSound, InvariantSupersedes, PTL

LEMMA InvariantRetains == IInv => RetainedOnPass
<1> SUFFICES ASSUME IInv, NEW i \in 1..Latest, NEW l \in Lanes,
                    rounds[i].lanes[l].state = "retained"
             PROVE  LET j == Origin(rounds, i, l) IN
                    /\ j < i /\ \A k \in j..(i - 1) : rounds[k].phase = "complete"
                    /\ IF l = Scout THEN ScoutReconciled(rounds, amended, j)
                       ELSE rounds[j].lanes[l].result.verdict = "PASS"
  BY DEF RetainedOnPass
<1>0. Latest \in Nat /\ i \in Nat \ {0}  BY LatestParts DEF IInv
<1>1. PICK j \in 1..i : IsOrigin(rounds, i, l, j)  BY DEF IInv, Based
<1>2. Origin(rounds, i, l) = j  BY <1>0, <1>1, OriginIs
<1>3. j # i /\ j < i /\ j \in Nat \ {0} /\ j \in 1..(i - 1) /\ i - 1 \in Nat
  <2>1. j # i  BY <1>1 DEF IsOrigin
  <2> QED BY <1>0, <2>1
<1>4. \A k \in j..(i - 1) : rounds[k].phase = "complete"
  <2>1. \A k \in j..(i - 1) : k \in 1..(Latest - 1)  BY <1>0, <1>3
  <2> QED BY <2>1 DEF IInv, InOrder
<1>5. IsOrigin(rounds, i - 1, l, j)
  <2>1. \A k \in (j + 1)..(i - 1) : k \in (j + 1)..i  BY <1>0, <1>3
  <2> QED BY <1>1, <1>3, <2>1 DEF IsOrigin
<1>6. Origin(rounds, i - 1, l) = j  BY <1>3, <1>5, OriginIs
<1>7. Origin(rounds, j, l) = j
  BY <1>1, <1>3, OriginOfOwn DEF IsOrigin
<1>8. ValidRound(rounds, amended, i)  BY ValidByRounds DEF IInv, Accepted, Latest
<1>9. ~RetentionErrors(rounds, amended, i, l)  BY <1>8 DEF ValidRound
<1>10. l = Scout => ScoutReconciled(rounds, amended, j)
  <2> SUFFICES ASSUME l = Scout PROVE ScoutReconciled(rounds, amended, j)
    OBVIOUS
  <2>1. ScoutReconciled(rounds, amended, i - 1)  BY <1>9 DEF RetentionErrors
  <2> QED BY <1>6, <1>7, <2>1 DEF ScoutReconciled
<1>11. l # Scout => rounds[j].lanes[l].result.verdict = "PASS"
  BY <1>6, <1>9 DEF RetentionErrors, EffectiveLane
<1> QED BY <1>2, <1>3, <1>4, <1>10, <1>11

(* However many delta rounds a result is carried through, it was a PASS or  *)
(* a reconciled scout where it was delivered.                               *)
THEOREM RetentionIsEarned == Spec => []RetainedOnPass
BY RecordIsSound, InvariantRetains, PTL

LEMMA InvariantEarns == IInv => OutcomeIsEarned
<1> SUFFICES ASSUME IInv PROVE OutcomeIsEarned
  OBVIOUS
<1>0. Latest \in Nat \ {0} /\ Latest \in 1..Latest  BY LatestParts DEF IInv
<1>1. ASSUME status = "converged", NEW l \in VerdictLanes
      PROVE  LET j == Origin(rounds, Latest, l)
                 o == [round |-> j, lane |-> l, attempt |-> rounds[j].lanes[l].attempt,
                       failed |-> FALSE, result |-> VerdictResult("PASS")]
             IN  o \in outcomes /\ [o EXCEPT !.failed = TRUE, !.result = NoResult] \notin outcomes
  <2>1. l \in Lanes /\ l # Scout  BY LanesDistinct DEF Lanes
  <2>2. PICK j \in 1..Latest : IsOrigin(rounds, Latest, l, j)  BY <1>0, <2>1 DEF IInv, Based
  <2>3. Origin(rounds, Latest, l) = j  BY <1>0, <2>2, OriginIs
  <2> DEFINE b == rounds[j].lanes[l]
             o == [round |-> j, lane |-> l, attempt |-> b.attempt,
                   failed |-> FALSE, result |-> VerdictResult("PASS")]
             p == [o EXCEPT !.failed = TRUE, !.result = NoResult]
  <2>4. b.result.verdict = "PASS"
    BY <1>1, <2>3 DEF IInv, Earned, AllPass, EffectiveLane
  <2>5. LaneSound(rounds[j], l) /\ b.state # "retained"
    BY <2>1, <2>2 DEF IInv, RoundsSound, IsOrigin
  <2>6. l \in rounds[j].affected  BY <2>5, RetainedWhereUnaffected
  <2>7. b.state = "complete"
    BY <2>4, <2>5, <2>6, ResultTypes DEF LaneSound
  <2>8. b.result \in ResultsOf(l)  BY <2>5, <2>6, <2>7 DEF LaneSound
  <2>9. b.result = VerdictResult("PASS")
    BY <2>1, <2>4, <2>8 DEF ResultsOf, VerdictResult
  <2>10. o \in outcomes
    <3>1. Success(j, l, b) \in outcomes  BY <2>1, <2>7 DEF IInv, Told
    <3> QED BY <2>9, <3>1 DEF Success
  <2>11. p \notin outcomes
    <3>1. p.round = j /\ p.lane = l /\ p.attempt = b.attempt /\ p.failed = TRUE
      OBVIOUS
    <3>2. ~HasFailed(j, l, b.attempt)
      <4>1. Chained(rounds[j].failures, l, b)  BY <2>5, <2>6 DEF LaneSound
      <4>2. b.attempt \in Nat  BY <2>5, <2>6, AttemptsAreNumbers DEF LaneSound
      <4> QED BY <2>7, <4>1, <4>2 DEF HasFailed, Chained
    <3> HIDE DEF p
    <3> QED BY <3>1, <3>2 DEF IInv, Told
  <2> QED BY <2>3, <2>10, <2>11
<1>2. status = "converged" => ScoutReconciled(rounds, amended, Latest)
  BY DEF IInv, Earned
<1>3. status \in {"drift", "deadlock"} =>
        SomeRevise(Latest) \/ \A o \in outcomes : o.round # Latest
  BY DEF IInv, Earned
<1> QED BY <1>1, <1>2, <1>3 DEF OutcomeIsEarned

(* A loop converges only on PASS verdicts that attempts without a failure   *)
(* delivered and on a scout with every finding disposed of; it drifts or    *)
(* deadlocks only over a REVISE or over a round nobody reviewed.            *)
THEOREM OutcomesAreEarned == Spec => []OutcomeIsEarned
BY RecordIsSound, InvariantEarns, PTL

(* What a step leaves as it was while the loop runs.                        *)
Frozen ==
  /\ \A i \in 1..Latest : rounds[i].phase = "complete" => rounds'[i] = rounds[i]
  /\ \A i \in 1..(Latest - 1) : rounds'[i] = rounds[i] /\ amended'[i] = amended[i]

LEMMA WriteFreezes ==
  ASSUME IInv, NEW c \in Commands, NEW r, CommitRound(c, Latest, r),
         rounds[Latest].phase # "complete"
  PROVE  Frozen
<1>1. Latest \in 1..Latest /\ Shaped /\ DOMAIN rounds = 1..Latest /\ Latest \in Nat
  BY LatestParts DEF IInv
<1>2. Commit(c, Latest, status, [rounds EXCEPT ![Latest] = r], amended)  BY DEF CommitRound
<1>3. /\ rounds' = [rounds EXCEPT ![Latest] = r] \/ rounds' = rounds
      /\ amended' = amended
  BY <1>1, <1>2, CommitCases
<1>4. \A i \in 1..Latest : i # Latest => rounds'[i] = rounds[i]  BY <1>1, <1>3
<1>5. \A i \in 1..(Latest - 1) : i \in 1..Latest /\ i # Latest  BY <1>1
<1> QED BY <1>3, <1>4, <1>5 DEF Frozen

LEMMA ReadFreezes ==
  ASSUME Shaped, UNCHANGED rounds, UNCHANGED amended PROVE Frozen
BY DEF Frozen

LEMMA StepFreezes == ASSUME IInv, Next PROVE Running /\ Frozen
<1>0. Latest \in 1..Latest /\ Shaped /\ DOMAIN rounds = 1..Latest /\ Latest \in Nat \ {0}
      /\ Latest = Len(rounds) /\ Len(amended) = Latest
      /\ amended \in Seq(Seq(Amendments)) /\ rounds \in Seq(Round)
  BY LatestParts DEF IInv, Shaped, Latest
<1>a. Latest \in Nat \ {0}  BY <1>0
<1>1. ASSUME NEW i \in 1..Latest, NEW l \in Lanes, NEW k \in Attempts, MarkRunning(i, l, k)
      PROVE  Running /\ Frozen
  <2>1. i = Latest /\ rounds[i].phase # "complete"  BY <1>1, OpenAttempt DEF MarkRunning, IsOpen
  <2> QED BY <1>1, <2>1, WriteFreezes, CommandNames DEF MarkRunning
<1>2. ASSUME NEW i \in 1..Latest, NEW l \in Lanes, NEW k \in Attempts, AdmitRetry(i, l, k)
      PROVE  Running /\ Frozen
  <2> DEFINE f == [lane |-> l, attempt |-> k, next |-> 0]
             r == [rounds[i] EXCEPT !.lanes[l] = Admitted(k + 1),
                                    !.failures = Redispatched(@, f, k + 1)]
  <2>1. f \in rounds[i].failures /\ f.next = 0 /\ f.lane = l  BY <1>2 DEF AdmitRetry
  <2>2. IsOpen(rounds[i].lanes[l])  BY <2>1, OpenFailure
  <2>3. i = Latest /\ rounds[i].phase # "complete"  BY <2>2, WorkIsOnLast
  <2>4. Running /\ CommitRound("admit-retry", i, r)  BY <1>2 DEF AdmitRetry
  <2> HIDE DEF r
  <2> QED BY <2>3, <2>4, WriteFreezes, CommandNames
<1>3. ASSUME NEW i \in 1..Latest, NEW l \in Lanes, NEW k \in Attempts, NEW v \in Revisions,
             RecordFailure(i, l, k, v)
      PROVE  Running /\ Frozen
  <2>1. i = Latest /\ rounds[i].phase # "complete"  BY <1>3, OpenAttempt DEF RecordFailure
  <2> QED BY <1>3, <2>1, WriteFreezes, CommandNames DEF RecordFailure
<1>4. ASSUME NEW i \in 1..Latest, NEW l \in Lanes, NEW k \in Attempts, NEW v \in Revisions,
             NEW s \in ResultsOf(l), RecordResult(i, l, k, v, s)
      PROVE  Running /\ Frozen
  <2>1. i = Latest /\ rounds[i].phase # "complete"  BY <1>4, OpenAttempt DEF RecordResult
  <2> QED BY <1>4, <2>1, WriteFreezes, CommandNames DEF RecordResult
<1>5. ASSUME NEW i \in 1..Latest, CompleteRound(i) PROVE Running /\ Frozen
  <2> DEFINE r == [rounds[i] EXCEPT !.phase = "complete"]
  <2>1. Running /\ CommitRound("complete-round", i, r)  BY <1>5 DEF CompleteRound
  <2>2. CASE rounds[i].phase = "complete"
    <3>1. r = rounds[i]
      <4>1. rounds[i] \in Round  BY <1>0, LatestParts
      <4> QED BY <2>2, <4>1 DEF Round
    <3>2. [rounds EXCEPT ![i] = r] = rounds
      <4>1. rounds \in [1..Len(rounds) -> Round]  BY <1>0, LenProperties
      <4> QED BY <3>1, <4>1
    <3>3. Commit("complete-round", i, status, rounds, amended)
      BY <2>1, <3>2 DEF CommitRound
    <3>4. UNCHANGED rounds /\ UNCHANGED amended  BY <1>0, <3>3, CommitCases, CommandNames
    <3> QED BY <1>0, <2>1, <3>4, ReadFreezes
  <2>3. CASE rounds[i].phase # "complete"
    <3>1. i = Latest  BY <1>a, <2>3 DEF IInv, InOrder
    <3> HIDE DEF r
    <3> QED BY <2>1, <2>3, <3>1, WriteFreezes, CommandNames
  <2> QED BY <2>2, <2>3
<1>6. ASSUME NEW i \in 1..Latest, NEW o \in Outcomes, NEW v \in Revisions,
             CloseUnstarted(o, i, v)
      PROVE  Running /\ Frozen
  <2>1. Running /\ Commit("close", i, o, rounds, amended)  BY <1>6 DEF CloseUnstarted
  <2>2. UNCHANGED rounds /\ UNCHANGED amended  BY <1>0, <2>1, CommitCases, CommandNames
  <2> QED BY <1>0, <2>1, <2>2, ReadFreezes
<1>7. ASSUME NEW i \in 1..Latest, NEW k \in Attempts, NEW v \in Revisions,
             NEW s \in ResultsOf(Scout), NEW h \in 0..MaxAmendments, NEW n \in RowNumbers,
             AmendScout(i, k, v, s, h, n)
      PROVE  Running /\ Frozen
  <2> DEFINE a == Append(amended[i], [id |-> Len(amended[i]) + 1, previous |-> h, seen |-> Latest])
  <2>1. Running /\ i = Latest /\ Commit("amend", i, status, rounds, [amended EXCEPT ![i] = a])
    BY <1>7 DEF AmendScout
  <2> HIDE DEF a
  <2>2. UNCHANGED rounds /\ (amended' = [amended EXCEPT ![i] = a] \/ amended' = amended)
    BY <1>0, <2>1, CommitCases, CommandNames
  <2>3. \A m \in 1..(Latest - 1) : amended'[m] = amended[m]
    <3>1. \A m \in 1..(Latest - 1) : m \in 1..Latest /\ m # Latest  BY <1>a
    <3>2. DOMAIN amended = 1..Latest  BY <1>0
    <3> QED BY <2>1, <2>2, <3>1, <3>2
  <2> QED BY <2>1, <2>2, <2>3 DEF Frozen
<1>8. ASSUME NEW v \in Revisions, NEW a \in (SUBSET Lanes) \ {{}}, NextRound(v, a)
      PROVE  Running /\ Frozen
  <2> DEFINE r == NewRound(v, a)
  <2>1. Running /\ Commit("next-round", Latest + 1, status, Append(rounds, r), Append(amended, <<>>))
    BY <1>8 DEF NextRound
  <2>2. r \in Round  BY NewRoundSound
  <2> HIDE DEF r
  <2>3. \/ rounds' = Append(rounds, r) /\ amended' = Append(amended, <<>>)
        \/ rounds' = rounds /\ amended' = amended
    BY <2>1 DEF Commit
  <2>4. \A m \in 1..Latest : rounds'[m] = rounds[m] /\ amended'[m] = amended[m]
    <3>1. \A m \in 1..Latest : /\ Append(rounds, r)[m] = rounds[m]
                              /\ Append(amended, <<>>)[m] = amended[m]
      BY <1>0, <2>2, EmptySeq
    <3> QED BY <2>3, <3>1
  <2>5. \A m \in 1..(Latest - 1) : m \in 1..Latest  BY <1>0
  <2> QED BY <2>1, <2>4, <2>5 DEF Frozen
<1>9. ASSUME NEW o \in Outcomes, Close(o) PROVE Running /\ Frozen
  <2>1. Running /\ Commit("close", Latest, o, rounds, amended)  BY <1>9 DEF Close
  <2>2. UNCHANGED rounds /\ UNCHANGED amended  BY <1>0, <2>1, CommitCases, CommandNames
  <2> QED BY <1>0, <2>1, <2>2, ReadFreezes
<1> QED BY <1>1, <1>2, <1>3, <1>4, <1>5, <1>6, <1>7, <1>8, <1>9 DEF Next

(* History is frozen: no command changes a complete round, a round that is  *)
(* not the last, or a record that has its outcome.                          *)
THEOREM HistoryIsFrozen == Spec => HistoryFrozen
<1>1. IInv /\ [Next]_vars =>
        [/\ \A i \in 1..Latest : rounds[i].phase = "complete" => rounds'[i] = rounds[i]
         /\ \A i \in 1..(Latest - 1) : rounds'[i] = rounds[i] /\ amended'[i] = amended[i]
         /\ amended' # amended => status = "running"
         /\ status # "running" => UNCHANGED vars]_vars
  BY StepFreezes DEF Frozen, Running
<1> QED BY <1>1, RecordIsSound, PTL DEF Spec, HistoryFrozen
=============================================================================
