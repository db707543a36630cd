------------------------------ MODULE LedgerLog ------------------------------
(* What the agent-run ledger promises its readers: rows are only ever added *)
(* at the end, each under an id of its own and to what it refers to; the    *)
(* one exception is the marker that seals noncanonical history, which may   *)
(* be taken back as long as no row follows it. Success is told of a row     *)
(* that is in the ledger.                                                   *)
EXTENDS Naturals, Sequences

CONSTANTS
  Rows,               \* rows of the current schema
  Seals, Legacy,      \* recovery markers; noncanonical history, as one entry
  Id, Kind, Refers    \* of a row: its runId, its kind, the row it settles or closes

VARIABLES
  log,    \* the entries of the ledger, oldest first
  told    \* the rows callers are being told are in it

Holds(s, r) == \E i \in 1..Len(s) : s[i] = r

(* A terminal settles an open launch; a closer closes an open REVISE.       *)
Settling == {"terminal", "closer", "custody", "control"}

Rivals(r) == {t \in Rows : Kind[t] \in Settling /\ Refers[t] = Refers[r]}

Admissible(r) ==
  /\ ~Holds(log, Legacy)
  /\ Kind[r] # "broken"
  /\ \A t \in Rows : Id[t] = Id[r] => ~Holds(log, t)
  /\ Kind[r] \in Settling => Holds(log, Refers[r]) /\ \A t \in Rivals(r) : ~Holds(log, t)

(* A ledger is new, noncanonical, or begins with a row that has become      *)
(* invalid since, to be disposed of by a control.                           *)
Beginnings == {<<>>, <<Legacy>>} \cup {<<r>> : r \in {t \in Rows : Kind[t] = "broken"}}

Init == log \in Beginnings /\ told = {}

Record(r) == Admissible(r) /\ log' = Append(log, r)

Seal(s)   == log = <<Legacy>> /\ log' = <<s>>
Unseal(s) == log = <<s>> /\ log' = <<Legacy>>

Change ==
  \/ \E r \in Rows : Record(r)
  \/ \E s \in Seals : Seal(s) \/ Unseal(s)

Tell == told' \in SUBSET {r \in Rows : Holds(log', r)}

Next == (Change \/ UNCHANGED log) /\ Tell

Spec == Init /\ [][Next]_<<log, told>>
=============================================================================
