------------------------------ MODULE ReviewLog ------------------------------
(* What the state owner of a review loop promises its callers: "ordered     *)
(* idempotent operations". An operation id is committed once, with one      *)
(* receipt; every answer to a call with that id is that receipt.            *)
EXTENDS Naturals, Sequences

CONSTANTS Ops, Receipts   \* operation ids; receipts, each with freshly drawn ids

VARIABLES
  log,      \* committed operations, [id, receipt], oldest first
  answers   \* answers given so far, [id, receipt]

Entry == [id : Ops, receipt : Receipts]

Logged(o) == \E i \in 1..Len(log) : log[i].id = o

Init == log = <<>> /\ answers = {}

Operate(o, r) ==
  /\ ~Logged(o)
  /\ log' = Append(log, [id |-> o, receipt |-> r])
  /\ UNCHANGED answers

Answer(i) == answers' = answers \cup {log[i]} /\ UNCHANGED log

Next == (\E o \in Ops, r \in Receipts : Operate(o, r)) \/ (\E i \in 1..Len(log) : Answer(i))

Spec == Init /\ [][Next]_<<log, answers>>
=============================================================================
