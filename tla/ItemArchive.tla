----------------------------- MODULE ItemArchive -----------------------------
(* What the lifecycle owner promises about the end of a work item: it is    *)
(* archived once and for good, one request settles it, and a caller is told *)
(* of success only for the request that settled it (the ordinary close,     *)
(* which is idempotent on any archived item, once it is archived).          *)
CONSTANTS Ops, Close   \* ids of the transition requests; the ordinary close

VARIABLES
  item,   \* "open" or "archived"
  by,     \* the request that settled it, as a set
  told    \* requests answered with success

Init == item = "open" /\ by = {} /\ told = {}

(* A move whose caller died before it settled.                              *)
Archive == item = "open" /\ item' = "archived" /\ UNCHANGED <<by, told>>

(* The ordinary close archives and settles at once.                         *)
CloseOut == item = "open" /\ item' = "archived" /\ by' = {Close} /\ UNCHANGED told

Settle(o) == item = "archived" /\ by = {} /\ by' = {o} /\ UNCHANGED <<item, told>>

Tell(o) ==
  /\ item = "archived" /\ (o = Close \/ by = {o})
  /\ told' = told \cup {o}
  /\ UNCHANGED <<item, by>>

Next ==
  \/ Archive \/ CloseOut
  \/ \E o \in Ops : Settle(o)
  \/ \E o \in Ops \cup {Close} : Tell(o)

Spec == Init /\ [][Next]_<<item, by, told>>
=============================================================================
