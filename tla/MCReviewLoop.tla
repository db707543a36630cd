---------------------------- MODULE MCReviewLoop ----------------------------
(* ReviewLoop with the lanes of the code and a choice of scout results:     *)
(* none to reconcile, one reconciled, one with no disposition, and two      *)
(* findings with one disposition between them.                              *)
EXTENDS ReviewLoop, TLC

CONSTANTS surgical, deep, revA, revB   \* model values for lanes and revisions

MCScoutResults ==
  {[findings |-> 0, rows |-> 0], [findings |-> 1, rows |-> 1],
   [findings |-> 1, rows |-> 0], [findings |-> 2, rows |-> 1]}

MCOneScoutResult == {[findings |-> 2, rows |-> 1]}

MCFewScoutResults == {[findings |-> 1, rows |-> 0], [findings |-> 2, rows |-> 1]}

Symmetry == Permutations(VerdictLanes) \cup Permutations(Revisions)
=============================================================================
