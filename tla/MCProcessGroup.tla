--------------------------- MODULE MCProcessGroup ---------------------------
(***************************************************************************)
(* Two owners where they share a lock and a flag, one elsewhere: owners    *)
(* share nothing there.                                                    *)
(***************************************************************************)
EXTENDS ProcessGroup

CONSTANTS o1, o2, kid

MCOwners == {o1, o2}
MCKids   == {kid}

MCNext ==
  /\ Next
  /\ linux \/ pc'[o2] = "idle"
MCSpec == Init /\ [][MCNext]_vars /\ Fairness
=============================================================================
