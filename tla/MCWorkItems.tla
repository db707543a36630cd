----------------------------- MODULE MCWorkItems -----------------------------
(* WorkItems with two processes, two transition requests and two bugs.      *)
EXTENDS WorkItems

CONSTANTS p1, p2, t1, t2, close, nobody, b1, b2, x1   \* model values
=============================================================================
