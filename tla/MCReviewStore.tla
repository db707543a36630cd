---------------------------- MODULE MCReviewStore ----------------------------
(* ReviewStore with a begin, a next-round and a command without a snapshot. *)
EXTENDS ReviewStore

CONSTANTS p1, p2, begin, nextRound, plain, c1, c2   \* model values
=============================================================================
