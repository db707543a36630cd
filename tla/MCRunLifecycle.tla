--------------------------- MODULE MCRunLifecycle ---------------------------
(* RunLifecycle with one or two pipe threads, in the order the backend      *)
(* registers their handles: stdin, stdout.                                  *)
EXTENDS RunLifecycle

CONSTANTS stdin, stdout   \* model values for the pipe ends

MCRank ==
  [r \in Resources |-> CASE r = Exe -> 1 [] r = Sink -> 2 [] r = Backend -> 3
                         [] r = stdin -> 4 [] OTHER -> 5]
=============================================================================
