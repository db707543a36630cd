------------------------------ MODULE MCLedger ------------------------------
(* Ledger with a launch and two terminals for it, a REVISE with a custody   *)
(* closer, a retained preimage on the same snapshot, and a row to dispose   *)
(* of.                                                                      *)
EXTENDS Ledger, TLC

CONSTANTS p1, p2, nobody, launch, done, lost, revise, custody, retained, broken,
          control, seal, legacy, digest   \* model values

MCKind ==
  launch :> "launch" @@ done :> "terminal" @@ lost :> "terminal" @@ revise :> "revise" @@
  custody :> "custody" @@ retained :> "retained" @@
  broken :> "broken" @@ control :> "control"

(* The two terminals come with one runId.                                   *)
MCId == [r \in Rows |-> IF r = lost THEN done ELSE r]

MCRefers ==
  done :> launch @@ lost :> launch @@ custody :> revise @@ control :> broken

MCDigest == [r \in {custody, retained} |-> digest]
=============================================================================
