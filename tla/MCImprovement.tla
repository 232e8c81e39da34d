--------------------------- MODULE MCImprovement ---------------------------
(* Three candidates of which two are enough, so that one is left for the   *)
(* fallback; a bystander who acts twice; two continuations of the run.     *)
EXTENDS ImprovementSystem
=============================================================================
