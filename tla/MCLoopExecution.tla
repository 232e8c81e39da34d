--------------------------- MODULE MCLoopExecution ---------------------------
(* Four actions, two of which share a fingerprint; the default window and  *)
(* threshold; every guard alone, together, at zero and absent.             *)
EXTENDS LoopExecution, TLC

CONSTANTS a, b, c, d

MCActions == {a, b, c, d}

MCFingerprintOf == a :> 1 @@ b :> 2 @@ c :> 3 @@ d :> 3

Unguarded == [maxIterations |-> None, tokenBudget |-> None, wallClockMs |-> None,
              fingerprint |-> FALSE, context |-> FALSE]

MCOptions ==
    {Unguarded,
     [Unguarded EXCEPT !.maxIterations = 0],
     [Unguarded EXCEPT !.maxIterations = 2, !.context = TRUE],
     [Unguarded EXCEPT !.tokenBudget = 2],
     [Unguarded EXCEPT !.maxIterations = 3, !.tokenBudget = 0],
     [Unguarded EXCEPT !.wallClockMs = 1, !.fingerprint = TRUE],
     [Unguarded EXCEPT !.maxIterations = 3, !.wallClockMs = 2, !.tokenBudget = 2]}
=============================================================================
