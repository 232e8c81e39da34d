------------------------------- MODULE MCLoop -------------------------------
(***************************************************************************)
(* A loop and its managed context.  They meet in one place, the record     *)
(* step, where the context takes any batch and the loop learns only        *)
(* whether that failed: each of the two is followed on its own, with the   *)
(* other at its beginning.                                                 *)
(***************************************************************************)
EXTENDS MCLoopExecution, MCManagedContext

VARIABLE followed   \* the loop, or its context

allVars == <<vars, contextVars, followed>>

LoopInit ==
    /\ Init /\ ContextInit
    /\ followed \in {"loop", "context"}
    /\ followed = "context" => options = Unguarded

TheLoop(A) == followed = "loop" /\ A /\ UNCHANGED <<contextVars, followed>>
TheContext(A) == followed = "context" /\ A /\ UNCHANGED <<vars, followed>>

LoopNext == TheLoop(Next) \/ TheContext(ContextNext)

(* The fairness of LoopExecution.                                          *)
LoopFairness ==
    /\ WF_allVars(TheLoop(Evaluate)) /\ WF_allVars(TheLoop(Decide))
    /\ WF_allVars(TheLoop(Execute)) /\ WF_allVars(TheLoop(Record))

LoopSpec == LoopInit /\ [][LoopNext]_allVars /\ LoopFairness
=============================================================================
