---------------------------- MODULE WorkflowGates ----------------------------
(***************************************************************************)
(* What an agent hands over is kept only if a workflow's gate lets it      *)
(* pass: the improvement workflow asks whether a test proves the problem   *)
(* (SemanticControl) and whether an agent was done in time (BoundedWait),  *)
(* the cleanup workflow whether a change is in scope and valid             *)
(* (CleanupWorkflow), any workflow whether it starts from a tree that      *)
(* passes (BaselineGate).  A behaviour is one gate's run.                  *)
(***************************************************************************)
EXTENDS SemanticControl, CleanupWorkflow, BaselineGate, BoundedWait

VARIABLE workflow
vars == <<workflow, controlVars, cleanupVars, baselineVars, waitVars>>

(* The variables of the gates that are not running keep their first value. *)
Init ==
    /\ workflow \in {"improvement", "waiting", "cleanup", "baseline"}
    /\ ControlInit /\ CleanupInit /\ BaselineInit /\ WaitInit
    /\ workflow # "cleanup" => maxFiles = Len(Order)
    /\ workflow # "baseline" => call = "strict" /\ canRepair = FALSE /\ dirty = FALSE
    /\ workflow # "waiting" => caller = "retry" /\ \A t \in Totals : t <= total

Next ==
    \/ workflow = "improvement" /\ ControlNext /\ UNCHANGED <<workflow, cleanupVars, baselineVars, waitVars>>
    \/ workflow = "waiting" /\ WaitNext /\ UNCHANGED <<workflow, controlVars, cleanupVars, baselineVars>>
    \/ workflow = "cleanup" /\ CleanupNext /\ UNCHANGED <<workflow, controlVars, baselineVars, waitVars>>
    \/ workflow = "baseline" /\ BaselineNext /\ UNCHANGED <<workflow, controlVars, cleanupVars, waitVars>>

Spec == Init /\ [][Next]_vars
=============================================================================
