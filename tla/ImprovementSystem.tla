-------------------------- MODULE ImprovementSystem --------------------------
(***************************************************************************)
(* The codebase-improvement workflow as a whole: one worker process does   *)
(* the active work and finalizes it, its launcher kills it past its        *)
(* deadline or it crashes, and delivery continuations, which share nothing *)
(* with it but the run's files and the pull request, are started as soon   *)
(* as the record is there, also while the worker is still finalizing.      *)
(***************************************************************************)
EXTENDS Finalization

systemVars == <<workVars, finalVars, scoutVars, deliveryVars>>

TypeOK == WorkTypeOK /\ FinalTypeOK /\ ScoutTypeOK /\ DeliveryTypeOK

Init ==
    /\ WorkInit /\ FinalInit /\ ScoutInit /\ ProcessesInit
    /\ record = None /\ report = None /\ pr = None

Working == stage # "gone"

ClockMoves ==
    /\ stage \in FinalStages
    /\ clock' = [ample |-> "last", last |-> "over", over |-> "over"][clock]
    /\ clock' # clock
    /\ UNCHANGED <<stage, ranked, chosen, contents, failed, built, finalVars, scoutVars, deliveryVars>>

(* The worker crashes, or its launcher kills it.                           *)
WorkerKilled == Working /\ WorkerLeaves

WorkerStep == (BodyStep /\ UNCHANGED finalVars) \/ FinalStep

Delivery == DeliveryNext /\ UNCHANGED <<workVars, finalVars, scoutVars>>

Next ==
    \/ WorkerStep
    \/ Drift /\ UNCHANGED finalVars
    \/ ClockMoves
    \/ WorkerKilled
    \/ Delivery

(* The operating system runs the worker, whose waits are all bounded, and  *)
(* every continuation.                                                     *)
Fairness ==
    /\ WF_systemVars(WorkerStep)
    /\ \A r \in Runners : WF_systemVars(RunnerStep(r) /\ UNCHANGED <<workVars, finalVars, scoutVars>>)
    /\ SF_systemVars(LockAges /\ UNCHANGED <<workVars, finalVars, scoutVars>>)

Spec == Init /\ [][Next]_systemVars /\ Fairness

----------------------------------------------------------------------------
(* Every process ends: the worker, and every continuation that was started,*)
(* also behind a lock a dead process left.                                 *)
EveryProcessEnds ==
    /\ <>(stage = "gone")
    /\ ContinuationsEnd
=============================================================================
