---------------------------- MODULE Finalization ----------------------------
(***************************************************************************)
(* finalizeWorkflowEvidence of codebase-improvement-runtime.ts with the    *)
(* actions codebase-improvement.ts gives it: the backend is shut down, the *)
(* artifacts (issue ledger, delivery record, monitor) are published, again *)
(* when one of them failed, then the report, then the terminal monitor.    *)
(* Each publication is one rename guarded by commitPublication, which runs *)
(* without an await: an action that has run out of time publishes nothing. *)
(*                                                                         *)
(*   attempt    1 or 2: the pass over the artifacts                        *)
(*   reported   the report action has been tried                           *)
(*   failState  failureStateEntered by a finalizer's error                 *)
(*   published  deliveryRecordPublished                                    *)
(*   active     report.activeStatus                                        *)
(* Of the files only the record and the report are read again by anyone;   *)
(* what the issue ledger and the monitor say is left out.                  *)
(***************************************************************************)
EXTENDS ActiveWork

VARIABLES attempt, reported, failState, published, active
finalVars == <<attempt, reported, failState, published, active>>

FinalTypeOK ==
    /\ attempt \in {1, 2}
    /\ reported \in BOOLEAN /\ failState \in BOOLEAN /\ published \in BOOLEAN
    /\ active \in {"pending", "ready", "failed"}

FinalInit ==
    /\ attempt = 1
    /\ reported = FALSE /\ failState = FALSE /\ published = FALSE
    /\ active = "pending"

(* The catch block sets activeStatus; so does enterFailureState.           *)
ActiveNow == IF failed \/ failState THEN "failed" ELSE active

Healthy == ~failed /\ ~failState

FinalizerUnchanged ==
    UNCHANGED <<clock, ranked, chosen, contents, failed, built, scoutVars, locks, pc, exit, local, pr, sent>>

(* enterFailureState happens once, and not when the body has failed.       *)
EnterFailure == failState' = (failState \/ ~failed)

(* The worker's process is gone, and its memory with it.                   *)
Gone ==
    /\ stage' = "gone" /\ clock' = "over"
    /\ LeaveWorktree /\ EndScout
    /\ failed' = FALSE /\ built' = FALSE
    /\ attempt' = 1
    /\ reported' = FALSE /\ failState' = FALSE /\ published' = FALSE
    /\ active' = "pending"
    /\ UNCHANGED <<locks, pc, exit, local, pr, sent>>

WorkerLeaves == Gone /\ UNCHANGED files

(* A hung shutdown uses up all the time there is, and nothing is published.*)
Shutdown ==
    /\ stage = "shutdown"
    /\ \/ clock = "over" /\ WorkerLeaves
       \/ /\ clock # "over" /\ stage' = "artifacts"
          /\ UNCHANGED failState \/ EnterFailure
          /\ UNCHANGED <<attempt, reported, published, active, files>>
          /\ FinalizerUnchanged

(* Mutant: every failed pass is repeated.                                  *)
Repeated_Always(faulty) == faulty /\ ~failed

(* The first pass is repeated when one of its artifacts has failed.        *)
Repeated(faulty) == faulty /\ attempt = 1 /\ ~failed

Repeat == stage' = "artifacts" /\ attempt' = 2 /\ EnterFailure

(* One pass over the artifacts: issue ledger, delivery record (as the body *)
(* built it) and monitor.  Each fails by itself or because no time is left *)
(* and the others are tried all the same; what follows the publication of  *)
(* the record may still fail.  Then the report is next or, when that has   *)
(* been tried, the terminal monitor, which nobody reads, and the end.      *)
PublishArtifacts ==
    /\ stage = "artifacts"
    /\ \E recordOut, faulty \in BOOLEAN :
         /\ recordOut => built /\ clock # "over"
         /\ (built /\ ~recordOut) \/ clock = "over" => faulty
         /\ record' = IF recordOut THEN NewRecord ELSE record
         /\ \/ /\ Repeated(faulty) \/ ~reported
               /\ IF Repeated(faulty) THEN Repeat ELSE stage' = "report" /\ UNCHANGED <<attempt, failState>>
               /\ published' = (published \/ recordOut)
               /\ active' = IF recordOut /\ ActiveNow = "pending" THEN "ready" ELSE active
               /\ UNCHANGED reported
               /\ FinalizerUnchanged
            \/ ~Repeated(faulty) /\ reported /\ Gone
    /\ UNCHANGED report

(* The condition on report.sla.                                            *)
Passed == Healthy /\ published /\ ActiveNow = "ready"

(* Mutant: an error of the terminal monitor starts the artifacts over.     *)
PublishReport_MonitorRetries ==
    /\ stage = "report" /\ clock = "ample"
    /\ report' = [passed |-> Passed, delivery |-> "pending"]
    /\ \/ Gone
       \/ Repeat /\ reported' = TRUE /\ UNCHANGED <<published, active>> /\ FinalizerUnchanged
    /\ UNCHANGED record

(* The report needs 2 s to be left, so that its failure can be recorded.   *)
(* Only the terminal monitor is left then, and its error changes nothing.  *)
PublishReport ==
    /\ stage = "report" /\ clock = "ample"
    /\ report' = [passed |-> Passed, delivery |-> "pending"]
    /\ Gone
    /\ UNCHANGED record

(* A report that cannot be written, or not in time, is a failure of its    *)
(* own: the artifacts are published once more, to say so.                  *)
ReportFails ==
    /\ stage = "report"
    /\ \/ failed /\ WorkerLeaves
       \/ ~failed /\ Repeat /\ reported' = TRUE /\ UNCHANGED <<published, active, files>> /\ FinalizerUnchanged

FinalStep ==
    \/ Shutdown \/ PublishArtifacts \/ PublishReport \/ ReportFails

----------------------------------------------------------------------------
(* A report that says passed is the last thing the worker does, and backed *)
(* by the record it stands for.                                            *)
PassedReportIsBacked == (report # None /\ report.passed) => record # None /\ stage = "gone"
=============================================================================
