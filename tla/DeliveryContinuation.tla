------------------------ MODULE DeliveryContinuation ------------------------
(***************************************************************************)
(* .orca/workflows/codebase-improvement.ts --continue-delivery=<run>: the  *)
(* processes that carry one finished improvement run from its ready pull   *)
(* request to a merge.  Each continuation is a process of its own, started *)
(* by hand, that takes a lock directory beside the delivery record, reads  *)
(* the record and the report, asks GitHub, perhaps merges, mirrors its     *)
(* verdict into the report, appends an attempt to the record and removes   *)
(* the lock.  A process may be killed between any two of these steps.      *)
(*                                                                         *)
(*   record   delivery.json: its status and the statuses of its attempts   *)
(*   report   report.json: whether the active run passed, and its mirror   *)
(*            of the delivery status                                       *)
(*   lock     the lock directory: whom owner.json names (nobody between    *)
(*            mkdir and publication), whether it is 60 s old, and (history)*)
(*            who has found this very directory stale                      *)
(*   stolen   (history) a rename has taken another directory than the one  *)
(*            it had found stale                                           *)
(*   pc       what each continuation does next; exit: the verdict it ends  *)
(*            with, none if it fails                                       *)
(*   late     the continuation's external deadline has passed              *)
(*   waited   retryingExistingLock                                         *)
(*   verdict  the status the continuation is about to write                *)
(*   base     the record read back just before it is replaced              *)
(*   pr       the pull request on GitHub, which is outside src/, once made *)
(*   sent     the merge requests GitHub has not answered yet               *)
(***************************************************************************)
EXTENDS Naturals, Sequences, FiniteSets

CONSTANTS Runners,   \* the continuations that may be started, one process each
          None

VARIABLES record, report, lock, stolen, pc, exit, late, waited, verdict, base, pr, sent

files  == <<record, report>>
locks  == <<lock, stolen>>
local  == <<late, waited, verdict, base>>
github == <<pr, sent>>
deliveryVars == <<record, report, lock, stolen, pc, exit, late, waited, verdict, base, pr, sent>>

Statuses == {"pending", "blocked", "delivered"}
Terminal == {"blocked", "delivered"}

Acquiring == {"mkdir", "publish", "owner", "stat", "rename", "wait"}
Asking    == {"ready", "checks", "protection", "freshChecks", "freshReady", "merge", "confirm"}
Inside    == {"read", "mirror"} \cup Asking \cup {"mirrorVerdict", "reread", "replace"}
Holding   == {"publish"} \cup Inside \cup {"unlock"}
Ended     == {"done"}

(* process.kill(pid, 0) succeeds: the process exists.                      *)
Alive(r) == pc[r] \notin {"off"} \cup Ended

NewRecord == [status |-> "pending", attempts |-> <<>>]

Records      == [status : Statuses, attempts : Seq(Statuses)]
Reports      == [passed : BOOLEAN, delivery : Statuses]
Locks        == [owner : Runners \cup {None}, old : BOOLEAN, judged : SUBSET Runners]
PullRequests == [locked : BOOLEAN, green : BOOLEAN, protected : BOOLEAN, merged : {"no", "continuation", "other"}]

ASSUME DeliveryConstants == /\ IsFiniteSet(Runners)
                            /\ None \notin Runners
                            /\ None \notin Records \cup Reports \cup Locks \cup PullRequests

DeliveryTypeOK ==
    /\ record \in {None} \cup Records
    /\ report \in {None} \cup Reports
    /\ lock \in {None} \cup Locks /\ stolen \in BOOLEAN
    /\ pc \in [Runners -> {"off"} \cup Acquiring \cup Inside \cup {"unlock"} \cup Ended]
    /\ exit \in [Runners -> {"none"} \cup Statuses]
    /\ late \in [Runners -> BOOLEAN]
    /\ waited \in [Runners -> BOOLEAN]
    /\ verdict \in [Runners -> Statuses]
    /\ base \in [Runners -> {None} \cup Records]
    /\ pr \in {None} \cup PullRequests
    /\ sent \subseteq Runners

ProcessesInit ==
    /\ lock = None /\ stolen = FALSE
    /\ pc = [r \in Runners |-> "off"]
    /\ exit = [r \in Runners |-> "none"]
    /\ late = [r \in Runners |-> FALSE]
    /\ waited = [r \in Runners |-> FALSE]
    /\ verdict = [r \in Runners |-> "pending"]
    /\ base = [r \in Runners |-> None]
    /\ sent = {}

(* Whether the head is the locked one, the required checks have passed and *)
(* the base branch is protected, and who has merged it.                    *)
OpenPullRequest == [locked : {TRUE}, green : {FALSE}, protected : BOOLEAN, merged : {"no"}]

(* A run whose report has passed has just ended.                           *)
DeliveryInit ==
    /\ ProcessesInit
    /\ record = NewRecord
    /\ report = [passed |-> TRUE, delivery |-> "pending"]
    /\ pr \in OpenPullRequest

----------------------------------------------------------------------------
Goto(r, label) == pc' = [pc EXCEPT ![r] = label]
SetLock(l)  == lock' = l

(* The process is gone, and its memory with it.  (What a process will not  *)
(* look at again is reset wherever it is past it.)                         *)
Leave(r, label) ==
    /\ Goto(r, label)
    /\ late' = [late EXCEPT ![r] = FALSE]
    /\ waited' = [waited EXCEPT ![r] = FALSE]
    /\ verdict' = [verdict EXCEPT ![r] = "pending"]
    /\ base' = [base EXCEPT ![r] = None]

(* The continuation has its result and goes on to the finally block.       *)
EndWith(r, how) == Leave(r, "unlock") /\ exit' = [exit EXCEPT ![r] = how]

Finish(r, status) == Goto(r, "mirrorVerdict") /\ verdict' = [verdict EXCEPT ![r] = status]

(* The launcher starts a continuation once the record exists and is valid. *)
Start(r) ==
    /\ pc[r] = "off"
    /\ record # None
    /\ Goto(r, "mkdir")
    /\ UNCHANGED <<files, locks, exit, local, github>>

(* The top of acquireDeliveryRecordLock's loop: past the deadline a waiter *)
(* gives up, otherwise mkdir either makes the directory or finds one.      *)
MakeLock(r) ==
    /\ pc[r] = "mkdir"
    /\ \/ waited[r] /\ late[r] /\ Leave(r, "done") /\ UNCHANGED <<lock, exit>>
       \/ ~(waited[r] /\ late[r]) /\ lock = None
          /\ SetLock([owner |-> None, old |-> FALSE, judged |-> {}]) /\ Goto(r, "publish") /\ UNCHANGED <<exit, local>>
       \/ ~(waited[r] /\ late[r]) /\ lock # None /\ Goto(r, "owner") /\ UNCHANGED <<lock, exit, local>>
    /\ UNCHANGED <<files, stolen, github>>

(* writeDeliveryRecordLockOwner: into whatever directory is there by now.  *)
(* On a failure the code removes that directory and gives up.              *)
PublishOwner(r) ==
    /\ pc[r] = "publish"
    /\ \/ /\ lock # None /\ SetLock([lock EXCEPT !.owner = r]) /\ Goto(r, "read")
          /\ waited' = [waited EXCEPT ![r] = FALSE]
          /\ UNCHANGED <<exit, late, verdict, base>>
       \/ SetLock(None) /\ Leave(r, "done") /\ UNCHANGED exit
    /\ UNCHANGED <<files, stolen, github>>

(* Mutant: the owner's liveness is not looked at.                          *)
ReadOwner_AnyOwner(r) ==
    /\ pc[r] = "owner"
    /\ Goto(r, "stat")
    /\ UNCHANGED <<files, locks, exit, local, github>>

(* recoverStaleDeliveryRecordLock reads owner.json: a live owner keeps its *)
(* lock, an unreadable or dead one is left to the age of the directory.    *)
ReadOwner(r) ==
    /\ pc[r] = "owner"
    /\ IF lock # None /\ lock.owner # None /\ Alive(lock.owner)
       THEN Goto(r, "wait")
       ELSE Goto(r, "stat")
    /\ UNCHANGED <<files, locks, exit, local, github>>

(* An old one is judged stale; one that is gone may be made again.         *)
StatLock(r) ==
    /\ pc[r] = "stat"
    /\ IF lock # None /\ lock.old
       THEN Goto(r, "rename") /\ lock' = [lock EXCEPT !.judged = @ \cup {r}]
       ELSE Goto(r, IF lock = None THEN "mkdir" ELSE "wait") /\ UNCHANGED lock
    /\ UNCHANGED <<files, stolen, exit, local, github>>

(* The rename to a private name takes whatever directory is there now.     *)
TakeStaleLock(r) ==
    /\ pc[r] = "rename"
    /\ stolen' = (stolen \/ (lock # None /\ r \notin lock.judged))
    /\ SetLock(None)
    /\ Goto(r, "mkdir")
    /\ UNCHANGED <<files, exit, local, github>>

WaitForLock(r) ==
    /\ pc[r] = "wait"
    /\ IF late[r]
       THEN Leave(r, "done")
       ELSE Goto(r, "mkdir") /\ waited' = [waited EXCEPT ![r] = TRUE] /\ UNCHANGED <<late, verdict, base>>
    /\ UNCHANGED <<files, locks, exit, github>>

----------------------------------------------------------------------------
(* Read the record and the report; a report that is absent or whose active *)
(* run has not passed is refused by renderDeliveryReportEvidence.          *)
ReadFiles(r) ==
    /\ pc[r] = "read"
    /\ IF report = None \/ (report # None /\ report.passed = FALSE)
       THEN EndWith(r, "none")
       ELSE /\ Goto(r, "mirror")
            /\ verdict' = [verdict EXCEPT ![r] = record.status]
            /\ UNCHANGED <<exit, late, waited, base>>
    /\ UNCHANGED <<files, locks, github>>

(* The first mirror brings the report up to the record, which repairs what *)
(* a crash between the two left; a terminal record ends the continuation.  *)
(* Both mirrors refuse to write past the deadline.                         *)
MirrorRecord(r) ==
    /\ pc[r] = "mirror"
    /\ IF late[r]
       THEN EndWith(r, "none") /\ UNCHANGED report
       ELSE /\ report' = [report EXCEPT !.delivery = verdict[r]]
            /\ IF verdict[r] \in Terminal
               THEN EndWith(r, verdict[r])
               ELSE Goto(r, "ready") /\ UNCHANGED <<exit, local>>
    /\ UNCHANGED <<record, locks, github>>

(* What GitHub has to say of the pull request and of main.  A ready pull    *)
(* request is one with the locked head: its state is not asked for, so     *)
(* that a merged one is ready too.                                         *)
LockedHead   == pr.locked
MergedHead   == LockedHead /\ pr.merged # "no"
Protected    == pr.protected
ChecksPassed == pr.green

(* A question to GitHub.  Past the deadline, or when the answer is not to  *)
(* be had or cannot be read, the verdict is pending; an answer that        *)
(* disproves what must hold blocks; one that shows it lets r go on.        *)
Ask(r, mayBlock, holds, then) ==
    /\ \/ Finish(r, "pending")
       \/ ~late[r] /\ mayBlock /\ Finish(r, "blocked")
       \/ ~late[r] /\ holds /\ then
    /\ UNCHANGED <<files, locks, exit, late, waited, base, github>>

GoOn(r, to) == Goto(r, to) /\ UNCHANGED verdict

(* readReady: a 404, or a pull request that is not the locked one, blocks. *)
ReadReady(r, from, to) == pc[r] = from /\ Ask(r, TRUE, LockedHead, GoOn(r, to))

(* remoteCheckState: checks still running leave pending, a failed one      *)
(* blocks.                                                                 *)
ReadChecks(r, from, to) == pc[r] = from /\ Ask(r, ~ChecksPassed, ChecksPassed, GoOn(r, to))

(* Mutant: main is not asked whether it is protected.                      *)
ReadProtection_Trusts(r) ==
    /\ pc[r] = "protection"
    /\ Goto(r, "freshChecks")
    /\ UNCHANGED <<files, locks, exit, local, github>>

ReadProtection(r) == pc[r] = "protection" /\ Ask(r, TRUE, Protected, GoOn(r, "freshChecks"))

(* gh pr merge --squash --match-head-commit: the request is on its way.    *)
(* Whatever the command answers, the merge is confirmed by a read.         *)
SendMerge(r) ==
    /\ pc[r] = "merge"
    /\ IF late[r]
       THEN Finish(r, "pending") /\ UNCHANGED sent
       ELSE Goto(r, "confirm") /\ sent' = sent \cup {r} /\ UNCHANGED verdict
    /\ UNCHANGED <<files, locks, exit, late, waited, base, pr>>

(* confirmMerged: an answer that does not prove the merge of the locked    *)
(* head blocks.                                                            *)
ConfirmMerge(r) == pc[r] = "confirm" /\ Ask(r, TRUE, MergedHead, Finish(r, "delivered"))

----------------------------------------------------------------------------
(* A file that cannot be written, or not in time, ends the continuation    *)
(* without a verdict; but what fails while "delivered" is persisted falls  *)
(* into the catch block of confirmMerged, and "blocked" is tried instead.  *)
PersistFails(r) ==
    \/ verdict[r] = "delivered" /\ Finish(r, "blocked") /\ UNCHANGED <<exit, late, waited, base>>
    \/ verdict[r] # "delivered" /\ EndWith(r, "none")

(* Mutant: the report is rendered from the record as it was read.          *)
MirrorVerdict_OldStatus(r) ==
    /\ pc[r] = "mirrorVerdict"
    /\ report' = [report EXCEPT !.delivery = record.status]
    /\ Goto(r, "reread")
    /\ UNCHANGED <<record, locks, exit, local, github>>

(* persist: the report first, then the record.                             *)
MirrorVerdict(r) ==
    /\ pc[r] = "mirrorVerdict"
    /\ \/ PersistFails(r) /\ UNCHANGED report
       \/ /\ ~late[r]
          /\ report' = [report EXCEPT !.delivery = verdict[r]]
          /\ Goto(r, "reread")
          /\ UNCHANGED <<exit, local>>
    /\ UNCHANGED <<record, locks, github>>

RereadRecord(r) ==
    /\ pc[r] = "reread"
    /\ base' = [base EXCEPT ![r] = record]
    /\ Goto(r, "replace")
    /\ UNCHANGED <<files, locks, exit, late, waited, verdict, github>>

(* Mutant: the attempts before this one are dropped.                       *)
MergeAttempt_Rewrites(current, status) == [status |-> status, attempts |-> <<status>>]

(* mergeDeliveryAttempt: a terminal record is kept.                        *)
MergeAttempt(current, status) ==
    IF current.status \in Terminal THEN current
    ELSE [status |-> status, attempts |-> Append(current.attempts, status)]

(* The new record is written beside the old one and renamed over it.       *)
ReplaceRecord(r) ==
    /\ pc[r] = "replace"
    /\ \/ record' = MergeAttempt(base[r], verdict[r]) /\ EndWith(r, verdict[r])
       \/ PersistFails(r) /\ UNCHANGED record
    /\ UNCHANGED <<report, locks, github>>

(* finally: rm of the lock path, whoever's directory is there.             *)
Unlock(r) ==
    /\ pc[r] = "unlock"
    /\ SetLock(None)
    /\ Leave(r, "done")
    /\ UNCHANGED <<files, stolen, exit, github>>

----------------------------------------------------------------------------
(* The process is killed; a merge request it sent stays sent.              *)
Crash(r) ==
    /\ Alive(r)
    /\ Leave(r, "done")
    /\ exit' = [exit EXCEPT ![r] = "none"]
    /\ UNCHANGED <<files, locks, github>>

DeadlinePasses(r) ==
    /\ Alive(r) /\ pc[r] # "unlock" /\ late[r] = FALSE
    /\ late' = [late EXCEPT ![r] = TRUE]
    /\ UNCHANGED <<files, locks, pc, exit, waited, verdict, base, github>>

(* The directory grows 60 s old.  Between mkdir and owner.json, and        *)
(* between reading owner.json and stat, a process is taken to be faster.   *)
LockAges ==
    /\ lock # None /\ (lock # None => lock.old = FALSE)
    /\ \A r \in Runners : pc[r] \notin {"publish", "stat"}
    /\ lock' = [lock EXCEPT !.old = TRUE]
    /\ UNCHANGED <<files, stolen, pc, exit, local, github>>

(* GitHub answers a merge request: it is refused unless the pull request   *)
(* is open, its head is the one asked for, and a protected branch's checks *)
(* have passed.                                                            *)
MergeAnswered(r) ==
    /\ r \in sent
    /\ sent' = sent \ {r}
    /\ pr' = IF pr.merged = "no" /\ pr.locked /\ (pr.protected => pr.green)
             THEN [pr EXCEPT !.merged = "continuation"] ELSE pr
    /\ UNCHANGED <<files, locks, pc, exit, local>>

(* Checks are rerun, someone pushes to the branch or merges the pull       *)
(* request; a merged one does not change.  While nobody is about to look   *)
(* at it and no request is out, nothing needs to happen to it yet.         *)
OthersAct ==
    /\ sent # {} \/ \E r \in Runners : pc[r] \in Asking
    /\ pr.merged = "no"
    /\ \/ pr' = [pr EXCEPT !.green = ~pr.green]
       \/ pr.locked /\ pr' = [pr EXCEPT !.locked = FALSE, !.green = FALSE]
       \/ pr' = [pr EXCEPT !.merged = "other"]
    /\ UNCHANGED <<files, locks, pc, exit, local, sent>>

RunnerStep(r) ==
    \/ MakeLock(r) \/ PublishOwner(r) \/ ReadOwner(r) \/ StatLock(r) \/ TakeStaleLock(r)
    \/ WaitForLock(r) \/ ReadFiles(r) \/ MirrorRecord(r)
    \/ ReadReady(r, "ready", "checks") \/ ReadChecks(r, "checks", "protection")
    \/ ReadProtection(r) \/ ReadChecks(r, "freshChecks", "freshReady")
    \/ ReadReady(r, "freshReady", "merge") \/ SendMerge(r) \/ ConfirmMerge(r)
    \/ MirrorVerdict(r) \/ RereadRecord(r) \/ ReplaceRecord(r) \/ Unlock(r)

DeliveryNext ==
    \/ \E r \in Runners : Start(r) \/ RunnerStep(r) \/ Crash(r) \/ DeadlinePasses(r) \/ MergeAnswered(r)
    \/ LockAges
    \/ OthersAct

(* The operating system runs every live process, and time passes whatever  *)
(* a waiter is doing, however often it is between its two looks at a lock. *)
DeliveryFairness == (\A r \in Runners : WF_deliveryVars(RunnerStep(r))) /\ SF_deliveryVars(LockAges)

DeliverySpec == DeliveryInit /\ [][DeliveryNext]_deliveryVars /\ DeliveryFairness

----------------------------------------------------------------------------
(* However many contend for the lock, two are inside it at the same time   *)
(* only once a rename has taken another directory than the one it had      *)
(* found stale: neither a lock found missing or found old, nor a crash, nor*)
(* an owner not yet published lets a second one in.                        *)
OneHolder == ~stolen => Cardinality({r \in Runners : pc[r] \in Holding}) <= 1

(* A lock whose owner is a live process inside it is taken away by nobody  *)
(* else: "never reclaims a stale-looking lock with a live owner".          *)
LiveLockKept ==
    [][\A r \in Runners :
         (lock # None /\ lock.owner = r /\ pc[r] \in Inside /\ pc'[r] \in Inside \cup {"unlock"})
            => lock' # None /\ lock'.owner = r]_deliveryVars

(* A merge made by a continuation is the merge of the locked head with     *)
(* its required checks green at that moment, and a record or an exit code  *)
(* says delivered only of a pull request that is merged.                   *)
MergeIsSound ==
    /\ (pr # None /\ pr.merged = "continuation") => pr.green /\ pr.locked
    /\ (record # None /\ record.status = "delivered") \/ (\E r \in Runners : exit[r] = "delivered")
          => pr # None /\ pr.merged # "no"

(* A verdict a continuation exits with is in the record: every pending one *)
(* as an attempt of its own, a terminal one as the record's status -- as   *)
(* long as no lock was stolen, after which one rename of the record may    *)
(* undo another.                                                           *)
AttemptsRecorded ==
    (record # None /\ ~stolen) =>
      /\ Cardinality({r \in Runners : exit[r] = "pending"})
           <= Cardinality({i \in DOMAIN record.attempts : record.attempts[i] = "pending"})
      /\ \A r \in Runners : exit[r] \in Terminal => exit[r] = record.status

(* A continuation that ends with a verdict leaves a report that agrees     *)
(* with the record, whatever a crash of an earlier one left behind, and as *)
(* long as no lock was stolen.                                             *)
ReportRepaired ==
    [][\A r \in Runners :
         (~stolen /\ pc[r] \in Inside /\ pc'[r] = "unlock" /\ exit'[r] \in Statuses)
            => report'.delivery = record'.status]_deliveryVars

(* Every continuation ends, also behind a lock a dead process left.        *)
ContinuationsEnd == \A r \in Runners : (pc[r] = "mkdir") ~> (pc[r] \in Ended)
=============================================================================
