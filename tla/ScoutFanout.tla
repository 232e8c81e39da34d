---------------------------- MODULE ScoutFanout ----------------------------
(***************************************************************************)
(* runScopedScoutFanout of codebase-improvement-runtime.ts: one            *)
(* conversation per reserved source-test pair, all under one deadline, and *)
(* the controller that handles their ends one at a time.                   *)
(*                                                                         *)
(*   fanout   where the controller is                                      *)
(*   scope    each scope's status                                          *)
(*   answer   how its conversation ended, once it has; the controller has  *)
(*            not looked at it while the scope is pending                  *)
(*   tooled   the scopes whose conversation has used a tool                *)
(*   asked    the scopes whose cancellation was requested                  *)
(*   modelOver   the deadline has passed                                   *)
(***************************************************************************)
EXTENDS Naturals, FiniteSets

CONSTANTS Scopes,   \* the reserved pairs; a scope's candidate is named by its scope
          Quorum    \* how many accepted candidates are enough

ASSUME ScoutConstants == IsFiniteSet(Scopes) /\ Quorum \in Nat \ {0}

VARIABLES fanout, scope, answer, tooled, asked, modelOver
scoutVars == <<fanout, scope, answer, tooled, asked, modelOver>>

(* A candidate; none, or one that does not pass validation; an error.  Any *)
(* of them after the deadline is "late", whatever it is.                   *)
Answers == {"candidate", "none", "rejected"}

ScoutTypeOK ==
    /\ fanout \in {"idle", "racing", "settling", "done"}
    /\ scope \in [Scopes -> {"unstarted", "pending", "accepted", "no_candidate", "failed", "cancelled",
                             "timed_out"}]
    /\ answer \in [Scopes -> Answers \cup {"running", "overdue", "late"}]
    /\ tooled \subseteq Scopes
    /\ asked \subseteq Scopes
    /\ modelOver \in BOOLEAN

ScoutInit ==
    /\ fanout = "idle"
    /\ scope = [s \in Scopes |-> "unstarted"]
    /\ answer = [s \in Scopes |-> "running"]
    /\ tooled = {}
    /\ asked = {}
    /\ modelOver = FALSE

(* The controller's memory is gone once its records have been ranked.      *)
EndScout ==
    /\ fanout' = "idle"
    /\ scope' = [s \in Scopes |-> "unstarted"]
    /\ answer' = [s \in Scopes |-> "running"]
    /\ tooled' = {} /\ asked' = {} /\ modelOver' = FALSE

Pending  == {s \in Scopes : scope[s] = "pending"}
Accepted == {s \in Scopes : scope[s] = "accepted"}

(* The conversations are started in a row; those the deadline catches      *)
(* before their start have timed out.                                      *)
StartScopes ==
    /\ fanout = "idle"
    /\ \E started \in SUBSET Scopes :
         /\ scope' = [s \in Scopes |-> IF s \in started THEN "pending" ELSE "timed_out"]
         /\ modelOver' = (started # Scopes)
         /\ fanout' = IF started = Scopes /\ Scopes # {} THEN "racing" ELSE "settling"
    /\ UNCHANGED <<answer, tooled, asked>>

Runs(s) == scope[s] = "pending" /\ answer[s] \in {"running", "overdue"}

(* A scout must answer from its packet alone: the event of a tool call is  *)
(* seen before the outcome it precedes, and fails the scope.               *)
UseTool(s) ==
    /\ Runs(s)
    /\ tooled' = tooled \cup {s} /\ tooled' # tooled
    /\ UNCHANGED <<fanout, scope, answer, asked, modelOver>>

(* awaitBounded: the conversation's own time is over 5 s before the shared *)
(* deadline; it is cancelled, and whatever it answers comes too late.      *)
Overdue(s) ==
    /\ scope[s] = "pending" /\ answer[s] = "running"
    /\ answer' = [answer EXCEPT ![s] = "overdue"]
    /\ UNCHANGED <<fanout, scope, tooled, asked, modelOver>>

MayAnswer(s) == IF answer[s] = "running" /\ s \notin tooled THEN Answers ELSE {"rejected"}

(* A conversation ends; one the controller has cancelled may still answer. *)
ScopeEnds(s) ==
    /\ Runs(s)
    /\ \E a \in MayAnswer(s) : answer' = [answer EXCEPT ![s] = IF modelOver THEN "late" ELSE a]
    /\ UNCHANGED <<fanout, scope, tooled, asked, modelOver>>

(* Mutant: a cancelled scope's answer still counts.                        *)
Verdict_IgnoresCancellation(s) ==
    [late |-> "timed_out", rejected |-> "failed", none |-> "no_candidate", candidate |-> "accepted"][answer[s]]

(* What the controller makes of the end of a scope, in the code's order.   *)
Verdict(s) ==
    IF answer[s] # "late" /\ s \in asked THEN "cancelled"
    ELSE [late |-> "timed_out", rejected |-> "failed", none |-> "no_candidate",
          candidate |-> "accepted"][answer[s]]

(* The race is won by one scope.  The candidate that makes the quorum      *)
(* before the deadline has every other scope cancelled; the loop ends with *)
(* the last scope or at the deadline.  What is not accepted is not looked  *)
(* at again.                                                               *)
HandleScope(s) ==
    /\ fanout = "racing"
    /\ scope[s] = "pending" /\ answer[s] \in Answers \cup {"late"}
    /\ scope' = [scope EXCEPT ![s] = Verdict(s)]
    /\ answer' = [answer EXCEPT ![s] = IF Verdict(s) = "accepted" THEN @ ELSE "late"]
    /\ tooled' = IF Verdict(s) = "accepted" THEN tooled ELSE tooled \ {s}
    /\ asked' = IF Verdict(s) = "accepted" /\ Cardinality(Accepted) + 1 = Quorum /\ ~modelOver
                THEN Pending \ {s} ELSE asked
    /\ fanout' = IF Pending = {s} \/ modelOver THEN "settling" ELSE "racing"
    /\ UNCHANGED modelOver

(* The race is won by the deadline.                                        *)
DeadlineWins ==
    /\ fanout = "racing" /\ modelOver
    /\ fanout' = "settling"
    /\ UNCHANGED <<scope, answer, tooled, asked, modelOver>>

(* Scopes left behind have timed out; the wait for their cancellations is  *)
(* bounded by the same deadline.                                           *)
SettleScopes ==
    /\ fanout = "settling"
    /\ scope' = [s \in Scopes |-> IF scope[s] = "pending" THEN "timed_out" ELSE scope[s]]
    /\ fanout' = "done"
    /\ UNCHANGED <<answer, tooled, asked, modelOver>>

ModelDeadline ==
    /\ fanout \in {"racing", "settling"} /\ modelOver = FALSE
    /\ modelOver' = TRUE
    /\ UNCHANGED <<fanout, scope, answer, tooled, asked>>

ScoutNext ==
    \/ StartScopes \/ DeadlineWins \/ SettleScopes \/ ModelDeadline
    \/ \E s \in Scopes : UseTool(s) \/ Overdue(s) \/ ScopeEnds(s) \/ HandleScope(s)

----------------------------------------------------------------------------
(* No more candidates are accepted than the quorum asked for, and each of  *)
(* them answered in time, from its packet alone, and was never cancelled.  *)
AcceptedAreSound ==
    /\ Cardinality(Accepted) <= Quorum
    /\ \A s \in Accepted : s \notin asked /\ s \notin tooled /\ answer[s] = "candidate"
=============================================================================
