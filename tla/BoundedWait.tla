----------------------------- MODULE BoundedWait -----------------------------
(***************************************************************************)
(* How the improvement workflow waits for an agent: awaitBounded of        *)
(* codebase-improvement-runtime.ts, under awaitConversationWithinBudget    *)
(* ("stage": one conversation that its caller has started) and under       *)
(* awaitOneTimeoutRetry ("retry": up to two, the second when the first has *)
(* timed out).  A conversation that is out of time is cancelled, and its   *)
(* end is waited for with a timer of its own, since an agent that is still *)
(* running still writes to the worktree.                                   *)
(*                                                                         *)
(* The clock is a number of ticks that may move between any two steps, so  *)
(* timers fire late and every now() is another reading.                    *)
(*                                                                         *)
(*   caller    which of the two; total: what it may take                   *)
(*   wait      what it does next                                           *)
(*   round     the attempt it is at; began: when that began                *)
(*   timeouts  the active and the settlement timeout of the attempt        *)
(*   settleBy  the deadline of its cancellation                            *)
(*   agents    how each attempt's conversation ended, and ended: when      *)
(*   cancel    its cancel(): "none", "asked", "answered"                   *)
(*   outcome   what awaitBounded returned or threw; result: what the whole *)
(*             wait did                                                    *)
(***************************************************************************)
EXTENDS Naturals

CONSTANTS
    Totals,              \* what a caller may have left
    AttemptTimeout,      \* options.attemptTimeoutMs
    SettlementReserve,   \* options.settlementTimeoutMs, CONVERSATION_SETTLEMENT_RESERVE_MS
    ClockBound           \* bound: ticks in a behaviour

ASSUME WaitConstants ==
    /\ Totals \subseteq Nat /\ ClockBound \in Nat
    /\ AttemptTimeout \in Nat \ {0} /\ SettlementReserve \in Nat \ {0}

VARIABLES caller, total, clock, wait, round, began, timeouts, settleBy,
          agents, ended, cancel, outcome, result
plan == <<caller, total, round, began, timeouts, settleBy>>
waitVars == <<plan, clock, wait, agents, ended, cancel, outcome, result>>

Rounds  == {1, 2}
Answers == {"success", "failed", "expired", "rejected"}   \* expired: by a timer of its own
Least(m, n) == IF m <= n THEN m ELSE n

WaitTypeOK ==
    /\ caller \in {"stage", "retry"} /\ total \in Totals /\ clock \in 0 .. ClockBound
    /\ wait \in {"begin", "racing", "settling", "judging", "over"}
    /\ round \in Rounds /\ began \in Nat /\ settleBy \in Nat
    /\ timeouts \in [active : Nat, settlement : Nat]
    /\ agents \in [Rounds -> {"none", "running"} \cup Answers] /\ ended \in [Rounds -> Nat]
    /\ cancel \in {"none", "asked", "answered"}
    /\ outcome \in {"none", "timeout", "unsettled"} \cup Answers
    /\ result \in {"none", "timeout", "unsettled", "cancelled", "overrun"} \cup Answers

(* A stage starts its agent before it asks for what time is left.          *)
WaitInit ==
    /\ caller \in {"stage", "retry"} /\ total \in Totals
    /\ clock = 0 /\ wait = "begin" /\ round = 1 /\ began = 0
    /\ timeouts = [active |-> 0, settlement |-> 0] /\ settleBy = 0
    /\ agents = [r \in Rounds |-> IF r = 1 /\ caller = "stage" THEN "running" ELSE "none"]
    /\ ended = [r \in Rounds |-> 0]
    /\ cancel = "none" /\ outcome = "none" /\ result = "none"

Ticks ==
    /\ clock < ClockBound
    /\ clock' = clock + 1
    /\ UNCHANGED <<plan, wait, agents, ended, cancel, outcome, result>>

-----------------------------------------------------------------------------
Left == IF caller = "retry" /\ total > clock THEN total - clock
        ELSE IF caller = "retry" THEN 0 ELSE total

(* reserveConversationTimeouts: half of what is left at most is kept for   *)
(* the cancellation.                                                       *)
Reserved ==
    LET settlement == Least(SettlementReserve, Left \div 2)
        requested  == IF caller = "retry" THEN AttemptTimeout ELSE Left
    IN [active |-> Least(requested, Left - settlement), settlement |-> settlement]

BeginAttempt ==
    /\ wait = "begin" /\ Left >= 2
    /\ wait' = "racing" /\ began' = clock /\ timeouts' = Reserved
    /\ agents' = IF caller = "stage" THEN agents ELSE [agents EXCEPT ![round] = "running"]
    /\ cancel' = "none" /\ outcome' = "none"
    /\ UNCHANGED <<caller, total, clock, round, settleBy, ended, result>>

(* Too little is left: the last timeout is the result, or an error that    *)
(* does nothing about the agent a stage has already started.               *)
TooLate ==
    /\ wait = "begin" /\ Left < 2
    /\ wait' = "over"
    /\ result' = IF round = 2 THEN "cancelled" ELSE "overrun"
    /\ UNCHANGED <<plan, clock, agents, ended, cancel, outcome>>

AgentEnds(r) ==
    /\ agents[r] = "running"
    /\ \E answer \in Answers : agents' = [agents EXCEPT ![r] = answer]
    /\ ended' = [ended EXCEPT ![r] = clock]
    /\ UNCHANGED <<plan, clock, wait, cancel, outcome, result>>

CancelReturns ==
    /\ cancel = "asked"
    /\ cancel' = "answered"
    /\ UNCHANGED <<plan, clock, wait, agents, ended, outcome, result>>

-----------------------------------------------------------------------------
(* awaitBounded.                                                           *)

Ends(o) ==
    /\ wait' = "judging" /\ outcome' = o
    /\ UNCHANGED <<plan, clock, agents, ended, cancel, result>>

Over == agents[round] # "running"
InTime == ended[round] < began + timeouts.active

(* The conversation ends before the timer fires, which may fire late.      *)
AgentWins ==
    /\ wait = "racing" /\ Over
    /\ Ends(IF InTime THEN agents[round] ELSE "timeout")

TimerWins ==
    /\ wait = "racing" /\ ~Over /\ clock >= began + timeouts.active
    /\ wait' = "settling" /\ cancel' = "asked" /\ settleBy' = clock + timeouts.settlement
    /\ UNCHANGED <<caller, total, clock, round, began, timeouts, agents, ended, outcome, result>>

CancelSettled_CancelOnly == cancel = "answered"

(* Both the cancel() and the conversation have ended.                      *)
CancelSettled == cancel = "answered" /\ Over

SettlementEnds ==
    /\ wait = "settling"
    /\ CancelSettled \/ clock >= settleBy
    /\ Ends(IF CancelSettled /\ clock < settleBy THEN "timeout" ELSE "unsettled")

-----------------------------------------------------------------------------
(* What the callers make of it.  Only a timeout whose conversation is over *)
(* is tried again, when there is time for another attempt; a success that  *)
(* is too late by now is one, too.                                         *)
TimedOut ==
    \/ outcome \in {"timeout", "expired"}
    \/ outcome = "success" /\ clock >= Least(began + timeouts.active, total)

TryAgain ==
    /\ wait = "judging" /\ caller = "retry" /\ TimedOut /\ round = 1
    /\ clock + 2 <= total
    /\ wait' = "begin" /\ round' = 2
    /\ UNCHANGED <<caller, total, began, timeouts, settleBy, clock, agents, ended, cancel, outcome, result>>

Report ==
    /\ wait = "judging"
    /\ ~(caller = "retry" /\ TimedOut /\ round = 1 /\ clock + 2 <= total)
    /\ wait' = "over"
    /\ result' = IF caller = "retry" /\ TimedOut THEN "cancelled" ELSE outcome
    /\ UNCHANGED <<plan, clock, agents, ended, cancel, outcome>>

WaitNext ==
    \/ Ticks \/ BeginAttempt \/ TooLate \/ CancelReturns \/ AgentWins \/ TimerWins \/ SettlementEnds
    \/ TryAgain \/ Report
    \/ \E r \in Rounds : AgentEnds(r)

-----------------------------------------------------------------------------
(* A workflow that goes on after a wait goes on alone: no second agent is  *)
(* started beside the first, and none still runs when the wait is over --  *)
(* unless its cancellation did not settle, which is an error of its own,   *)
(* or no time was left for the wait to begin with.  And what is returned   *)
(* as a success ended while its attempt, and all attempts, had time left.  *)
GoesOnAlone ==
    /\ agents[2] # "none" => agents[1] # "running"
    /\ wait = "over" =>
          \/ result \in {"unsettled", "overrun"}
          \/ /\ \A r \in Rounds : agents[r] # "running"
             /\ cancel # "asked"
             /\ result = "success" =>
                   /\ agents[round] = "success" /\ cancel = "none"
                   /\ ended[round] < began + timeouts.active
                   /\ caller = "retry" => ended[round] < total
=============================================================================
