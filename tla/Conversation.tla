---------------------------- MODULE Conversation ----------------------------
(***************************************************************************)
(* src/conversation/conversation.ts and settlement-reservation.ts: how one *)
(* conversation settles.  Every method here runs without an await, so each *)
(* is an operator from the conversation's state to its next state, and a   *)
(* driver that calls several in a row composes them in one step.           *)
(*                                                                         *)
(* A conversation is a record:                                             *)
(*   outcome   "none" until settled, then the kind of settlement; settled, *)
(*             the closed event queue and the resolved outcome promise are *)
(*             this one fact, set together by complete()                   *)
(*   cancel    the promise returned by cancel(): none (never called),      *)
(*             pending, resolved, rejected; the abort signal and the       *)
(*             registered cancellation-failure handler are cancel # "none" *)
(*   held      who holds a settlement reservation; the code counts them    *)
(*             (depth), and each release function works once               *)
(*   pending   the settlement deferred by the reservation, or "none"       *)
(*   completion  the promise observeConversationCancellationCompletion     *)
(*             returns: pending or resolved                                *)
(*   offers    history: the settlements asked for before the conversation  *)
(*             settled and not ignored                                     *)
(***************************************************************************)
EXTENDS Naturals

Kinds == {"success", "failure", "cancellation", "cancellation_failure"}

CancelKinds == {"cancellation", "cancellation_failure"}

Priority == [success |-> 0, failure |-> 1, cancellation |-> 2, cancellation_failure |-> 3]

New == [outcome |-> "none", cancel |-> "none", held |-> {}, pending |-> "none",
        completion |-> "pending", offers |-> {}]

Settled(c) == c.outcome # "none"
Aborted(c) == c.cancel # "none"

(* Mutant: no `if (this.settled) return`.                                  *)
Complete_EveryTime(c, kind) == [c EXCEPT !.outcome = kind]

(* complete(): the first settlement wins.                                  *)
Complete(c, kind) == IF Settled(c) THEN c ELSE [c EXCEPT !.outcome = kind]

SettleCancel(c, result) == IF c.cancel = "pending" THEN [c EXCEPT !.cancel = result] ELSE c

(* Mutant: a deferred success or failure is published without a second     *)
(* look at the cancellation.                                               *)
Publish_NoRecheck(c, kind) ==
    CASE kind = "cancellation"         -> SettleCancel(Complete(c, kind), "resolved")
      [] kind = "cancellation_failure" -> SettleCancel(Complete(c, kind), "rejected")
      [] OTHER                         -> Complete(c, kind)

(* The four publish callbacks.                                             *)
Publish(c, kind) ==
    CASE kind = "cancellation"         -> SettleCancel(Complete(c, kind), "resolved")
      [] kind = "cancellation_failure" -> SettleCancel(Complete(c, kind), "rejected")
      [] OTHER                         -> IF Aborted(c) THEN c ELSE Complete(c, kind)

(* Mutant: the last deferred settlement replaces the others.               *)
Stronger_Latest(kind, pending) == TRUE

Stronger(kind, pending) ==
    \/ pending = "none"
    \/ pending # "none" /\ Priority[kind] > Priority[pending]

(* deferConversationSettlement: while reserved, keep the strongest         *)
(* settlement; otherwise publish at once.                                  *)
Settle(c, kind) ==
    IF c.held = {} THEN Publish(c, kind)
    ELSE IF Stronger(kind, c.pending) THEN [c EXCEPT !.pending = kind] ELSE c

Offer(c, kind) ==
    Settle(IF Settled(c) THEN c ELSE [c EXCEPT !.offers = @ \cup {kind}], kind)

Succeed(c) == IF Aborted(c) THEN c ELSE Offer(c, "success")
Fail(c)    == IF Aborted(c) THEN c ELSE Offer(c, "failure")

(* cancel() up to the call of onCancel.  Only the first call on an open    *)
(* conversation does anything; the others return the same promise.         *)
CancelTakesEffect(c) == ~Settled(c) /\ ~Aborted(c)
RequestCancel(c) == IF CancelTakesEffect(c) THEN [c EXCEPT !.cancel = "pending"] ELSE c

(* onCancel has finished; it threw or rejected.                            *)
CleanupSucceeded(c) == [Offer(c, "cancellation") EXCEPT !.completion = "resolved"]
CleanupFailed(c)    == [Offer(c, "cancellation_failure") EXCEPT !.completion = "resolved"]

(* reportConversationCancellationFailure: false, and nothing done, before  *)
(* cancel() has registered its handler.                                    *)
ReportCancellationFailure(c) == IF Aborted(c) THEN CleanupFailed(c) ELSE c

Reserve(c, h) == [c EXCEPT !.held = @ \cup {h}]

(* Mutant: the first release publishes, whoever else still holds one.      *)
Release_First(c, h) ==
    IF h \notin c.held THEN c
    ELSE LET freed == [c EXCEPT !.held = @ \ {h}, !.pending = "none"]
         IN IF c.pending = "none" THEN freed ELSE Publish(freed, c.pending)

(* Mutant: the last release forgets the pending settlement.                *)
Release_DropsPending(c, h) ==
    IF h \notin c.held THEN c
    ELSE LET left == c.held \ {h}
         IN IF left = {} THEN [c EXCEPT !.held = left, !.pending = "none"]
            ELSE [c EXCEPT !.held = left]

(* The function returned by reserveConversationSettlement: once, and the   *)
(* last one publishes what was deferred.                                   *)
Release(c, h) ==
    LET left  == c.held \ {h}
        freed == [c EXCEPT !.held = left, !.pending = "none"]
    IN IF h \notin c.held THEN c
       ELSE IF left # {} THEN [c EXCEPT !.held = left]
       ELSE IF c.pending = "none" THEN freed
       ELSE Publish(freed, c.pending)
=============================================================================
