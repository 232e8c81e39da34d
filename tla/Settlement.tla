----------------------------- MODULE Settlement -----------------------------
(***************************************************************************)
(* One conversation and everyone who may settle it: the driver and its     *)
(* consumer (succeed, fail, unsupported events), the caller (cancel), the  *)
(* onCancel hook, cleanup code that reports that a cancellation failed,    *)
(* and the holders of settlement reservations.  They interleave in every   *)
(* order.  Nothing is assumed of a driver here; SubprocessRun models one.  *)
(***************************************************************************)
EXTENDS Conversation

CONSTANT Holders     \* the calls of reserveConversationSettlement

VARIABLES conv,      \* the conversation
          hook,      \* the onCancel hook: idle, running, finished
          reserved   \* the calls of reserveConversationSettlement already made

vars == <<conv, hook, reserved>>

Init == conv = New /\ hook = "idle" /\ reserved = {}

CallSucceed == conv' = Succeed(conv) /\ UNCHANGED <<hook, reserved>>

(* fail(), also from emit() of an event this conversation cannot serve.    *)
CallFail == conv' = Fail(conv) /\ UNCHANGED <<hook, reserved>>

(* The hook is called, and a promise it returns is awaited.                *)
CallCancel ==
    /\ conv' = RequestCancel(conv)
    /\ hook' = IF CancelTakesEffect(conv) THEN "running" ELSE hook
    /\ UNCHANGED reserved

(* Aborting the signal or calling the hook throws inside cancel().         *)
CallCancelThrows ==
    /\ CancelTakesEffect(conv)
    /\ conv' = CleanupFailed(RequestCancel(conv))
    /\ hook' = "finished"
    /\ UNCHANGED reserved

HookResolves ==
    /\ hook = "running" /\ hook' = "finished"
    /\ conv' = CleanupSucceeded(conv)
    /\ UNCHANGED reserved

HookRejects ==
    /\ hook = "running" /\ hook' = "finished"
    /\ conv' = CleanupFailed(conv)
    /\ UNCHANGED reserved

ReportFailure == conv' = ReportCancellationFailure(conv) /\ UNCHANGED <<hook, reserved>>

CallReserve(h) ==
    /\ h \notin reserved /\ reserved' = reserved \cup {h}
    /\ conv' = Reserve(conv, h)
    /\ UNCHANGED hook

(* The release function of that call, perhaps not for the first time.      *)
CallRelease(h) ==
    /\ h \in reserved
    /\ conv' = Release(conv, h)
    /\ UNCHANGED <<hook, reserved>>

Next ==
    \/ CallSucceed
    \/ CallFail
    \/ CallCancel
    \/ CallCancelThrows
    \/ HookResolves
    \/ HookRejects
    \/ ReportFailure
    \/ \E h \in Holders : CallReserve(h) \/ CallRelease(h)

Spec == Init /\ [][Next]_vars

(* A hook ends (terminateSubprocess and the ACP shutdown are bounded by    *)
(* timers) and whoever reserved releases (in a finally block).             *)
Fairness ==
    /\ WF_vars(HookResolves \/ HookRejects)
    /\ \A h \in Holders : WF_vars(h \in conv.held /\ CallRelease(h))

FairSpec == Spec /\ Fairness

-----------------------------------------------------------------------------
(* The record's fields have their types: a deferred settlement belongs to  *)
(* a reservation, and the hook is called exactly by cancel().              *)
TypeOK ==
    /\ conv \in [outcome : Kinds \cup {"none"},
                 cancel  : {"none", "pending", "resolved", "rejected"},
                 held    : SUBSET Holders,
                 pending : Kinds \cup {"none"},
                 completion : {"pending", "resolved"},
                 offers  : SUBSET Kinds]
    /\ conv.pending # "none" => conv.held # {}
    /\ hook \in {"idle", "running", "finished"}
    /\ hook = "idle" <=> ~Aborted(conv)
    /\ conv.held \subseteq reserved /\ reserved \subseteq Holders

(* The caller of cancel() and the awaiter of the outcome are told the same *)
(* thing, and at the same time.                                            *)
CancelPromiseAgrees ==
    /\ conv.cancel = "resolved" <=> conv.outcome = "cancellation"
    /\ conv.cancel = "rejected" <=> conv.outcome = "cancellation_failure"

(* Whatever the order of calls, reservations and releases, the outcome is  *)
(* the strongest of the settlements asked for in time: a failure is not    *)
(* hidden by a success, a cancellation by either, nor the failure of its   *)
(* cleanup by anything.                                                    *)
StrongestOfferWins ==
    Settled(conv) =>
        /\ conv.outcome \in conv.offers
        /\ \A kind \in conv.offers : Priority[kind] <= Priority[conv.outcome]

(* A reservation holds the outcome back: a conversation settles only in a  *)
(* step that leaves nobody holding one.                                    *)
HeldBack ==
    [][~Settled(conv) /\ Settled(conv') => conv'.held = {}]_vars

(* The caller's view.                                                      *)
Contract == INSTANCE OneOutcome WITH outcome <- conv.outcome, cancel <- conv.cancel
KeepsContract == Contract!Spec

(* What was asked for is published in the end, although a success or a     *)
(* failure that finds a cancellation requested is dropped: the             *)
(* cancellation settles in its place once its hook has ended.              *)
AskedIsSettled == conv.offers # {} ~> Settled(conv)
=============================================================================
