-------------------------- MODULE SettlementProofs --------------------------
(***************************************************************************)
(* Proofs about Settlement, for any set of reservation holders.            *)
(***************************************************************************)
EXTENDS Settlement, TLAPS

Conversations == [outcome : Kinds \cup {"none"},
                  cancel  : {"none", "pending", "resolved", "rejected"},
                  held    : SUBSET Holders,
                  pending : Kinds \cup {"none"},
                  completion : {"pending", "resolved"},
                  offers  : SUBSET Kinds]

(* Outcome and cancel() agree; an open conversation's cancel is unanswered.*)
Agreement(c) ==
    /\ c.cancel = "resolved" <=> c.outcome = "cancellation"
    /\ c.cancel = "rejected" <=> c.outcome = "cancellation_failure"
    /\ c.outcome \in {"success", "failure"} => c.cancel = "none"

(* Only a requested cancellation is offered or deferred, and a deferral    *)
(* belongs to a reservation.                                               *)
Requested(c) ==
    /\ ~Aborted(c) => c.pending \notin CancelKinds /\ c.offers \cap CancelKinds = {}
    /\ c.pending # "none" => c.held # {}

(* While open: without a cancellation, what was offered is deferred, the   *)
(* strongest of it; with one, so is the strongest cancellation, and other  *)
(* offers no longer count.                                                 *)
Deferred(c) ==
    ~Settled(c) =>
        /\ c.pending # "none" => c.pending \in c.offers
        /\ ~Aborted(c) \/ c.pending \in CancelKinds \/ c.offers \cap CancelKinds # {} =>
             \A kind \in c.offers :
                c.pending # "none" /\ Priority[kind] <= Priority[c.pending]

Strongest(c) ==
    Settled(c) =>
        /\ c.outcome \in c.offers
        /\ \A kind \in c.offers : Priority[kind] <= Priority[c.outcome]

ConvInv(c) == c \in Conversations /\ Agreement(c) /\ Requested(c) /\ Deferred(c) /\ Strongest(c)

IInv ==
    /\ ConvInv(conv)
    /\ hook \in {"idle", "running", "finished"}
    /\ hook = "idle" <=> ~Aborted(conv)
    /\ conv.held \subseteq reserved /\ reserved \subseteq Holders

-----------------------------------------------------------------------------
LEMMA Priorities ==
    /\ Priority["success"] = 0 /\ Priority["failure"] = 1
    /\ Priority["cancellation"] = 2 /\ Priority["cancellation_failure"] = 3
    /\ \A kind \in Kinds : Priority[kind] \in Nat
BY SMT DEF Priority, Kinds

(* The invariant reads neither the mark nor, unless something is deferred, *)
(* the holders.                                                            *)
LEMMA SameFields ==
    ASSUME NEW c, ConvInv(c), NEW d \in Conversations,
           d.outcome = c.outcome, d.cancel = c.cancel, d.pending = c.pending,
           d.offers = c.offers, d.pending # "none" => d.held # {}
    PROVE  ConvInv(d) /\ (Aborted(d) <=> Aborted(c))
<1>1. Aborted(d) <=> Aborted(c)
  BY DEF Aborted
<1>2. Agreement(d) /\ Requested(d)
  BY <1>1 DEF ConvInv, Agreement, Requested
<1>3. Deferred(d) /\ Strongest(d)
  BY <1>1 DEF ConvInv, Deferred, Strongest, Settled
<1> QED BY <1>1, <1>2, <1>3 DEF ConvInv

(* Publishing on an unreserved conversation what it has been offered.      *)
LEMMA PublishKeeps ==
    ASSUME NEW c \in Conversations, NEW kind \in Kinds,
           Agreement(c), Strongest(c), c.held = {}, c.pending = "none",
           ~Aborted(c) => c.offers \cap CancelKinds = {},
           kind \in CancelKinds => Aborted(c),
           ~Settled(c) /\ (Aborted(c) => kind \in CancelKinds) =>
               kind \in c.offers /\ \A k \in c.offers : Priority[k] <= Priority[kind],
           ~Settled(c) /\ Aborted(c) /\ kind \notin CancelKinds =>
               c.offers \cap CancelKinds = {}
    PROVE  /\ ConvInv(Publish(c, kind))
           /\ Publish(c, kind).held = {}
           /\ Aborted(Publish(c, kind)) <=> Aborted(c)
<1> DEFINE d == Publish(c, kind)
<1>1. CASE Settled(c)
  <2>1. d = c
    BY <1>1, SMT DEF Publish, Complete, SettleCancel, Agreement, Settled, Aborted,
       Conversations, Kinds, CancelKinds
  <2>2. Requested(c) /\ Deferred(c)
    BY <1>1, SMT DEF Requested, Deferred, CancelKinds
  <2> QED BY <2>1, <2>2 DEF ConvInv
<1>2. CASE ~Settled(c) /\ kind \in {"success", "failure"} /\ Aborted(c)
  <2>1. d = c
    BY <1>2 DEF Publish
  <2> QED BY <1>2, <2>1 DEF ConvInv, Requested, Deferred, Settled, CancelKinds
<1>3. CASE ~Settled(c) /\ kind \in {"success", "failure"} /\ ~Aborted(c)
  <2>1. d = [c EXCEPT !.outcome = kind]
    BY <1>3 DEF Publish, Complete
  <2> QED BY <1>3, <2>1, SMT DEF ConvInv, Requested, Deferred, Settled, CancelKinds,
       Conversations, Agreement, Strongest, Aborted, Kinds
<1>4. CASE ~Settled(c) /\ kind = "cancellation"
  <2>1. c.cancel = "pending"
    BY <1>4, SMT DEF Agreement, Aborted, Settled, Conversations, CancelKinds
  <2>2. d = [c EXCEPT !.outcome = kind, !.cancel = "resolved"]
    BY <1>4, <2>1, SMT DEF Publish, Complete, SettleCancel, Settled, Conversations
  <2>3. /\ d \in Conversations /\ d.outcome = "cancellation" /\ d.cancel = "resolved"
        /\ d.held = {} /\ d.pending = "none" /\ d.offers = c.offers
    BY <1>4, <2>2 DEF Conversations, Kinds
  <2>a. kind \in CancelKinds
    BY <1>4 DEF CancelKinds
  <2>4. kind \in c.offers /\ \A k \in c.offers : Priority[k] <= Priority[kind]
    BY <1>4, <2>a
  <2> HIDE DEF d
  <2>5. Agreement(d) /\ Strongest(d)
    BY <1>4, <2>3, <2>4 DEF Agreement, Strongest
  <2>6. Requested(d) /\ Deferred(d) /\ Aborted(d)
    BY <2>3, SMT DEF Requested, Deferred, Settled, Aborted, CancelKinds
  <2>7. Aborted(c)
    BY <2>1 DEF Aborted
  <2>8. ConvInv(d) /\ d.held = {} /\ (Aborted(d) <=> Aborted(c))
    BY <2>3, <2>5, <2>6, <2>7 DEF ConvInv
  <2> QED BY <2>8 DEF d
<1>5. CASE ~Settled(c) /\ kind = "cancellation_failure"
  <2>1. c.cancel = "pending"
    BY <1>5, SMT DEF Agreement, Aborted, Settled, Conversations, CancelKinds
  <2>2. d = [c EXCEPT !.outcome = kind, !.cancel = "rejected"]
    BY <1>5, <2>1, SMT DEF Publish, Complete, SettleCancel, Settled, Conversations
  <2>3. /\ d \in Conversations /\ d.outcome = "cancellation_failure" /\ d.cancel = "rejected"
        /\ d.held = {} /\ d.pending = "none" /\ d.offers = c.offers
    BY <1>5, <2>2 DEF Conversations, Kinds
  <2>a. kind \in CancelKinds
    BY <1>5 DEF CancelKinds
  <2>4. kind \in c.offers /\ \A k \in c.offers : Priority[k] <= Priority[kind]
    BY <1>5, <2>a
  <2> HIDE DEF d
  <2>5. Agreement(d) /\ Strongest(d)
    BY <1>5, <2>3, <2>4 DEF Agreement, Strongest
  <2>6. Requested(d) /\ Deferred(d) /\ Aborted(d)
    BY <2>3, SMT DEF Requested, Deferred, Settled, Aborted, CancelKinds
  <2>7. Aborted(c)
    BY <2>1 DEF Aborted
  <2>8. ConvInv(d) /\ d.held = {} /\ (Aborted(d) <=> Aborted(c))
    BY <2>3, <2>5, <2>6, <2>7 DEF ConvInv
  <2> QED BY <2>8 DEF d
<1> QED BY <1>1, <1>2, <1>3, <1>4, <1>5 DEF Kinds

(* An offer: by the driver on a conversation not cancelled, or of a        *)
(* cancellation's end on one that is.                                      *)
LEMMA OfferKeeps ==
    ASSUME NEW c, ConvInv(c), NEW kind \in Kinds,
           kind \in CancelKinds <=> Aborted(c)
    PROVE  /\ ConvInv(Offer(c, kind))
           /\ Offer(c, kind).held = c.held
           /\ Aborted(Offer(c, kind)) <=> Aborted(c)
<1> DEFINE b == IF Settled(c) THEN c ELSE [c EXCEPT !.offers = @ \cup {kind}]
<1>0. Offer(c, kind) = Settle(b, kind)
  BY DEF Offer
<1>1. /\ b \in Conversations /\ b.held = c.held /\ b.pending = c.pending
      /\ Agreement(b) /\ Requested(b) /\ Strongest(b)
      /\ (Aborted(b) <=> Aborted(c)) /\ (Settled(b) <=> Settled(c))
      /\ ~Settled(c) => b.offers = c.offers \cup {kind}
  BY SMT DEF ConvInv, Conversations, Agreement, Requested, Strongest, Aborted, Settled,
     CancelKinds, Kinds
<1> HIDE DEF b
<1>2. CASE c.held = {}
  <2>1. b.pending = "none"
    BY <1>1, <1>2 DEF Requested
  <2>2. ~Settled(b) => kind \in b.offers /\ \A k \in b.offers : Priority[k] <= Priority[kind]
    BY <1>2, <2>1, <1>1, Priorities, SMT DEF ConvInv, Conversations, Deferred, Aborted, Settled,
       CancelKinds, Kinds
  <2>3. /\ ConvInv(Publish(b, kind)) /\ Publish(b, kind).held = {}
        /\ Aborted(Publish(b, kind)) <=> Aborted(b)
    BY <1>1, <1>2, <2>1, <2>2, PublishKeeps DEF Requested, ConvInv
  <2> QED BY <1>0, <1>1, <1>2, <2>3 DEF Settle
<1>3. CASE c.held # {} /\ Stronger(kind, b.pending)
  <2>1. Offer(c, kind) = [b EXCEPT !.pending = kind]
    BY <1>0, <1>1, <1>3 DEF Settle
  <2> DEFINE d == [b EXCEPT !.pending = kind]
  <2>2. /\ d \in Conversations /\ d.outcome = b.outcome /\ d.cancel = b.cancel
        /\ d.pending = kind /\ d.offers = b.offers /\ d.held = c.held
    BY <1>1, SMT DEF Conversations
  <2>3. Agreement(d) /\ Strongest(d) /\ (Aborted(d) <=> Aborted(c))
    BY <1>1, <2>2 DEF Agreement, Strongest, Settled, Aborted
  <2>4. Requested(d)
    BY <1>1, <1>3, <2>2, <2>3 DEF Requested
  <2>5. ~Settled(c) => b.offers = c.offers \cup {kind} /\ b.pending = c.pending
    BY <1>1
  <2>6. ~Settled(c) => /\ kind \in b.offers
                       /\ \A k \in b.offers : Priority[k] <= Priority[kind]
    BY <1>1, <1>3, <2>5, Priorities, SMT DEF ConvInv, Conversations, Deferred, Requested,
       Stronger, CancelKinds, Kinds
  <2>7. Deferred(d)
    BY <1>1, <2>2, <2>6, SMT DEF Deferred, Settled, Kinds
  <2>8. ConvInv(d)
    BY <2>2, <2>3, <2>4, <2>7 DEF ConvInv
  <2> QED BY <2>1, <2>2, <2>3, <2>8
<1>4. CASE c.held # {} /\ ~Stronger(kind, b.pending)
  <2>1. Offer(c, kind) = b
    BY <1>0, <1>1, <1>4 DEF Settle
  <2>2. ~Settled(c) => b.offers = c.offers \cup {kind} /\ b.pending = c.pending
    BY <1>1
  <2>3. ~Settled(c) => /\ b.pending \in c.offers
                       /\ \A k \in b.offers : Priority[k] <= Priority[b.pending]
    BY <1>1, <1>4, <2>2, Priorities, SMT DEF ConvInv, Conversations, Deferred, Requested,
       Stronger, CancelKinds, Kinds
  <2>4. Deferred(b)
    BY <1>1, <1>4, <2>2, <2>3, SMT DEF Deferred, Settled, Stronger
  <2> QED BY <1>1, <2>1, <2>4 DEF ConvInv
<1> QED BY <1>2, <1>3, <1>4

(* Announcing the completion of a cancellation touches nothing else.       *)
LEMMA MarkKeeps ==
    ASSUME NEW c, ConvInv(c)
    PROVE  LET d == [c EXCEPT !.completion = "resolved"]
           IN ConvInv(d) /\ d.held = c.held /\ (Aborted(d) <=> Aborted(c))
<1> DEFINE d == [c EXCEPT !.completion = "resolved"]
<1>1. /\ d \in Conversations /\ d.outcome = c.outcome /\ d.cancel = c.cancel
      /\ d.pending = c.pending /\ d.offers = c.offers /\ d.held = c.held
  BY SMT DEF ConvInv, Conversations
<1>2. d.pending # "none" => d.held # {}
  BY <1>1 DEF ConvInv, Requested
<1> QED BY <1>1, <1>2, SameFields

LEMMA CleanupKeeps ==
    ASSUME NEW c, ConvInv(c), Aborted(c)
    PROVE  /\ ConvInv(CleanupSucceeded(c)) /\ ConvInv(CleanupFailed(c))
           /\ CleanupSucceeded(c).held = c.held /\ CleanupFailed(c).held = c.held
           /\ Aborted(CleanupSucceeded(c)) /\ Aborted(CleanupFailed(c))
<1>1. "cancellation" \in Kinds \cap CancelKinds /\ "cancellation_failure" \in Kinds \cap CancelKinds
  BY DEF Kinds, CancelKinds
<1>2. /\ ConvInv(Offer(c, "cancellation")) /\ Aborted(Offer(c, "cancellation"))
      /\ Offer(c, "cancellation").held = c.held
  BY <1>1, OfferKeeps
<1>3. /\ ConvInv(Offer(c, "cancellation_failure")) /\ Aborted(Offer(c, "cancellation_failure"))
      /\ Offer(c, "cancellation_failure").held = c.held
  BY <1>1, OfferKeeps
<1> QED BY <1>2, <1>3, MarkKeeps DEF CleanupSucceeded, CleanupFailed

LEMMA RequestKeeps ==
    ASSUME NEW c, ConvInv(c), CancelTakesEffect(c)
    PROVE  /\ ConvInv(RequestCancel(c)) /\ Aborted(RequestCancel(c))
           /\ RequestCancel(c).held = c.held
BY SMT DEF ConvInv, Conversations, Agreement, Requested, Deferred, Strongest, Aborted, Settled,
   CancelTakesEffect, RequestCancel, CancelKinds

LEMMA ReserveKeeps ==
    ASSUME NEW c, ConvInv(c), NEW h \in Holders
    PROVE  /\ ConvInv(Reserve(c, h)) /\ Reserve(c, h).held = c.held \cup {h}
           /\ Aborted(Reserve(c, h)) <=> Aborted(c)
<1> DEFINE d == Reserve(c, h)
<1>1. /\ d \in Conversations /\ d.outcome = c.outcome /\ d.cancel = c.cancel
      /\ d.pending = c.pending /\ d.offers = c.offers /\ d.held = c.held \cup {h}
  BY SMT DEF ConvInv, Conversations, Reserve
<1> QED BY <1>1, SameFields

LEMMA ReleaseKeeps ==
    ASSUME NEW c, ConvInv(c), NEW h
    PROVE  /\ ConvInv(Release(c, h)) /\ Release(c, h).held = c.held \ {h}
           /\ Aborted(Release(c, h)) <=> Aborted(c)
<1> DEFINE left  == c.held \ {h}
           freed == [c EXCEPT !.held = left, !.pending = "none"]
<1>a. c \in Conversations /\ left \in SUBSET Holders /\ left = c.held \ {h}
  BY DEF ConvInv, Conversations
<1>b. Release(c, h) =
        IF h \notin c.held THEN c
        ELSE IF left # {} THEN [c EXCEPT !.held = left]
        ELSE IF c.pending = "none" THEN freed
        ELSE Publish(freed, c.pending)
  BY DEF Release
<1> HIDE DEF left
<1>c. /\ freed \in Conversations /\ freed.outcome = c.outcome /\ freed.cancel = c.cancel
      /\ freed.pending = "none" /\ freed.offers = c.offers /\ freed.held = left
  BY <1>a DEF Conversations
<1> HIDE DEF freed
<1>1. CASE h \notin c.held
  <2>1. Release(c, h) = c /\ c.held \ {h} = c.held
    BY <1>1, <1>b
  <2> QED BY <2>1
<1>2. CASE h \in c.held /\ left # {}
  <2> DEFINE d == [c EXCEPT !.held = left]
  <2>1. Release(c, h) = d
    BY <1>2, <1>b
  <2>2. /\ d \in Conversations /\ d.outcome = c.outcome /\ d.cancel = c.cancel
        /\ d.pending = c.pending /\ d.offers = c.offers /\ d.held = left
    BY <1>a DEF Conversations
  <2>3. ConvInv(d) /\ (Aborted(d) <=> Aborted(c))
    BY <1>2, <2>2, SameFields
  <2> QED BY <1>a, <2>1, <2>2, <2>3
<1>3. CASE h \in c.held /\ left = {} /\ c.pending = "none"
  <2>1. Release(c, h) = freed
    BY <1>3, <1>b
  <2>2. ConvInv(freed) /\ (Aborted(freed) <=> Aborted(c))
    BY <1>3, <1>c, SameFields
  <2> QED BY <1>a, <1>c, <2>1, <2>2
<1>4. CASE h \in c.held /\ left = {} /\ c.pending # "none"
  <2>1. Release(c, h) = Publish(freed, c.pending)
    BY <1>4, <1>b
  <2>2. /\ Agreement(freed) /\ Strongest(freed) /\ freed.held = {}
        /\ (Aborted(freed) <=> Aborted(c)) /\ (Settled(freed) <=> Settled(c))
    BY <1>4, <1>c DEF ConvInv, Agreement, Strongest, Aborted, Settled
  <2>3. c.pending \in Kinds /\ (c.pending \in CancelKinds => Aborted(c))
    BY <1>4, SMT DEF ConvInv, Conversations, Requested
  <2>4. /\ ~Settled(c) /\ (Aborted(c) => c.pending \in CancelKinds) =>
             c.pending \in c.offers /\ \A k \in c.offers : Priority[k] <= Priority[c.pending]
        /\ ~Settled(c) /\ Aborted(c) /\ c.pending \notin CancelKinds =>
             c.offers \cap CancelKinds = {}
    BY <1>4, <2>3, Priorities, SMT DEF ConvInv, Conversations, Deferred, Settled, CancelKinds, Kinds
  <2>5. /\ ConvInv(Publish(freed, c.pending)) /\ Publish(freed, c.pending).held = {}
        /\ Aborted(Publish(freed, c.pending)) <=> Aborted(freed)
    BY <1>c, <2>2, <2>3, <2>4, PublishKeeps DEF ConvInv, Requested
  <2> QED BY <1>a, <1>4, <2>1, <2>2, <2>5
<1> QED BY <1>1, <1>2, <1>3, <1>4

-----------------------------------------------------------------------------
(* The settlement starts in the invariant.                                 *)
LEMMA InitIInv == Init => IInv
<1> SUFFICES ASSUME Init PROVE IInv
  OBVIOUS
<1>1. /\ conv \in Conversations /\ conv.outcome = "none" /\ conv.cancel = "none"
      /\ conv.held = {} /\ conv.pending = "none" /\ conv.offers = {}
  BY SMT DEF Init, New, Conversations, Kinds
<1>2. Agreement(conv) /\ Requested(conv) /\ Deferred(conv) /\ Strongest(conv) /\ ~Aborted(conv)
  BY <1>1, SMT DEF Agreement, Requested, Deferred, Strongest, Aborted, Settled, CancelKinds
<1> QED BY <1>1, <1>2 DEF Init, IInv, ConvInv

(* succeed() and fail().                                                   *)
LEMMA DriverKeeps ==
    ASSUME NEW c, ConvInv(c)
    PROVE  /\ ConvInv(Succeed(c)) /\ Succeed(c).held = c.held /\ (Aborted(Succeed(c)) <=> Aborted(c))
           /\ ConvInv(Fail(c)) /\ Fail(c).held = c.held /\ (Aborted(Fail(c)) <=> Aborted(c))
<1>1. CASE Aborted(c)
  BY <1>1 DEF Succeed, Fail
<1>2. CASE ~Aborted(c)
  <2>1. /\ "success" \in Kinds \ CancelKinds
        /\ "failure" \in Kinds \ CancelKinds
    BY DEF Kinds, CancelKinds
  <2>2. /\ ConvInv(Offer(c, "success")) /\ Offer(c, "success").held = c.held
        /\ ~Aborted(Offer(c, "success"))
    BY <1>2, <2>1, OfferKeeps
  <2>3. /\ ConvInv(Offer(c, "failure")) /\ Offer(c, "failure").held = c.held
        /\ ~Aborted(Offer(c, "failure"))
    BY <1>2, <2>1, OfferKeeps
  <2> QED BY <1>2, <2>2, <2>3 DEF Succeed, Fail
<1> QED BY <1>1, <1>2

(* Every request, reservation, release and cleanup keeps the invariant.    *)
LEMMA StepIInv == IInv /\ [Next]_vars => IInv'
<1> SUFFICES ASSUME IInv, [Next]_vars PROVE IInv'
  OBVIOUS
<1>0. ConvInv(conv)
  BY DEF IInv
<1>1. CASE CallSucceed
  BY <1>0, <1>1, DriverKeeps DEF CallSucceed, IInv
<1>2. CASE CallFail
  BY <1>0, <1>2, DriverKeeps DEF CallFail, IInv
<1>3. CASE CallCancel
  <2>1. CASE CancelTakesEffect(conv)
    BY <1>0, <1>3, <2>1, RequestKeeps DEF CallCancel, IInv
  <2>2. CASE ~CancelTakesEffect(conv)
    BY <1>0, <1>3, <2>2 DEF CallCancel, RequestCancel, IInv
  <2> QED BY <2>1, <2>2
<1>4. CASE CallCancelThrows
  <2>1. /\ ConvInv(RequestCancel(conv)) /\ Aborted(RequestCancel(conv))
        /\ RequestCancel(conv).held = conv.held
    BY <1>0, <1>4, RequestKeeps DEF CallCancelThrows
  <2> QED BY <1>4, <2>1, CleanupKeeps DEF CallCancelThrows, IInv
<1>5. CASE HookResolves
  BY <1>0, <1>5, CleanupKeeps DEF HookResolves, IInv
<1>6. CASE HookRejects
  BY <1>0, <1>6, CleanupKeeps DEF HookRejects, IInv
<1>7. CASE ReportFailure
  <2>1. CASE Aborted(conv)
    BY <1>0, <1>7, <2>1, CleanupKeeps DEF ReportFailure, ReportCancellationFailure, IInv
  <2>2. CASE ~Aborted(conv)
    BY <1>0, <1>7, <2>2 DEF ReportFailure, ReportCancellationFailure, IInv
  <2> QED BY <2>1, <2>2
<1>8. ASSUME NEW h \in Holders, CallReserve(h) PROVE IInv'
  BY <1>0, <1>8, ReserveKeeps DEF CallReserve, IInv
<1>9. ASSUME NEW h \in Holders, CallRelease(h) PROVE IInv'
  BY <1>0, <1>9, ReleaseKeeps DEF CallRelease, IInv
<1>10. CASE UNCHANGED vars
  BY <1>10 DEF vars, IInv
<1> QED BY <1>1, <1>2, <1>3, <1>4, <1>5, <1>6, <1>7, <1>8, <1>9, <1>10 DEF Next

(* IInv, the inductive invariant of the settlement, holds in every state   *)
(* of every run: the order of the candidates, the holders and the outcome. *)
THEOREM Invariance == Spec => []IInv
BY InitIInv, StepIInv, PTL DEF Spec

(* Every reachable conversation is well formed: see TypeOK.                *)
THEOREM TypeCorrect == Spec => []TypeOK
<1>1. IInv => TypeOK
  BY DEF IInv, ConvInv, Conversations, Requested, TypeOK
<1> QED BY <1>1, Invariance, PTL

(* cancel() and the outcome tell the same story, for any set of holders.   *)
THEOREM CancelAgreement == Spec => []CancelPromiseAgrees
<1>1. IInv => CancelPromiseAgrees
  BY DEF IInv, ConvInv, Agreement, CancelPromiseAgrees
<1> QED BY <1>1, Invariance, PTL

(* The outcome is the strongest settlement asked for in time, whatever the *)
(* number and the overlap of the reservations.                             *)
THEOREM StrongestOffer == Spec => []StrongestOfferWins
<1>1. IInv => StrongestOfferWins
  BY DEF IInv, ConvInv, Strongest, StrongestOfferWins
<1> QED BY <1>1, Invariance, PTL

-----------------------------------------------------------------------------
(* What one operation does to the outcome.                                 *)
LEMMA PublishOutcome ==
    ASSUME NEW c \in Conversations, Agreement(c), NEW kind \in Kinds
    PROVE  /\ Settled(c) => Publish(c, kind) = c
           /\ ~Settled(c) => Publish(c, kind).outcome \in {"none", kind}
<1>1. ASSUME Settled(c) PROVE Publish(c, kind) = c
  BY <1>1, SMT DEF Publish, Complete, SettleCancel, Agreement, Settled, Aborted,
     Conversations, Kinds, CancelKinds
<1>2. ASSUME ~Settled(c) PROVE Publish(c, kind).outcome \in {"none", kind}
  BY <1>2, SMT DEF Publish, Complete, SettleCancel, Settled, Conversations
<1> QED BY <1>1, <1>2

LEMMA OfferOutcome ==
    ASSUME NEW c, ConvInv(c), NEW kind \in Kinds
    PROVE  LET d == Offer(c, kind)
           IN /\ Settled(c) => d.outcome = c.outcome /\ d.cancel = c.cancel
              /\ ~Settled(c) => d.outcome \in {"none", kind}
              /\ c.held # {} => d.outcome = c.outcome
<1> DEFINE b == IF Settled(c) THEN c ELSE [c EXCEPT !.offers = @ \cup {kind}]
<1>1. Offer(c, kind) = Settle(b, kind)
  BY DEF Offer
<1>2. /\ b \in Conversations /\ b.outcome = c.outcome /\ b.cancel = c.cancel
      /\ b.held = c.held
  BY SMT DEF ConvInv, Conversations
<1>3. Agreement(b) /\ (Settled(b) <=> Settled(c))
  BY <1>2 DEF ConvInv, Agreement, Settled
<1> HIDE DEF b
<1>4. CASE c.held = {}
  BY <1>1, <1>2, <1>3, <1>4, PublishOutcome DEF Settle, Settled
<1>5. CASE c.held # {}
  <2>1. Settle(b, kind).outcome = b.outcome /\ Settle(b, kind).cancel = b.cancel
    BY <1>2, <1>5, SMT DEF Settle, Conversations
  <2> QED BY <1>1, <1>2, <1>5, <2>1 DEF Settled
<1> QED BY <1>4, <1>5

LEMMA CleanupOutcome ==
    ASSUME NEW c, ConvInv(c), Aborted(c)
    PROVE  /\ Settled(c) => /\ CleanupSucceeded(c).outcome = c.outcome
                            /\ CleanupSucceeded(c).cancel = c.cancel
                            /\ CleanupFailed(c).outcome = c.outcome
                            /\ CleanupFailed(c).cancel = c.cancel
           /\ ~Settled(c) => CleanupFailed(c).outcome \in {"none", "cancellation_failure"}
           /\ c.held # {} => /\ CleanupSucceeded(c).outcome = c.outcome
                             /\ CleanupFailed(c).outcome = c.outcome
<1>1. /\ "cancellation" \in Kinds \cap CancelKinds
      /\ "cancellation_failure" \in Kinds \cap CancelKinds
  BY DEF Kinds, CancelKinds
<1>2. Offer(c, "cancellation") \in Conversations
      /\ Offer(c, "cancellation_failure") \in Conversations
  BY <1>1, OfferKeeps DEF ConvInv
<1>3. /\ CleanupSucceeded(c).outcome = Offer(c, "cancellation").outcome
      /\ CleanupSucceeded(c).cancel = Offer(c, "cancellation").cancel
      /\ CleanupFailed(c).outcome = Offer(c, "cancellation_failure").outcome
      /\ CleanupFailed(c).cancel = Offer(c, "cancellation_failure").cancel
  BY <1>2 DEF Conversations, CleanupSucceeded, CleanupFailed
<1> QED BY <1>1, <1>3, OfferOutcome

LEMMA ReleaseOutcome ==
    ASSUME NEW c, ConvInv(c), NEW h
    PROVE  LET d == Release(c, h)
           IN /\ Settled(c) => d.outcome = c.outcome /\ d.cancel = c.cancel
              /\ d.held # {} => d.outcome = c.outcome
<1> DEFINE left  == c.held \ {h}
           freed == [c EXCEPT !.held = left, !.pending = "none"]
<1>1. Release(c, h) =
        IF h \notin c.held THEN c
        ELSE IF left # {} THEN [c EXCEPT !.held = left]
        ELSE IF c.pending = "none" THEN freed
        ELSE Publish(freed, c.pending)
  BY DEF Release
<1>2. c \in Conversations /\ left \in SUBSET Holders /\ left = c.held \ {h}
  BY DEF ConvInv, Conversations
<1>3. Release(c, h).held = left
  BY ReleaseKeeps
<1> HIDE DEF left
<1>4. freed \in Conversations /\ freed.outcome = c.outcome /\ freed.cancel = c.cancel
  BY <1>2 DEF Conversations
<1>5. [c EXCEPT !.held = left].outcome = c.outcome /\ [c EXCEPT !.held = left].cancel = c.cancel
  BY <1>2 DEF Conversations
<1> HIDE DEF freed
<1>6. CASE h \in c.held /\ left = {} /\ c.pending # "none"
  <2>1. c.pending \in Kinds
    BY <1>2, <1>6 DEF Conversations
  <2>2. Agreement(freed) /\ (Settled(freed) <=> Settled(c))
    BY <1>4 DEF ConvInv, Agreement, Settled
  <2>3. Settled(c) => Publish(freed, c.pending) = freed
    BY <1>4, <2>1, <2>2, PublishOutcome
  <2> QED BY <1>1, <1>3, <1>4, <1>6, <2>3
<1>7. CASE ~(h \in c.held /\ left = {} /\ c.pending # "none")
  BY <1>1, <1>4, <1>5, <1>7
<1> QED BY <1>6, <1>7

(* One step of the system, as its caller sees it: a settled conversation   *)
(* never changes, it settles only in nobody's reservation, a requested     *)
(* cancellation stays requested, and only one that was requested succeeds. *)
LEMMA StepOutcome ==
    ASSUME IInv, [Next]_vars
    PROVE  /\ Settled(conv) => conv'.outcome = conv.outcome /\ conv'.cancel = conv.cancel
           /\ conv'.held # {} => conv'.outcome = conv.outcome
           /\ Aborted(conv) => Aborted(conv)'
           /\ ~Settled(conv) /\ conv'.outcome = "cancellation" => Aborted(conv)
<1>0. ConvInv(conv) /\ "success" \in Kinds /\ "failure" \in Kinds
      /\ "cancellation" \in CancelKinds /\ "cancellation_failure" \in CancelKinds
  BY DEF IInv, Kinds, CancelKinds
<1>1. CASE CallSucceed
  BY <1>0, <1>1, OfferOutcome, DriverKeeps DEF CallSucceed, Succeed, Aborted, Settled
<1>2. CASE CallFail
  BY <1>0, <1>2, OfferOutcome, DriverKeeps DEF CallFail, Fail, Aborted, Settled
<1>a. CancelTakesEffect(conv) =>
        /\ RequestCancel(conv).outcome = conv.outcome
        /\ RequestCancel(conv).held = conv.held
        /\ ~Settled(RequestCancel(conv))
  BY <1>0 DEF ConvInv, Conversations, CancelTakesEffect, RequestCancel, Settled
<1>3. CASE CallCancel
  <2>1. CASE CancelTakesEffect(conv)
    BY <1>0, <1>3, <1>a, <2>1, RequestKeeps DEF CallCancel, CancelTakesEffect, Settled
  <2>2. CASE ~CancelTakesEffect(conv)
    BY <1>3, <2>2 DEF CallCancel, RequestCancel, Aborted, Settled
  <2> QED BY <2>1, <2>2
<1>4. CASE CallCancelThrows
  <2> DEFINE b == RequestCancel(conv)
  <2>1. ConvInv(b) /\ Aborted(b) /\ ~Settled(b) /\ b.outcome = conv.outcome
    BY <1>0, <1>4, <1>a, RequestKeeps DEF CallCancelThrows
  <2>2. conv' = CleanupFailed(b)
    BY <1>4 DEF CallCancelThrows
  <2> HIDE DEF b
  <2>3. /\ conv'.outcome \in {"none", "cancellation_failure"}
        /\ b.held # {} => conv'.outcome = b.outcome
    BY <1>0, <2>1, <2>2, CleanupOutcome
  <2>4. Aborted(conv') /\ conv'.held = b.held
    BY <2>1, <1>4, CleanupKeeps DEF CallCancelThrows, b
  <2>5. ~Settled(conv)
    BY <1>4 DEF CallCancelThrows, CancelTakesEffect
  <2> QED BY <2>1, <2>3, <2>4, <2>5 DEF Settled
<1>5. CASE HookResolves
  <2>1. Aborted(conv) /\ conv' = CleanupSucceeded(conv)
    BY <1>5 DEF HookResolves, IInv
  <2>2. Aborted(conv') /\ conv'.held = conv.held
    BY <1>0, <2>1, CleanupKeeps
  <2> QED BY <1>0, <2>1, <2>2, CleanupOutcome
<1>6. CASE HookRejects
  <2>1. Aborted(conv) /\ conv' = CleanupFailed(conv)
    BY <1>6 DEF HookRejects, IInv
  <2>2. Aborted(conv') /\ conv'.held = conv.held
    BY <1>0, <2>1, CleanupKeeps
  <2> QED BY <1>0, <2>1, <2>2, CleanupOutcome
<1>7. CASE ReportFailure
  <2>1. CASE Aborted(conv)
    <3>1. conv' = CleanupFailed(conv)
      BY <1>7, <2>1 DEF ReportFailure, ReportCancellationFailure
    <3>2. Aborted(conv') /\ conv'.held = conv.held
      BY <1>0, <2>1, <3>1, CleanupKeeps
    <3> QED BY <1>0, <2>1, <3>1, <3>2, CleanupOutcome
  <2>2. CASE ~Aborted(conv)
    BY <1>7, <2>2 DEF ReportFailure, ReportCancellationFailure, Settled
  <2> QED BY <2>1, <2>2
<1>8. ASSUME NEW h \in Holders, CallReserve(h)
      PROVE  conv'.outcome = conv.outcome /\ conv'.cancel = conv.cancel
  BY <1>0, <1>8 DEF CallReserve, Reserve, ConvInv, Conversations
<1>9. ASSUME NEW h \in Holders, CallRelease(h)
      PROVE  /\ Settled(conv) => conv'.outcome = conv.outcome /\ conv'.cancel = conv.cancel
             /\ conv'.held # {} => conv'.outcome = conv.outcome
             /\ Aborted(conv') <=> Aborted(conv)
             /\ ConvInv(conv')
  BY <1>0, <1>9, ReleaseOutcome, ReleaseKeeps DEF CallRelease
<1>10. CASE UNCHANGED vars
  BY <1>10 DEF vars, Settled, Aborted
<1>11. CASE \E h \in Holders : CallReserve(h)
  BY <1>8, <1>11 DEF Settled, Aborted
<1>12. CASE \E h \in Holders : CallRelease(h)
  <2>1. conv'.outcome = "cancellation" => Aborted(conv')
    BY <1>9, <1>12 DEF ConvInv, Agreement, Aborted
  <2> QED BY <1>9, <1>12, <2>1
<1> QED BY <1>1, <1>2, <1>3, <1>4, <1>5, <1>6, <1>7, <1>10, <1>11, <1>12 DEF Next

(* A reservation holds the outcome back until the last one is released.    *)
THEOREM ReservationHoldsBack == Spec => HeldBack
<1>1. IInv /\ [Next]_vars => [~Settled(conv) /\ Settled(conv') => conv'.held = {}]_vars
  <2> SUFFICES ASSUME IInv, [Next]_vars, ~Settled(conv), Settled(conv')
               PROVE  conv'.held = {}
    OBVIOUS
  <2> QED BY StepOutcome DEF Settled
<1> QED BY <1>1, Invariance, PTL DEF Spec, HeldBack

(* Settlement implements the contract of a conversation: one outcome, and  *)
(* none but a cancellation's once cancel() has been called.                *)
THEOREM Refinement == Spec => KeepsContract
<1>1. Init => Contract!Init
  BY SMT DEF Init, New, Contract!Init
<1>2. IInv /\ IInv' /\ [Next]_vars => [Contract!Next]_<<conv.outcome, conv.cancel>>
  <2> SUFFICES ASSUME IInv, IInv', [Next]_vars
               PROVE  [Contract!Next]_<<conv.outcome, conv.cancel>>
    OBVIOUS
  <2>1. /\ Settled(conv) => conv'.outcome = conv.outcome /\ conv'.cancel = conv.cancel
        /\ Aborted(conv) => Aborted(conv')
        /\ ~Settled(conv) /\ conv'.outcome = "cancellation" => Aborted(conv)
    BY StepOutcome DEF Aborted
  <2>2. /\ conv.cancel \in {"none", "pending", "resolved", "rejected"}
        /\ conv'.cancel \in {"none", "pending", "resolved", "rejected"}
        /\ conv'.outcome \in Kinds \cup {"none"}
        /\ Agreement(conv) /\ Agreement(conv')
    BY DEF IInv, ConvInv, Conversations
  <2>3. CASE Settled(conv)
    BY <2>1, <2>3
  <2>4. CASE ~Settled(conv) /\ conv'.outcome = "none"
    BY <2>1, <2>2, <2>4 DEF Agreement, Settled, Aborted, Contract!Next, Contract!RequestCancel
  <2>5. CASE ~Settled(conv) /\ conv'.outcome \in {"success", "failure"}
    BY <2>1, <2>2, <2>5 DEF Agreement, Settled, Aborted, Contract!Next, Contract!Finish
  <2>6. CASE ~Settled(conv) /\ conv'.outcome = "cancellation"
    BY <2>1, <2>2, <2>6 DEF Agreement, Settled, Aborted, Contract!Next, Contract!Stop
  <2>7. CASE ~Settled(conv) /\ conv'.outcome = "cancellation_failure"
    BY <2>1, <2>2, <2>7 DEF Agreement, Settled, Aborted, Contract!Next, Contract!FailToStop
  <2> QED BY <2>2, <2>3, <2>4, <2>5, <2>6, <2>7 DEF Kinds
<1> QED BY <1>1, <1>2, Invariance, PTL DEF Spec, KeepsContract, Contract!Spec
=============================================================================
