-------------------------- MODULE AgentTurnProofs ---------------------------
(***************************************************************************)
(* Proofs about AgentTurn: whichever backend drives the turn, for a queue  *)
(* of any capacity and any number of updates.                              *)
(*                                                                         *)
(* What a call does to a conversation was proved in SettlementProofs for   *)
(* any set of reservation holders; a turn has two.  The three drivers are  *)
(* instances, each with its own names for the same operators.              *)
(***************************************************************************)
EXTENDS AgentTurn, TLAPS

Settling == INSTANCE SettlementProofs WITH Holders <- {"run", "timeout"}, reserved <- {}

ConvOK(c) == Settling!ConvInv(c)

Conversations == [outcome : Kinds \cup {"none"},
                  cancel  : {"none", "pending", "resolved", "rejected"},
                  held    : SUBSET {"run", "timeout"},
                  pending : Kinds \cup {"none"},
                  completion : {"pending", "resolved"},
                  offers  : SUBSET Kinds]

(* d is what c becomes by calls of its driver, in one step or several: it  *)
(* is still well formed, once settled it stays as it is, and nothing that  *)
(* was offered is forgotten.                                               *)
Follows(c, d) ==
    /\ ConvOK(d)
    /\ Aborted(d) <=> Aborted(c)
    /\ Settled(c) => d.outcome = c.outcome /\ d.cancel = c.cancel
    /\ c.offers \subseteq d.offers

-----------------------------------------------------------------------------
(* A turn in a child process.                                              *)

SubprocessTypes ==
    /\ pc \in {"prepare", "throwing", "done"} \cup Subprocess!Running
    /\ terminal \in {"none", "cancelled", "consumer", "timeout", "exited", "error"}
    /\ consumer \in {"idle", "busy", "settled", "threw"}
    /\ child \in {"unborn", "running", "gone"}
    /\ exit \in {"pending", "resolved", "rejected"}
    /\ term \in [Subprocess!Killers -> {"idle", "term", "kill", "stopped", "failed"}]

(* process.exit resolves once the child is gone; who reports it stopped    *)
(* has seen that, and who gives up ends the wait for everybody.            *)
Terminations ==
    /\ exit = "resolved" => child = "gone"
    /\ child = "unborn" => /\ pc \in {"prepare", "done"} /\ exit = "pending"
                           /\ \A k \in Subprocess!Killers : term[k] = "idle"
    /\ \A k \in Subprocess!Killers :
         /\ term[k] = "stopped" => exit = "resolved"
         /\ term[k] = "failed" => exit = "rejected"

(* Under a reservation nothing is published, and the run holds one from    *)
(* the spawn to its end.                                                   *)
Reservations ==
    /\ "run" \in conv.held <=> pc \in Subprocess!Running
    /\ conv.held # {} => ~Settled(conv)
    /\ pc = "prepare" => /\ child = "unborn" /\ consumer = "idle"
                         /\ Settled(conv) => Aborted(conv)
    /\ Subprocess!TimeoutStarted =>
         "timeout" \in conv.held \/ Aborted(conv) \/ "failure" \in conv.offers

(* The child is not, or no longer, at work, or nobody waits for its exit.  *)
Over == child # "running" \/ exit = "rejected"

(* What the ways to the end of the run have established.                   *)
Endings ==
    /\ pc \in Subprocess!Watching \cup {"prepare"} => terminal = "none"
    /\ pc \in {"startup", "read", "exit", "stderr"} => consumer = "idle"
    /\ pc = "stderr" \/ terminal = "exited" => exit = "resolved"
    /\ terminal = "cancelled" => Aborted(conv)
    /\ terminal = "timeout" => Subprocess!TimeoutOver
    /\ terminal = "error" => consumer \in {"idle", "threw"}
    /\ pc = "stopping" => terminal \in {"cancelled", "exited"}
    /\ pc = "cleanup" /\ terminal \in {"consumer", "error"} =>
         term["final"] \in {"stopped", "failed"}
    /\ pc \in {"cleanup", "lateTimeout", "release", "throwing", "done"} => Over
    /\ "success" \in conv.offers => consumer = "settled"
    /\ child = "running" /\ pc \in {"lateTimeout", "release", "throwing", "done"} =>
         Aborted(conv) \/ "failure" \in conv.offers \/ terminal = "error"

(* A cancellation is offered, and its completion announced, only when the  *)
(* child no longer is at work or nobody waits for it.                      *)
Cancelling ==
    /\ Aborted(conv) /\ child # "unborn" => term["cancel"] # "idle"
    /\ "cancellation" \in conv.offers => child # "running"
    /\ conv.completion = "resolved" => Aborted(conv) /\ Over

SubprocessInv == SubprocessTypes /\ Terminations /\ Reservations /\ Endings /\ Cancelling

-----------------------------------------------------------------------------
(* A turn over the Agent Client Protocol.                                  *)

Clients == [reply : {"none", "waiting", "ended", "stopped", "rejected"}, closed : BOOLEAN,
            signal : {"none", "SIGTERM", "SIGKILL"},
            loop : {"reading", "pushing", "responding", "exit", "over"},
            queue : Nat, received : Nat, done : {"pending", "resolved", "rejected"}]

(* No update is lost: what was read has been used, is queued, or is on its *)
(* way to the queue; the consumer ends when there can be no more.          *)
AcpInv ==
    /\ conv.held = {}
    /\ client \in Clients /\ output \in Nat
    /\ client.received = output + client.queue + (IF client.loop = "pushing" THEN 1 ELSE 0)
    /\ consumer = "ended" => client.queue = 0 /\ client.loop = "over"
    /\ pc \in {"prepare", "spawned"} => consumer = "idle"
    /\ pc = "turnEnd" \/ conv.outcome = "success" => consumer = "ended"

(* A turn on the shared server: a success is the end of its turn.          *)
OpenCodeInv ==
    /\ conv.held = {}
    /\ pc = "prepare" => turn = "idle"
    /\ conv.outcome = "success" => turn = "over" /\ session = "idle"

TurnInv ==
    /\ backend \in {"subprocess", "acp", "opencode"}
    /\ ConvOK(conv)
    /\ Aborted(conv) <=> hook # "idle"
    /\ backend = "subprocess" => SubprocessInv
    /\ backend = "acp" => AcpInv
    /\ backend = "opencode" => OpenCodeInv
    /\ backend # "subprocess" => \A k \in Subprocess!Killers : term[k] = "idle"

-----------------------------------------------------------------------------
(* The instance of Settlement means the same by its names.                 *)
LEMMA SettlingNames ==
    ASSUME NEW c, NEW kind, NEW h
    PROVE  /\ Settling!Settled(c) = Settled(c) /\ Settling!Aborted(c) = Aborted(c)
           /\ Settling!Kinds = Kinds /\ Settling!CancelKinds = CancelKinds
           /\ Settling!CancelTakesEffect(c) = CancelTakesEffect(c)
           /\ Settling!Offer(c, kind) = Offer(c, kind)
           /\ Settling!RequestCancel(c) = RequestCancel(c)
           /\ Settling!CleanupSucceeded(c) = CleanupSucceeded(c)
           /\ Settling!CleanupFailed(c) = CleanupFailed(c)
           /\ Settling!Reserve(c, h) = Reserve(c, h)
           /\ Settling!Release(c, h) = Release(c, h)
<1>1. Settling!Settled(c) = Settled(c) /\ Settling!Aborted(c) = Aborted(c)
  BY DEF Settling!Settled, Settled, Settling!Aborted, Aborted
<1>2. Settling!Kinds = Kinds /\ Settling!CancelKinds = CancelKinds
  BY DEF Settling!Kinds, Kinds, Settling!CancelKinds, CancelKinds
<1>3. Settling!CancelTakesEffect(c) = CancelTakesEffect(c)
      /\ Settling!RequestCancel(c) = RequestCancel(c)
  BY DEF Settling!CancelTakesEffect, CancelTakesEffect, Settling!RequestCancel, RequestCancel,
     Settling!Settled, Settled, Settling!Aborted, Aborted
<1>4. \A k : Settling!Offer(c, k) = Offer(c, k)
  BY DEF Settling!Offer, Offer, Settling!Settle, Settle, Settling!Stronger, Stronger,
     Settling!Priority, Priority, Settling!Publish, Publish, Settling!Complete, Complete,
     Settling!SettleCancel, SettleCancel, Settling!Settled, Settled, Settling!Aborted, Aborted
<1>5. Settling!CleanupSucceeded(c) = CleanupSucceeded(c)
      /\ Settling!CleanupFailed(c) = CleanupFailed(c)
  BY <1>4 DEF Settling!CleanupSucceeded, CleanupSucceeded, Settling!CleanupFailed, CleanupFailed
<1>6. Settling!Reserve(c, h) = Reserve(c, h)
  BY DEF Settling!Reserve, Reserve
<1>7. Settling!Release(c, h) = Release(c, h)
  BY DEF Settling!Release, Release, Settling!Publish, Publish, Settling!Complete, Complete,
     Settling!SettleCancel, SettleCancel, Settling!Settled, Settled, Settling!Aborted, Aborted
<1> QED BY <1>1, <1>2, <1>3, <1>4, <1>5, <1>6, <1>7

(* What a well-formed conversation is, as far as the drivers' proofs care. *)
LEMMA WellFormed ==
    ASSUME NEW c, ConvOK(c)
    PROVE  /\ c \in Conversations
           /\ c.cancel = "resolved" <=> c.outcome = "cancellation"
           /\ c.cancel = "rejected" <=> c.outcome = "cancellation_failure"
           /\ c.outcome \in {"success", "failure"} => ~Aborted(c)
           /\ Settled(c) => c.outcome \in c.offers
           /\ "failure" \in c.offers => c.outcome # "success"
           /\ ~Aborted(c) => c.offers \cap CancelKinds = {} /\ c.pending \notin CancelKinds
           /\ c.held = {} => c.pending = "none"
<1>1. Settled(c) /\ "failure" \in c.offers => Priority["failure"] <= Priority[c.outcome]
  BY DEF ConvOK, Settling!ConvInv, Settling!Strongest, Settling!Settled, Settled,
     Settling!Priority, Priority
<1>2. "failure" \in c.offers => c.outcome # "success"
  BY <1>1, SMT DEF Priority, Settled
<1>3. ~Aborted(c) => c.offers \cap CancelKinds = {} /\ c.pending \notin CancelKinds
  BY DEF ConvOK, Settling!ConvInv, Settling!Requested, Settling!Aborted, Aborted,
     Settling!CancelKinds, CancelKinds
<1>4. c.held = {} => c.pending = "none"
  BY DEF ConvOK, Settling!ConvInv, Settling!Requested
<1>5. c \in Conversations
  BY DEF ConvOK, Settling!ConvInv, Settling!Conversations, Settling!Kinds, Kinds, Conversations
<1>6. /\ c.cancel = "resolved" <=> c.outcome = "cancellation"
      /\ c.cancel = "rejected" <=> c.outcome = "cancellation_failure"
      /\ c.outcome \in {"success", "failure"} => ~Aborted(c)
      /\ Settled(c) => c.outcome \in c.offers
  BY DEF ConvOK, Settling!ConvInv, Settling!Agreement, Settling!Strongest, Settling!Settled,
     Settled, Aborted
<1> QED BY <1>2, <1>3, <1>4, <1>5, <1>6

(* Publishing leaves all but the outcome and the promise of cancel().      *)
LEMMA PublishLeaves ==
    ASSUME NEW c \in Conversations, NEW kind
    PROVE  /\ Publish(c, kind).offers = c.offers /\ Publish(c, kind).completion = c.completion
BY DEF Publish, Complete, SettleCancel, Conversations

(* A settlement is asked for: it is on record unless it came too late, and *)
(* it is the outcome only if nothing is reserved.                          *)
LEMMA OfferEffect ==
    ASSUME NEW c, ConvOK(c), NEW kind \in Kinds, kind \in CancelKinds <=> Aborted(c)
    PROVE  LET d == Offer(c, kind)
           IN /\ Follows(c, d) /\ d.held = c.held /\ d.completion = c.completion
              /\ d.offers = IF Settled(c) THEN c.offers ELSE c.offers \cup {kind}
              /\ d.outcome \in {c.outcome, kind}
              /\ c.held # {} => d.outcome = c.outcome
<1> DEFINE d == Offer(c, kind)
           b == IF Settled(c) THEN c ELSE [c EXCEPT !.offers = @ \cup {kind}]
<1>1. Settling!ConvInv(c) /\ kind \in Settling!Kinds
      /\ (kind \in Settling!CancelKinds <=> Settling!Aborted(c)) /\ d = Settling!Offer(c, kind)
  BY SettlingNames DEF ConvOK
<1>2. /\ Settling!ConvInv(d) /\ d.held = c.held
      /\ Settling!Aborted(d) <=> Settling!Aborted(c)
  BY <1>1, Settling!OfferKeeps DEF Settling!OfferKeeps
<1>3. /\ Settling!Settled(c) => d.outcome = c.outcome /\ d.cancel = c.cancel
      /\ ~Settling!Settled(c) => d.outcome \in {"none", kind}
      /\ c.held # {} => d.outcome = c.outcome
  BY <1>1, Settling!OfferOutcome DEF Settling!OfferOutcome
<1>4. /\ b \in Conversations /\ b.completion = c.completion
      /\ b.offers = IF Settled(c) THEN c.offers ELSE c.offers \cup {kind}
  BY WellFormed DEF Conversations
<1>5. d = Settle(b, kind)
  BY DEF Offer
<1> HIDE DEF b
<1>6. Settle(b, kind).offers = b.offers /\ Settle(b, kind).completion = b.completion
  BY <1>4, PublishLeaves DEF Settle, Conversations
<1> HIDE DEF d
<1>7. Follows(c, d)
  BY <1>2, <1>3, <1>4, <1>5, <1>6, SettlingNames DEF Follows, ConvOK
<1>8. d.outcome \in {c.outcome, kind}
  BY <1>3, SettlingNames DEF Settled
<1>9. /\ Follows(c, d) /\ d.held = c.held /\ d.completion = c.completion
      /\ d.offers = IF Settled(c) THEN c.offers ELSE c.offers \cup {kind}
      /\ d.outcome \in {c.outcome, kind}
      /\ c.held # {} => d.outcome = c.outcome
  BY <1>2, <1>3, <1>4, <1>5, <1>6, <1>7, <1>8
<1> QED BY <1>9 DEF d

LEMMA KindsApart ==
    /\ "success" \in Kinds /\ "failure" \in Kinds
    /\ "cancellation" \in Kinds /\ "cancellation_failure" \in Kinds
    /\ "success" \notin CancelKinds /\ "failure" \notin CancelKinds
    /\ "cancellation" \in CancelKinds /\ "cancellation_failure" \in CancelKinds
BY DEF Kinds, CancelKinds

(* succeed() and fail(): nothing on a cancelled conversation.              *)
LEMMA SucceedEffect ==
    ASSUME NEW c, ConvOK(c)
    PROVE  LET d == Succeed(c)
           IN /\ Follows(c, d) /\ d.held = c.held /\ d.completion = c.completion
              /\ d.offers \subseteq c.offers \cup {"success"}
              /\ c.held # {} => d.outcome = c.outcome
<1>1. CASE Aborted(c)
  BY <1>1 DEF Succeed, Follows
<1>2. CASE ~Aborted(c)
  <2>1. Succeed(c) = Offer(c, "success")
    BY <1>2 DEF Succeed
  <2>2. /\ Follows(c, Offer(c, "success")) /\ Offer(c, "success").held = c.held
        /\ Offer(c, "success").completion = c.completion
        /\ Offer(c, "success").offers = IF Settled(c) THEN c.offers ELSE c.offers \cup {"success"}
        /\ c.held # {} => Offer(c, "success").outcome = c.outcome
    BY <1>2, KindsApart, OfferEffect
  <2> QED BY <2>1, <2>2
<1> QED BY <1>1, <1>2

LEMMA FailEffect ==
    ASSUME NEW c, ConvOK(c)
    PROVE  LET d == Fail(c)
           IN /\ Follows(c, d) /\ d.held = c.held /\ d.completion = c.completion
              /\ d.offers \subseteq c.offers \cup {"failure"}
              /\ ~Aborted(c) /\ ~Settled(c) => "failure" \in d.offers
              /\ d.outcome \in {c.outcome, "failure"}
              /\ c.held # {} => d.outcome = c.outcome
<1>1. CASE Aborted(c)
  BY <1>1 DEF Fail, Follows
<1>2. CASE ~Aborted(c)
  <2>1. Fail(c) = Offer(c, "failure")
    BY <1>2 DEF Fail
  <2>2. /\ Follows(c, Offer(c, "failure")) /\ Offer(c, "failure").held = c.held
        /\ Offer(c, "failure").completion = c.completion
        /\ Offer(c, "failure").offers = IF Settled(c) THEN c.offers ELSE c.offers \cup {"failure"}
        /\ Offer(c, "failure").outcome \in {c.outcome, "failure"}
        /\ c.held # {} => Offer(c, "failure").outcome = c.outcome
    BY <1>2, KindsApart, OfferEffect
  <2> QED BY <2>1, <2>2
<1> QED BY <1>1, <1>2

(* The end of a cancellation's cleanup, good or bad: CleanupSucceeded and  *)
(* CleanupFailed.                                                          *)
Cleaned(c, kind) == [Offer(c, kind) EXCEPT !.completion = "resolved"]

LEMMA CleanupEffect ==
    ASSUME NEW c, ConvOK(c), Aborted(c), NEW kind \in CancelKinds
    PROVE  LET d == Cleaned(c, kind)
           IN /\ Follows(c, d) /\ d.held = c.held
              /\ d.offers \subseteq c.offers \cup {kind}
              /\ d.outcome \in {c.outcome, kind}
              /\ c.held # {} => d.outcome = c.outcome
<1> DEFINE b == Offer(c, kind)
           d == Cleaned(c, kind)
<1>1. kind \in Kinds
  BY DEF Kinds, CancelKinds
<1>2. /\ Follows(c, b) /\ b.held = c.held
      /\ b.offers = IF Settled(c) THEN c.offers ELSE c.offers \cup {kind}
      /\ b.outcome \in {c.outcome, kind}
      /\ c.held # {} => b.outcome = c.outcome
  BY <1>1, OfferEffect
<1>3. d = [b EXCEPT !.completion = "resolved"]
  BY DEF Cleaned
<1> HIDE DEF b, d
<1>4. Settling!ConvInv(b)
  BY <1>2 DEF Follows, ConvOK
<1>5. Settling!ConvInv(d) /\ d.held = b.held
  BY <1>3, <1>4, Settling!MarkKeeps DEF Settling!MarkKeeps
<1>6. d.outcome = b.outcome /\ d.cancel = b.cancel /\ d.offers = b.offers
  <2>1. ConvOK(b)
    BY <1>2 DEF Follows
  <2> QED BY <1>3, <2>1, WellFormed DEF Conversations
<1>7. Follows(c, d)
  BY <1>2, <1>5, <1>6 DEF Follows, ConvOK, Aborted
<1>8. /\ Follows(c, d) /\ d.held = c.held
      /\ d.offers \subseteq c.offers \cup {kind}
      /\ d.outcome \in {c.outcome, kind}
      /\ c.held # {} => d.outcome = c.outcome
  BY <1>2, <1>5, <1>6, <1>7
<1> QED BY <1>8 DEF d

(* cancel(), while it takes effect, up to the hook.                        *)
LEMMA RequestEffect ==
    ASSUME NEW c, ConvOK(c), CancelTakesEffect(c)
    PROVE  LET d == RequestCancel(c)
           IN /\ ConvOK(d) /\ Aborted(d) /\ d.held = c.held /\ d.offers = c.offers
              /\ d.outcome = c.outcome /\ d.cancel = "pending" /\ d.completion = c.completion
              /\ c.outcome = "none" /\ c.cancel = "none"
<1>1. Settling!ConvInv(c) /\ Settling!CancelTakesEffect(c)
      /\ Settling!RequestCancel(c) = RequestCancel(c)
  BY SettlingNames DEF ConvOK
<1>2. Settling!ConvInv(RequestCancel(c))
  BY <1>1, Settling!RequestKeeps DEF Settling!RequestKeeps
<1>3. RequestCancel(c) = [c EXCEPT !.cancel = "pending"]
  BY DEF RequestCancel
<1>4. c.outcome = "none" /\ c.cancel = "none"
  BY DEF CancelTakesEffect, Settled, Aborted
<1>5. LET d == [c EXCEPT !.cancel = "pending"]
      IN /\ d.held = c.held /\ d.offers = c.offers /\ d.outcome = c.outcome
         /\ d.cancel = "pending" /\ d.completion = c.completion
  BY WellFormed DEF Conversations
<1> QED BY <1>2, <1>3, <1>4, <1>5 DEF ConvOK, Aborted

LEMMA ReserveEffect ==
    ASSUME NEW c, ConvOK(c), NEW h \in {"run", "timeout"}
    PROVE  LET d == Reserve(c, h)
           IN /\ Follows(c, d) /\ d.held = c.held \cup {h} /\ d.completion = c.completion
              /\ d.offers = c.offers /\ d.outcome = c.outcome /\ d.cancel = c.cancel
<1>1. Settling!ConvInv(Reserve(c, h)) /\ Reserve(c, h).held = c.held \cup {h}
  <2>1. Settling!ConvInv(c) /\ Settling!Reserve(c, h) = Reserve(c, h)
    BY SettlingNames DEF ConvOK
  <2> QED BY <2>1, Settling!ReserveKeeps DEF Settling!ReserveKeeps
<1>2. LET d == Reserve(c, h)
      IN /\ d.completion = c.completion /\ d.offers = c.offers
         /\ d.outcome = c.outcome /\ d.cancel = c.cancel
  BY WellFormed DEF Reserve, Conversations
<1> QED BY <1>1, <1>2 DEF Follows, ConvOK, Aborted

(* The last release publishes; one before it only counts.                  *)
LEMMA ReleaseEffect ==
    ASSUME NEW c, ConvOK(c), NEW h
    PROVE  LET d == Release(c, h)
           IN /\ Follows(c, d) /\ d.held = c.held \ {h} /\ d.completion = c.completion
              /\ d.offers = c.offers
              /\ d.held # {} => d.outcome = c.outcome
<1> DEFINE d     == Release(c, h)
           left  == c.held \ {h}
           freed == [c EXCEPT !.held = left, !.pending = "none"]
<1>1. Settling!ConvInv(c) /\ d = Settling!Release(c, h)
  BY SettlingNames DEF ConvOK
<1>2. /\ Settling!ConvInv(d) /\ d.held = c.held \ {h}
      /\ Settling!Aborted(d) <=> Settling!Aborted(c)
  BY <1>1, Settling!ReleaseKeeps DEF Settling!ReleaseKeeps
<1>3. /\ Settling!Settled(c) => d.outcome = c.outcome /\ d.cancel = c.cancel
      /\ d.held # {} => d.outcome = c.outcome
  BY <1>1, Settling!ReleaseOutcome DEF Settling!ReleaseOutcome
<1>4. d = IF h \notin c.held THEN c
          ELSE IF left # {} THEN [c EXCEPT !.held = left]
          ELSE IF c.pending = "none" THEN freed
          ELSE Publish(freed, c.pending)
  BY DEF Release
<1>a. c \in Conversations /\ left \in SUBSET {"run", "timeout"}
  BY WellFormed DEF Conversations
<1> HIDE DEF left
<1>5. /\ freed \in Conversations /\ freed.offers = c.offers /\ freed.completion = c.completion
      /\ [c EXCEPT !.held = left].offers = c.offers
      /\ [c EXCEPT !.held = left].completion = c.completion
  BY <1>a DEF Conversations
<1> HIDE DEF freed
<1>6. /\ Publish(freed, c.pending).offers = c.offers
      /\ Publish(freed, c.pending).completion = c.completion
  BY <1>5, PublishLeaves
<1>7. d.offers = c.offers /\ d.completion = c.completion
  BY <1>4, <1>5, <1>6
<1> HIDE DEF d
<1>8. Follows(c, d)
  BY <1>2, <1>3, <1>7, SettlingNames DEF Follows, ConvOK
<1>9. /\ Follows(c, d) /\ d.held = c.held \ {h} /\ d.completion = c.completion
      /\ d.offers = c.offers
      /\ d.held # {} => d.outcome = c.outcome
  BY <1>2, <1>3, <1>7, <1>8
<1> QED BY <1>9 DEF d

(* Calls in a row.                                                         *)
LEMMA FollowsOn ==
    ASSUME NEW b, NEW c, NEW d, Follows(b, c), Follows(c, d)
    PROVE  Follows(b, d)
BY DEF Follows, Settled

-----------------------------------------------------------------------------
(* The child process.  One termination goes on, for whoever asked for it:  *)
(* the wait for the exit may end with it, and never starts again.          *)
Terminating(k) ==
    /\ term' \in [Subprocess!Killers -> {"idle", "term", "kill", "stopped", "failed"}]
    /\ term'[k] # "idle"
    /\ \A j \in Subprocess!Killers \ {k} : term'[j] = term[j]
    /\ exit' = exit \/ (exit = "pending" /\ exit' = "rejected")
    /\ term'[k] = "stopped" => exit' = "resolved"
    /\ term'[k] = "failed" => exit' = "rejected"

LEMMA FailsTerminates ==
    ASSUME SubprocessTypes, NEW k \in Subprocess!Killers, exit # "resolved", Subprocess!Fails(k)
    PROVE  Terminating(k)
BY DEF SubprocessTypes, Terminating, Subprocess!Fails

LEMMA TerminateTerminates ==
    ASSUME SubprocessTypes, Terminations, NEW k \in Subprocess!Killers, Subprocess!Terminate(k)
    PROVE  Terminating(k)
<1>1. CASE term' = [term EXCEPT ![k] = "term"] /\ UNCHANGED exit
  BY <1>1 DEF SubprocessTypes, Terminating
<1>2. CASE child = "running" /\ Subprocess!Fails(k)
  BY <1>2, FailsTerminates DEF Terminations
<1> QED BY <1>1, <1>2 DEF Subprocess!Terminate

LEMMA StepTerminates ==
    ASSUME SubprocessTypes, Terminations, NEW k \in Subprocess!Killers,
           Subprocess!TerminationStep(k)
    PROVE  /\ Terminating(k) /\ term[k] \in {"term", "kill"}
           /\ UNCHANGED <<conv, hook, pc, terminal, consumer, child>>
<1>1. CASE Subprocess!ExitSeen(k)
  <2>1. CASE exit = "resolved" /\ term' = [term EXCEPT ![k] = "stopped"] /\ UNCHANGED exit
    BY <1>1, <2>1 DEF Subprocess!ExitSeen, SubprocessTypes, Terminating
  <2>2. CASE exit = "rejected" /\ Subprocess!Fails(k)
    BY <1>1, <2>2, FailsTerminates DEF Subprocess!ExitSeen
  <2> QED BY <1>1, <2>1, <2>2 DEF Subprocess!ExitSeen
<1>2. CASE Subprocess!GraceOver(k)
  <2>1. CASE term' = [term EXCEPT ![k] = "kill"] /\ UNCHANGED exit
    BY <1>2, <2>1 DEF Subprocess!GraceOver, SubprocessTypes, Terminating
  <2>2. CASE Subprocess!Fails(k)
    BY <1>2, <2>2, FailsTerminates DEF Subprocess!GraceOver
  <2> QED BY <1>2, <2>1, <2>2 DEF Subprocess!GraceOver
<1>3. CASE Subprocess!ForceOver(k)
  BY <1>3, FailsTerminates DEF Subprocess!ForceOver
<1> QED BY <1>1, <1>2, <1>3 DEF Subprocess!TerminationStep

(* What the child, its exit and its terminations do keeps the invariant.   *)
LEMMA ChildKeeps ==
    ASSUME SubprocessInv,
           UNCHANGED <<conv, hook, pc, terminal, consumer>>,
           \/ child = "running" /\ child' = "gone" /\ UNCHANGED <<exit, term>>
           \/ /\ child # "unborn" /\ exit = "pending" /\ UNCHANGED <<child, term>>
              /\ exit' = "rejected" \/ (child = "gone" /\ exit' = "resolved")
           \/ \E k \in Subprocess!Killers :
                 Terminating(k) /\ term[k] \in {"term", "kill"} /\ UNCHANGED child
    PROVE  SubprocessInv'
<1> USE DEF SubprocessInv
<1>1. SubprocessTypes'
  BY DEF SubprocessTypes, Terminating
<1>2. Terminations'
  BY DEF SubprocessTypes, Terminations, Terminating
<1>3. Over => Over'
  BY DEF Over, Terminating
<1>4. Reservations'
  <2>1. Subprocess!TimeoutStarted' => Subprocess!TimeoutStarted
    BY DEF Subprocess!TimeoutStarted, Subprocess!Killers, Terminating
  <2> QED BY <2>1, SMT DEF Reservations, Terminations, Settled, Aborted
<1>5. Endings'
  <2>1. Subprocess!TimeoutOver => Subprocess!TimeoutOver'
    BY DEF Subprocess!TimeoutOver, Subprocess!Killers, Terminating
  <2>2. term["final"] \in {"stopped", "failed"} => term'["final"] \in {"stopped", "failed"}
    BY DEF Subprocess!Killers, Terminating
  <2>3. exit = "resolved" => exit' = "resolved"
    BY DEF Terminating
  <2>4. child' = "running" => child = "running"
    OBVIOUS
  <2> QED BY <1>3, <2>1, <2>2, <2>3, <2>4, SMT DEF Endings, Aborted
<1>6. Cancelling'
  <2>1. term["cancel"] # "idle" => term'["cancel"] # "idle"
    BY DEF Subprocess!Killers, Terminating
  <2> QED BY <1>3, <2>1, SMT DEF Cancelling, Aborted, Terminations
<1> QED BY <1>1, <1>2, <1>4, <1>5, <1>6

(* So does the run, when it changes neither the conversation nor the       *)
(* terminations and says how each condition it establishes comes about.    *)
LEMMA RunKeeps ==
    ASSUME SubprocessInv, SubprocessTypes',
           UNCHANGED <<conv, hook, child, exit, term>>,
           child # "unborn" /\ pc \in Subprocess!Running /\ pc' \in Subprocess!Running,
           Endings'
    PROVE  SubprocessInv'
<1> USE DEF SubprocessInv
<1>1. Terminations'
  BY DEF Terminations
<1>2. Reservations'
  BY SMT DEF Reservations, Settled, Aborted, Subprocess!TimeoutStarted, Subprocess!Running,
     Subprocess!Watching, Subprocess!Ending
<1>3. Cancelling'
  BY SMT DEF Cancelling, Aborted, Over
<1> QED BY <1>1, <1>2, <1>3

(* The steps of the run between two calls of the conversation's methods.   *)
Looking ==
    \/ Subprocess!Started
    \/ Subprocess!StartThrows
    \/ Subprocess!ReadLine
    \/ Subprocess!ReadEnd
    \/ Subprocess!ReadThrows
    \/ Subprocess!Consumed
    \/ Subprocess!Abandon
    \/ Subprocess!ExitWon
    \/ Subprocess!StderrEnds
    \/ Subprocess!StderrThrows
    \/ Subprocess!OtherWon
    \/ Subprocess!TimeoutAwaited
    \/ Subprocess!Terminated
    \/ Subprocess!StopAwaited

LEMMA LookingKeeps == ASSUME SubprocessInv, Looking PROVE SubprocessInv'
<1> USE DEF SubprocessInv, Subprocess!GoTo, Subprocess!Decide
<1>0. /\ ~Settled(conv) \/ pc \notin Subprocess!Running
      /\ pc \in Subprocess!Running => child # "unborn"
  BY SMT DEF Reservations, Terminations, Subprocess!Running, Subprocess!Watching, Subprocess!Ending
<1> DEFINE Good == /\ UNCHANGED <<conv, hook, child, exit, term>>
                   /\ pc \in Subprocess!Running /\ pc' \in Subprocess!Running
                   /\ SubprocessTypes' /\ Endings'
<1> SUFFICES Good
  BY <1>0, RunKeeps
<1> USE DEF SubprocessTypes, Terminations, Endings, Cancelling, Over, Subprocess!TimeoutOver,
        Subprocess!StoppedOutside, Subprocess!Running, Subprocess!Watching, Subprocess!Ending,
        Subprocess!Killers, Subprocess!Settled, Settled, Subprocess!Aborted, Aborted
<1>1. CASE Subprocess!Started
  BY <1>0, <1>1, SMT DEF Subprocess!Started
<1>2. CASE Subprocess!StartThrows
  BY <1>0, <1>2, SMT DEF Subprocess!StartThrows, Subprocess!Catch
<1>3. CASE Subprocess!ReadLine
  BY <1>0, <1>3, SMT DEF Subprocess!ReadLine
<1>4. CASE Subprocess!ReadEnd
  BY <1>0, <1>4, SMT DEF Subprocess!ReadEnd
<1>5. CASE Subprocess!ReadThrows
  BY <1>0, <1>5, SMT DEF Subprocess!ReadThrows, Subprocess!Catch
<1>6. CASE Subprocess!Consumed
  BY <1>0, <1>6, SMT DEF Subprocess!Consumed, Subprocess!Catch
<1>7. CASE Subprocess!Abandon
  BY <1>0, <1>7, SMT DEF Subprocess!Abandon
<1>8. CASE Subprocess!ExitWon
  BY <1>0, <1>8, SMT DEF Subprocess!ExitWon, Subprocess!Catch
<1>9. CASE Subprocess!StderrEnds
  BY <1>0, <1>9, SMT DEF Subprocess!StderrEnds
<1>10. CASE Subprocess!StderrThrows
  BY <1>0, <1>10, SMT DEF Subprocess!StderrThrows, Subprocess!Catch
<1>11. CASE Subprocess!OtherWon
  BY <1>0, <1>11, SMT DEF Subprocess!OtherWon, Subprocess!Race
<1>12. CASE Subprocess!TimeoutAwaited
  BY <1>0, <1>12, SMT DEF Subprocess!TimeoutAwaited
<1>13. CASE Subprocess!Terminated
  BY <1>0, <1>13, SMT DEF Subprocess!Terminated
<1>14. CASE Subprocess!StopAwaited
  BY <1>0, <1>14, SMT DEF Subprocess!StopAwaited
<1> QED BY <1>1, <1>2, <1>3, <1>4, <1>5, <1>6, <1>7, <1>8, <1>9, <1>10, <1>11, <1>12, <1>13, <1>14 DEF Looking

-----------------------------------------------------------------------------
(* The instance of SubprocessRun means the same by its names.              *)
LEMMA SubprocessNames ==
    ASSUME NEW c, NEW h
    PROVE  /\ Subprocess!Settled(c) = Settled(c) /\ Subprocess!Aborted(c) = Aborted(c)
           /\ Subprocess!CancelTakesEffect(c) = CancelTakesEffect(c)
           /\ Subprocess!Succeed(c) = Succeed(c) /\ Subprocess!Fail(c) = Fail(c)
           /\ Subprocess!RequestCancel(c) = RequestCancel(c)
           /\ Subprocess!CleanupSucceeded(c) = Cleaned(c, "cancellation")
           /\ Subprocess!CleanupFailed(c) = Cleaned(c, "cancellation_failure")
           /\ Subprocess!Reserve(c, h) = Reserve(c, h)
           /\ Subprocess!Release(c, h) = Release(c, h)
<1>1. Subprocess!Settled(c) = Settled(c) /\ Subprocess!Aborted(c) = Aborted(c)
  BY DEF Subprocess!Settled, Settled, Subprocess!Aborted, Aborted
<1>2. Subprocess!CancelTakesEffect(c) = CancelTakesEffect(c)
      /\ Subprocess!RequestCancel(c) = RequestCancel(c)
  BY DEF Subprocess!CancelTakesEffect, CancelTakesEffect, Subprocess!RequestCancel, RequestCancel,
     Subprocess!Settled, Settled, Subprocess!Aborted, Aborted
<1>3. \A k : Subprocess!Offer(c, k) = Offer(c, k)
  BY DEF Subprocess!Offer, Offer, Subprocess!Settle, Settle, Subprocess!Stronger, Stronger,
     Subprocess!Priority, Priority, Subprocess!Publish, Publish, Subprocess!Complete, Complete,
     Subprocess!SettleCancel, SettleCancel, Subprocess!Settled, Settled, Subprocess!Aborted, Aborted
<1>4. Subprocess!Succeed(c) = Succeed(c) /\ Subprocess!Fail(c) = Fail(c)
  BY <1>1, <1>3 DEF Subprocess!Succeed, Succeed, Subprocess!Fail, Fail
<1>5. /\ Subprocess!CleanupSucceeded(c) = Cleaned(c, "cancellation")
      /\ Subprocess!CleanupFailed(c) = Cleaned(c, "cancellation_failure")
  BY <1>3 DEF Subprocess!CleanupSucceeded, Subprocess!CleanupFailed, Cleaned
<1>6. Subprocess!Reserve(c, h) = Reserve(c, h)
  BY DEF Subprocess!Reserve, Reserve
<1>7. Subprocess!Release(c, h) = Release(c, h)
  BY DEF Subprocess!Release, Release, Subprocess!Publish, Publish, Subprocess!Complete, Complete,
     Subprocess!SettleCancel, SettleCancel, Subprocess!Settled, Settled, Subprocess!Aborted, Aborted
<1> QED BY <1>1, <1>2, <1>4, <1>5, <1>6, <1>7

(* FailCleanup and a report of a failed cancellation, of a run that ends:  *)
(* a failure of some kind is on record.                                    *)
LEMMA ReportEffect ==
    ASSUME NEW c, ConvOK(c)
    PROVE  LET d == Subprocess!ReportCancellationFailure(c)
           IN /\ Follows(c, d) /\ d.held = c.held
              /\ d.offers \subseteq c.offers \cup {"cancellation_failure"}
              /\ d.completion = "resolved" => c.completion = "resolved" \/ Aborted(c)
              /\ c.held # {} => d.outcome = c.outcome
<1>1. CASE Aborted(c)
  <2>1. Subprocess!ReportCancellationFailure(c) = Cleaned(c, "cancellation_failure")
    BY <1>1, SubprocessNames DEF Subprocess!ReportCancellationFailure
  <2> QED BY <1>1, <2>1, KindsApart, CleanupEffect
<1>2. CASE ~Aborted(c)
  BY <1>2, SubprocessNames DEF Subprocess!ReportCancellationFailure, Follows
<1> QED BY <1>1, <1>2

LEMMA FailCleanupEffect ==
    ASSUME NEW c, ConvOK(c)
    PROVE  LET d == Subprocess!FailCleanup(c)
           IN /\ Follows(c, d) /\ d.held = c.held
              /\ d.offers \subseteq c.offers \cup {"failure", "cancellation_failure"}
              /\ d.completion = "resolved" => c.completion = "resolved" \/ Aborted(c)
              /\ ~Aborted(c) /\ ~Settled(c) => "failure" \in d.offers
              /\ c.held # {} => d.outcome = c.outcome
<1>1. CASE Aborted(c)
  <2>1. Subprocess!FailCleanup(c) = Subprocess!ReportCancellationFailure(c)
    BY <1>1, SubprocessNames DEF Subprocess!FailCleanup
  <2> QED BY <1>1, <2>1, ReportEffect
<1>2. CASE ~Aborted(c)
  <2>1. Subprocess!FailCleanup(c) = Fail(c)
    BY <1>2, SubprocessNames DEF Subprocess!FailCleanup
  <2> QED BY <1>2, <2>1, FailEffect
<1> QED BY <1>1, <1>2

(* The end of a timed-out turn: its failure, then its reservation.         *)
LEMMA SettleTimeoutEffect ==
    ASSUME NEW c, ConvOK(c)
    PROVE  LET d == Subprocess!SettleTimeout(c)
           IN /\ Follows(c, d) /\ d.held = c.held \ {"timeout"} /\ d.completion = c.completion
              /\ d.offers \subseteq c.offers \cup {"failure"}
              /\ ~Aborted(c) /\ ~Settled(c) => "failure" \in d.offers
              /\ d.held # {} => d.outcome = c.outcome
<1> DEFINE b == Fail(c)
           d == Release(b, "timeout")
<1>1. Subprocess!SettleTimeout(c) = d
  BY SubprocessNames DEF Subprocess!SettleTimeout
<1>2. /\ Follows(c, b) /\ b.held = c.held /\ b.completion = c.completion
      /\ b.offers \subseteq c.offers \cup {"failure"}
      /\ ~Aborted(c) /\ ~Settled(c) => "failure" \in b.offers
      /\ c.held # {} => b.outcome = c.outcome
  BY FailEffect
<1> HIDE DEF b
<1>3. /\ Follows(b, d) /\ d.held = b.held \ {"timeout"} /\ d.completion = b.completion
      /\ d.offers = b.offers
      /\ d.held # {} => d.outcome = b.outcome
  <2>1. ConvOK(b)
    BY <1>2 DEF Follows
  <2> QED BY <2>1, ReleaseEffect
<1> HIDE DEF d
<1>4. Follows(c, d)
  BY <1>2, <1>3, FollowsOn
<1>5. d.held # {} => c.held # {}
  BY <1>2, <1>3
<1> QED BY <1>1, <1>2, <1>3, <1>4, <1>5

-----------------------------------------------------------------------------
(* What a step of a turn does to its conversation: calls of the driver, or *)
(* the caller's cancel().                                                  *)
Calls   == Follows(conv, conv') /\ (hook' = "idle" <=> hook = "idle")
Cancels == CancelTakesEffect(conv) /\ conv' = RequestCancel(conv) /\ hook' # "idle"

LEMMA NeverStartsKeeps ==
    ASSUME SubprocessInv, ConvOK(conv), Subprocess!NeverStarts \/ Subprocess!StartFails
    PROVE  SubprocessInv' /\ Calls
<1>1. /\ Follows(conv, conv') /\ conv'.held = conv.held /\ conv'.completion = conv.completion
      /\ conv'.offers \subseteq conv.offers \cup {"failure"}
      /\ conv.held # {} => conv'.outcome = conv.outcome
  <2>1. CASE Subprocess!NeverStarts
    BY <2>1 DEF Subprocess!NeverStarts, Follows
  <2>2. CASE Subprocess!StartFails
    BY <2>2, FailEffect, SubprocessNames DEF Subprocess!StartFails
  <2> QED BY <2>1, <2>2
<1>2. /\ pc = "prepare" /\ pc' = "done" /\ UNCHANGED <<hook, terminal, consumer, child, exit, term>>
  BY DEF Subprocess!NeverStarts, Subprocess!StartFails, Subprocess!GoTo
<1> USE DEF SubprocessInv, Over, Settled, Aborted, Subprocess!Running, Subprocess!Watching,
        Subprocess!Ending
<1>3. child = "unborn"
  BY <1>2 DEF Reservations
<1>4. SubprocessTypes' /\ Terminations'
  BY <1>2 DEF SubprocessTypes, Terminations
<1>5. Reservations'
  BY <1>1, <1>2, <1>3, SMT DEF Reservations, Terminations, Subprocess!TimeoutStarted,
     Subprocess!Killers
<1>6. Endings' /\ Cancelling'
  BY <1>1, <1>2, <1>3, SMT DEF Endings, Cancelling, Follows, Subprocess!TimeoutOver
<1> QED BY <1>1, <1>2, <1>4, <1>5, <1>6 DEF Calls

LEMMA SpawnKeeps ==
    ASSUME SubprocessInv, ConvOK(conv), Subprocess!Spawn
    PROVE  SubprocessInv' /\ Calls
<1>1. /\ Follows(conv, conv') /\ conv'.held = conv.held \cup {"run"}
      /\ conv'.completion = conv.completion /\ conv'.offers = conv.offers
      /\ conv'.outcome = conv.outcome /\ ~Aborted(conv) /\ ~Aborted(conv')
  BY ReserveEffect, SubprocessNames DEF Subprocess!Spawn, Follows
<1>2. /\ pc = "prepare" /\ pc' = "startup" /\ child' = "running"
      /\ UNCHANGED <<hook, terminal, consumer, exit, term>>
  BY DEF Subprocess!Spawn, Subprocess!GoTo
<1> USE DEF SubprocessInv, Over, Settled, Subprocess!Running, Subprocess!Watching,
        Subprocess!Ending
<1>3. /\ child = "unborn" /\ conv.held \subseteq {"run", "timeout"}
      /\ \A k \in Subprocess!Killers : term[k] = "idle"
      /\ "cancellation" \notin conv.offers
  BY <1>1, <1>2, WellFormed, KindsApart DEF Reservations, Terminations, Conversations
<1>4. SubprocessTypes' /\ Terminations'
  BY <1>2, <1>3 DEF SubprocessTypes, Terminations
<1>5. Reservations'
  BY <1>1, <1>2, <1>3, SMT DEF Reservations, Subprocess!TimeoutStarted, Subprocess!Killers
<1>6. Endings'
  BY <1>1, <1>2, <1>3, SMT DEF Endings, Reservations, Subprocess!TimeoutOver
<1>7. Cancelling'
  BY <1>1, <1>2, <1>3 DEF Cancelling
<1> QED BY <1>1, <1>2, <1>4, <1>5, <1>6, <1>7 DEF Calls

LEMMA SubprocessCancelKeeps ==
    ASSUME SubprocessInv, ConvOK(conv), Subprocess!CallCancel
    PROVE  SubprocessInv' /\ Cancels
<1>1. /\ ConvOK(conv') /\ Aborted(conv') /\ conv'.held = conv.held /\ conv'.offers = conv.offers
      /\ conv'.outcome = conv.outcome /\ conv'.completion = conv.completion
      /\ ~Aborted(conv) /\ ~Settled(conv)
      /\ CancelTakesEffect(conv) /\ conv' = RequestCancel(conv)
  BY RequestEffect, SubprocessNames DEF Subprocess!CallCancel, CancelTakesEffect
<1>2. /\ hook' = "running" /\ UNCHANGED <<pc, terminal, consumer, child>>
      /\ child = "unborn" => UNCHANGED <<term, exit>>
      /\ child # "unborn" => Terminating("cancel")
  BY TerminateTerminates DEF Subprocess!CallCancel, SubprocessInv, Subprocess!Killers
<1> USE DEF SubprocessInv
<1>3. SubprocessTypes'
  BY <1>2 DEF SubprocessTypes, Terminating
<1>4. Terminations'
  BY <1>2 DEF Terminations, Terminating
<1>5. Over => Over'
  BY <1>2 DEF Over, Terminating
<1>6. Reservations'
  <2>1. term'["timeout"] = term["timeout"]
    BY <1>2 DEF Terminating, Subprocess!Killers
  <2> QED BY <1>1, <1>2, <2>1 DEF Reservations, Settled, Subprocess!TimeoutStarted
<1>7. Endings'
  <2>1. term'["timeout"] = term["timeout"] /\ term'["final"] = term["final"]
    BY <1>2 DEF Terminating, Subprocess!Killers
  <2>2. exit = "resolved" => exit' = "resolved"
    BY <1>2 DEF Terminating
  <2> QED BY <1>1, <1>2, <1>5, <2>1, <2>2, SMT DEF Endings, Subprocess!TimeoutOver
<1>8. Cancelling'
  BY <1>1, <1>2, <1>5 DEF Cancelling, Terminating
<1> QED BY <1>1, <1>2, <1>3, <1>4, <1>6, <1>7, <1>8 DEF Cancels

(* The hook has seen the child's exit, or has given up waiting for it.     *)
LEMMA SubprocessHookKeeps ==
    ASSUME SubprocessInv, ConvOK(conv), Aborted(conv), Subprocess!HookEnds
    PROVE  SubprocessInv' /\ Calls
<1> USE DEF SubprocessInv
<1>1. PICK kind \in {"cancellation", "cancellation_failure"} :
        /\ conv' = Cleaned(conv, kind)
        /\ kind = "cancellation" => term["cancel"] \in {"idle", "stopped"}
        /\ kind = "cancellation_failure" => term["cancel"] = "failed"
  BY SubprocessNames DEF Subprocess!HookEnds
<1>2. /\ Follows(conv, conv') /\ conv'.held = conv.held
      /\ conv'.offers \subseteq conv.offers \cup {kind}
      /\ conv.held # {} => conv'.outcome = conv.outcome
      /\ Aborted(conv')
  BY <1>1, CleanupEffect, KindsApart DEF Follows
<1>3. /\ hook = "running" /\ hook' = "finished"
      /\ UNCHANGED <<pc, terminal, consumer, child, exit, term>>
  BY DEF Subprocess!HookEnds
<1>4. Over /\ (kind = "cancellation" => child # "running")
  BY <1>1, SMT DEF Terminations, Cancelling, Over, Subprocess!Killers
<1>5. SubprocessTypes' /\ Terminations'
  BY <1>3 DEF SubprocessTypes, Terminations
<1>6. Reservations'
  BY <1>2, <1>3, SMT DEF Reservations, Settled, Subprocess!TimeoutStarted
<1>7. Endings'
  BY <1>2, <1>3, SMT DEF Endings, Over, Subprocess!TimeoutOver
<1>8. Cancelling'
  BY <1>2, <1>3, <1>4, SMT DEF Cancelling, Over
<1> QED BY <1>2, <1>3, <1>5, <1>6, <1>7, <1>8 DEF Calls

LEMMA TimerKeeps ==
    ASSUME SubprocessInv, ConvOK(conv), Subprocess!TimerFires
    PROVE  SubprocessInv' /\ Calls
<1> USE DEF SubprocessInv
<1>1. /\ Follows(conv, conv') /\ conv'.held = conv.held \cup {"timeout"}
      /\ conv'.completion = conv.completion /\ conv'.offers = conv.offers
      /\ conv'.outcome = conv.outcome
  BY ReserveEffect, SubprocessNames DEF Subprocess!TimerFires
<1>2. /\ pc \in Subprocess!Watching /\ term["timeout"] = "idle" /\ Terminating("timeout")
      /\ UNCHANGED <<hook, pc, terminal, consumer, child>>
  BY TerminateTerminates DEF Subprocess!TimerFires, Subprocess!TimeoutStarted, Subprocess!Killers
<1>3. "run" \in conv.held /\ terminal = "none" /\ child # "unborn"
  BY <1>2, SMT DEF Reservations, Endings, Terminations, Subprocess!Running, Subprocess!Watching
<1>4. SubprocessTypes'
  BY <1>2 DEF SubprocessTypes, Terminating
<1>5. Terminations'
  BY <1>2, <1>3 DEF Terminations, Terminating
<1>6. Over => Over'
  BY <1>2 DEF Over, Terminating
<1>7. Reservations'
  BY <1>1, <1>2, <1>3, SMT DEF Reservations, Settled, Subprocess!TimeoutStarted,
     Subprocess!Watching
<1>8. Endings'
  <2>1. term'["final"] = term["final"]
    BY <1>2 DEF Terminating, Subprocess!Killers
  <2>2. exit = "resolved" => exit' = "resolved"
    BY <1>2 DEF Terminating
  <2> QED BY <1>1, <1>2, <1>3, <1>6, <2>1, <2>2, SMT DEF Endings, Follows, Subprocess!TimeoutOver
<1>9. Cancelling'
  <2>1. term'["cancel"] = term["cancel"]
    BY <1>2 DEF Terminating, Subprocess!Killers
  <2> QED BY <1>1, <1>2, <1>6, <2>1, SMT DEF Cancelling, Follows
<1> QED BY <1>1, <1>2, <1>4, <1>5, <1>7, <1>8, <1>9 DEF Calls

(* The consumer, also one the run has left behind.                         *)
LEMMA ConsumerKeeps ==
    ASSUME SubprocessInv, ConvOK(conv), Subprocess!ConsumerStep
    PROVE  SubprocessInv' /\ Calls
<1> USE DEF SubprocessInv
<1>1. /\ Follows(conv, conv') /\ conv'.held = conv.held /\ conv'.completion = conv.completion
      /\ conv'.offers \subseteq conv.offers \cup {"success", "failure"}
      /\ consumer' # "settled" => conv' = conv
      /\ conv.held # {} => conv'.outcome = conv.outcome
  BY SucceedEffect, FailEffect, SubprocessNames
  DEF Subprocess!ConsumerStep, Subprocess!ConsumeReturns, Subprocess!ConsumeThrows,
      Subprocess!ConsumeSettles, Follows
<1>2. /\ consumer = "busy" /\ consumer' \in {"idle", "threw", "settled"}
      /\ UNCHANGED <<hook, pc, terminal, child, exit, term>>
  BY DEF Subprocess!ConsumerStep, Subprocess!ConsumeReturns, Subprocess!ConsumeThrows,
     Subprocess!ConsumeSettles
<1>3. SubprocessTypes' /\ Terminations'
  BY <1>2 DEF SubprocessTypes, Terminations
<1>4. Reservations'
  BY <1>1, <1>2, SMT DEF Reservations, Follows, Settled, Subprocess!TimeoutStarted
<1>5. Endings'
  BY <1>1, <1>2, SMT DEF Endings, Follows, Over, Subprocess!TimeoutOver
<1>6. Cancelling'
  BY <1>1, <1>2, SMT DEF Cancelling, Follows, Over
<1> QED BY <1>1, <1>2, <1>3, <1>4, <1>5, <1>6 DEF Calls

(* finalizeSubprocess: the run terminates its child, waits for who stops   *)
(* it, or has seen its exit and settles.                                   *)
LEMMA FinalizeKeeps ==
    ASSUME SubprocessInv, ConvOK(conv), Subprocess!Finalize
    PROVE  SubprocessInv' /\ Calls
<1> USE DEF SubprocessInv
<1>0. /\ pc = "finalize" /\ UNCHANGED <<hook, terminal, consumer, child>>
      /\ "run" \in conv.held /\ ~Settled(conv) /\ child # "unborn"
  BY SMT DEF Subprocess!Finalize, Subprocess!GoTo, Reservations, Terminations, Subprocess!Running,
     Subprocess!Watching, Subprocess!Ending
<1>1. CASE /\ terminal \in {"consumer", "error"}
           /\ pc' = "terminating" /\ Subprocess!Terminate("final") /\ UNCHANGED conv
  <2>1. Terminating("final")
    BY <1>1, TerminateTerminates DEF Subprocess!Killers
  <2>2. term'["timeout"] = term["timeout"] /\ term'["cancel"] = term["cancel"]
    BY <2>1 DEF Terminating, Subprocess!Killers
  <2>3. SubprocessTypes'
    BY <1>0, <1>1, <2>1 DEF SubprocessTypes, Terminating, Subprocess!Running, Subprocess!Ending
  <2>4. Terminations'
    BY <1>0, <2>1 DEF Terminations, Terminating
  <2>5. Reservations'
    BY <1>0, <1>1, <2>2, SMT DEF Reservations, Settled, Aborted, Subprocess!TimeoutStarted,
       Subprocess!Running, Subprocess!Watching, Subprocess!Ending
  <2>6. Endings'
    BY <1>0, <1>1, <2>2, SMT DEF Endings, Subprocess!TimeoutOver, Subprocess!Watching
  <2>7. Cancelling'
    BY <1>0, <1>1, <2>1, <2>2, SMT DEF Cancelling, Aborted, Over, Terminating
  <2>8. Calls
    BY <1>0, <1>1 DEF Calls, Follows
  <2> QED BY <2>3, <2>4, <2>5, <2>6, <2>7, <2>8
<1>2. CASE /\ \/ terminal = "timeout" /\ pc' = "cleanup"
              \/ terminal \in {"cancelled", "exited"} /\ pc' = "stopping"
           /\ UNCHANGED <<conv, exit, term>>
  <2>1. SubprocessTypes'
    BY <1>0, <1>2 DEF SubprocessTypes, Subprocess!Running, Subprocess!Ending
  <2>2. Endings'
    BY <1>0, <1>2, SMT DEF Endings, Terminations, Subprocess!TimeoutOver, Subprocess!Watching, Over,
       Subprocess!Killers
  <2>3. SubprocessInv'
    BY <1>0, <1>2, <2>1, <2>2, RunKeeps DEF Subprocess!Running, Subprocess!Ending
  <2>4. Calls
    BY <1>0, <1>2 DEF Calls, Follows
  <2> QED BY <2>3, <2>4
<1>3. CASE /\ terminal = "exited" /\ ~Aborted(conv)
           /\ conv' = Fail(conv) /\ pc' = "release" /\ UNCHANGED <<exit, term>>
  <2>1. /\ Follows(conv, conv') /\ conv'.held = conv.held /\ conv'.completion = conv.completion
        /\ conv'.offers \subseteq conv.offers \cup {"failure"}
        /\ conv.held # {} => conv'.outcome = conv.outcome
    BY <1>3, FailEffect
  <2>2. child = "gone"
    BY <1>3 DEF Endings, Terminations
  <2>3. SubprocessTypes' /\ Terminations'
    BY <1>0, <1>3 DEF SubprocessTypes, Terminations, Subprocess!Running, Subprocess!Ending
  <2>4. Reservations'
    BY <1>0, <1>3, <2>1, SMT DEF Reservations, Settled, Follows, Subprocess!TimeoutStarted,
       Subprocess!Running, Subprocess!Watching, Subprocess!Ending
  <2>5. Endings' /\ Cancelling'
    BY <1>0, <1>3, <2>1, <2>2, SMT DEF Endings, Cancelling, Follows, Subprocess!TimeoutOver, Over,
       Subprocess!Watching
  <2> QED BY <1>0, <2>1, <2>3, <2>4, <2>5 DEF Calls
<1> QED BY <1>1, <1>2, <1>3, SubprocessNames DEF Subprocess!Finalize, Subprocess!GoTo

(* What the run calls when the streams are torn down, with errors or not:  *)
(* whichever way it ended, it says so before it gives up its reservation.  *)
LEMMA CleanedUp ==
    ASSUME SubprocessInv, ConvOK(conv), Subprocess!StreamsCleaned
    PROVE  /\ Follows(conv, conv')
           /\ conv'.held = IF terminal = "timeout" THEN conv.held \ {"timeout"} ELSE conv.held
           /\ conv'.offers \subseteq conv.offers \cup {"failure", "cancellation_failure"}
           /\ conv'.completion = "resolved" => conv.completion = "resolved" \/ Aborted(conv)
           /\ conv'.held # {} => conv'.outcome = conv.outcome
           /\ /\ terminal = "timeout" \/ (terminal = "consumer" /\ term["final"] = "failed")
              /\ ~Aborted(conv) /\ ~Settled(conv)
              => "failure" \in conv'.offers
<1> DEFINE FC == Subprocess!FailCleanup(conv)
<1>1. /\ Follows(conv, FC) /\ FC.held = conv.held
      /\ FC.offers \subseteq conv.offers \cup {"failure", "cancellation_failure"}
      /\ FC.completion = "resolved" => conv.completion = "resolved" \/ Aborted(conv)
      /\ ~Aborted(conv) /\ ~Settled(conv) => "failure" \in FC.offers
      /\ conv.held # {} => FC.outcome = conv.outcome
  BY FailCleanupEffect
<1> HIDE DEF FC
<1>2. Follows(conv, conv)
  BY DEF Follows
<1>3. CASE \/ terminal = "consumer" /\ conv' = FC
           \/ terminal = "consumer" /\ term["final"] # "failed" /\ conv' = conv
  BY <1>1, <1>2, <1>3
<1>4. CASE terminal = "timeout" /\ \E c \in {FC, conv} : conv' = Subprocess!SettleTimeout(c)
  <2>1. PICK c \in {FC, conv} : conv' = Subprocess!SettleTimeout(c)
    BY <1>4
  <2>2. /\ Follows(conv, c) /\ c.held = conv.held
        /\ c.offers \subseteq conv.offers \cup {"failure", "cancellation_failure"}
        /\ c.completion = "resolved" => conv.completion = "resolved" \/ Aborted(conv)
        /\ conv.held # {} => c.outcome = conv.outcome
        /\ ConvOK(c) /\ (Aborted(c) <=> Aborted(conv))
    BY <1>1, <1>2, <2>1 DEF Follows
  <2>3. /\ Follows(c, conv') /\ conv'.held = c.held \ {"timeout"}
        /\ conv'.completion = c.completion
        /\ conv'.offers \subseteq c.offers \cup {"failure"}
        /\ ~Aborted(c) /\ ~Settled(c) => "failure" \in conv'.offers
        /\ conv'.held # {} => conv'.outcome = c.outcome
    BY <2>1, <2>2, SettleTimeoutEffect
  <2>4. Follows(conv, conv')
    BY <2>2, <2>3, FollowsOn
  <2>5. ~Aborted(conv) /\ ~Settled(conv) => "failure" \in conv'.offers
    BY <1>1, <2>1, <2>2, <2>3 DEF Follows
  <2> QED BY <1>4, <2>2, <2>3, <2>4, <2>5
<1>5. CASE /\ terminal \in {"cancelled", "exited", "error"}
           /\ conv' \in {conv, Subprocess!ReportCancellationFailure(conv)}
  BY <1>2, <1>5, ReportEffect
<1> QED BY <1>3, <1>4, <1>5 DEF Subprocess!StreamsCleaned, FC

LEMMA StreamsCleanedKeeps ==
    ASSUME SubprocessInv, ConvOK(conv), Subprocess!StreamsCleaned
    PROVE  SubprocessInv' /\ Calls
<1> USE DEF SubprocessInv
<1>0. /\ pc = "cleanup" /\ UNCHANGED <<hook, terminal, consumer, child, exit, term>>
      /\ pc' \in {"lateTimeout", "release"}
      /\ terminal \in {"consumer", "timeout", "cancelled", "exited", "error"}
  BY DEF Subprocess!StreamsCleaned, Subprocess!GoTo
<1>1. /\ Follows(conv, conv')
      /\ conv'.held = IF terminal = "timeout" THEN conv.held \ {"timeout"} ELSE conv.held
      /\ conv'.offers \subseteq conv.offers \cup {"failure", "cancellation_failure"}
      /\ conv'.completion = "resolved" => conv.completion = "resolved" \/ Aborted(conv)
      /\ conv'.held # {} => conv'.outcome = conv.outcome
      /\ /\ terminal = "timeout" \/ (terminal = "consumer" /\ term["final"] = "failed")
         /\ ~Aborted(conv) /\ ~Settled(conv)
         => "failure" \in conv'.offers
  BY CleanedUp
<1>2. "run" \in conv.held /\ ~Settled(conv) /\ Over /\ child # "unborn"
  BY <1>0, SMT DEF Reservations, Endings, Terminations, Subprocess!Running, Subprocess!Ending
<1>3. SubprocessTypes' /\ Terminations'
  BY <1>0 DEF SubprocessTypes, Terminations, Subprocess!Running, Subprocess!Ending
<1>4. Reservations'
  BY <1>0, <1>1, <1>2, SMT DEF Reservations, Settled, Follows, Subprocess!TimeoutStarted,
     Subprocess!Running, Subprocess!Watching, Subprocess!Ending
<1>5. child = "running" => Aborted(conv') \/ "failure" \in conv'.offers \/ terminal = "error"
  <2>1. CASE terminal = "consumer"
    BY <1>0, <1>1, <1>2, <2>1, SMT DEF Endings, Terminations, Follows, Subprocess!Killers
  <2>2. CASE terminal = "timeout"
    BY <1>1, <1>2, <2>2, SMT DEF Follows
  <2>3. CASE terminal = "cancelled"
    BY <1>1, <2>3, SMT DEF Endings, Follows
  <2>4. CASE terminal = "exited"
    BY <2>4, SMT DEF Endings, Terminations
  <2> QED BY <1>0, <2>1, <2>2, <2>3, <2>4
<1>6. Endings'
  BY <1>0, <1>1, <1>2, <1>5, SMT DEF Endings, Follows, Over, Subprocess!TimeoutOver,
     Subprocess!Watching
<1>7. Cancelling'
  BY <1>0, <1>1, <1>2, SMT DEF Cancelling, Follows, Over
<1> QED BY <1>0, <1>1, <1>3, <1>4, <1>6, <1>7 DEF Calls

LEMMA LateTimeoutKeeps ==
    ASSUME SubprocessInv, ConvOK(conv), Subprocess!LateTimeout
    PROVE  SubprocessInv' /\ Calls
<1> USE DEF SubprocessInv
<1>0. /\ pc = "lateTimeout" /\ UNCHANGED <<hook, terminal, consumer, child, exit, term>>
      /\ pc' = "release"
  BY DEF Subprocess!LateTimeout, Subprocess!GoTo
<1>1. /\ Follows(conv, conv') /\ conv'.held = conv.held \ {"timeout"}
      /\ conv'.completion = conv.completion
      /\ conv'.offers \subseteq conv.offers \cup {"failure"}
      /\ ~Aborted(conv) /\ ~Settled(conv) => "failure" \in conv'.offers
      /\ conv'.held # {} => conv'.outcome = conv.outcome
  BY SettleTimeoutEffect DEF Subprocess!LateTimeout
<1>2. "run" \in conv.held /\ ~Settled(conv) /\ Over
  BY <1>0, SMT DEF Reservations, Endings, Subprocess!Running, Subprocess!Ending
<1>3. SubprocessTypes' /\ Terminations'
  BY <1>0 DEF SubprocessTypes, Terminations, Subprocess!Running, Subprocess!Ending
<1>4. Reservations'
  BY <1>0, <1>1, <1>2, SMT DEF Reservations, Settled, Follows, Subprocess!TimeoutStarted,
     Subprocess!Running, Subprocess!Watching, Subprocess!Ending
<1>5. Endings'
  BY <1>0, <1>1, <1>2, SMT DEF Endings, Follows, Over, Subprocess!TimeoutOver,
     Subprocess!Watching
<1>6. Cancelling'
  BY <1>0, <1>1, <1>2, SMT DEF Cancelling, Follows, Over
<1> QED BY <1>0, <1>1, <1>3, <1>4, <1>5, <1>6 DEF Calls

(* The finally block, and the driver's catch block behind it.              *)
LEMMA ReleaseRunKeeps ==
    ASSUME SubprocessInv, ConvOK(conv), Subprocess!ReleaseRun \/ Subprocess!DriverCatches
    PROVE  SubprocessInv' /\ Calls
<1> USE DEF SubprocessInv
<1>0. /\ UNCHANGED <<hook, terminal, consumer, child, exit, term>>
      /\ \/ pc = "release" /\ pc' = IF terminal = "error" THEN "throwing" ELSE "done"
         \/ pc = "throwing" /\ pc' = "done"
  BY DEF Subprocess!ReleaseRun, Subprocess!DriverCatches, Subprocess!GoTo
<1>1. /\ Follows(conv, conv') /\ conv'.completion = conv.completion
      /\ conv'.offers \subseteq conv.offers \cup {"failure"}
      /\ conv'.held = conv.held \ {"run"}
      /\ conv'.held # {} => conv'.outcome = conv.outcome
  <2>1. CASE Subprocess!ReleaseRun
    BY <2>1, ReleaseEffect, SubprocessNames DEF Subprocess!ReleaseRun
  <2>2. CASE Subprocess!DriverCatches
    <3>1. pc = "throwing" /\ conv' = Fail(conv)
      BY <2>2, SubprocessNames DEF Subprocess!DriverCatches
    <3>2. "run" \notin conv.held
      BY <3>1, SMT DEF Reservations, Subprocess!Running, Subprocess!Watching, Subprocess!Ending
    <3>3. conv.held = conv.held \ {"run"}
      BY <3>2
    <3> QED BY <3>1, <3>3, FailEffect
  <2> QED BY <2>1, <2>2
<1>2. Over
  BY <1>0 DEF Endings
<1>3. SubprocessTypes' /\ Terminations'
  BY <1>0, SMT DEF SubprocessTypes, Terminations
<1>4. Reservations'
  BY <1>0, <1>1, SMT DEF Reservations, Settled, Follows, Subprocess!TimeoutStarted,
     Subprocess!Running, Subprocess!Watching, Subprocess!Ending
<1>5. Endings'
  BY <1>0, <1>1, <1>2, SMT DEF Endings, Follows, Over, Subprocess!TimeoutOver,
     Subprocess!Watching
<1>6. Cancelling'
  BY <1>0, <1>1, <1>2, SMT DEF Cancelling, Follows, Over
<1> QED BY <1>0, <1>1, <1>3, <1>4, <1>5, <1>6 DEF Calls

(* Every step of the subprocess run keeps its invariant.                   *)
LEMMA SubprocessStep ==
    ASSUME SubprocessInv, ConvOK(conv), Aborted(conv) <=> hook # "idle", Subprocess!Next
    PROVE  SubprocessInv' /\ (Calls \/ Cancels)
<1>1. CASE UNCHANGED <<conv, hook, pc, terminal, consumer>> /\
           \/ Subprocess!ProcessExits \/ Subprocess!ExitObserved \/ Subprocess!ExitErrors
           \/ \E k \in Subprocess!Killers : Subprocess!TerminationStep(k)
  <2>1. \/ child = "running" /\ child' = "gone" /\ UNCHANGED <<exit, term>>
        \/ /\ child # "unborn" /\ exit = "pending" /\ UNCHANGED <<child, term>>
           /\ exit' = "rejected" \/ (child = "gone" /\ exit' = "resolved")
        \/ \E k \in Subprocess!Killers :
              Terminating(k) /\ term[k] \in {"term", "kill"} /\ UNCHANGED child
    BY <1>1, StepTerminates
    DEF Subprocess!ProcessExits, Subprocess!ExitObserved, Subprocess!ExitErrors, SubprocessInv
  <2>2. SubprocessInv'
    BY <1>1, <2>1, ChildKeeps
  <2>3. Calls
    BY <1>1 DEF Calls, Follows
  <2> QED BY <2>2, <2>3
<1>2. ASSUME Looking PROVE SubprocessInv' /\ Calls
  <2>1. UNCHANGED <<conv, hook>>
    BY <1>2 DEF Looking, Subprocess!Started, Subprocess!StartThrows, Subprocess!ReadLine,
       Subprocess!ReadEnd, Subprocess!ReadThrows, Subprocess!Consumed, Subprocess!Abandon,
       Subprocess!ExitWon, Subprocess!StderrEnds, Subprocess!StderrThrows, Subprocess!OtherWon,
       Subprocess!TimeoutAwaited, Subprocess!Terminated, Subprocess!StopAwaited
  <2>2. Calls
    BY <2>1 DEF Calls, Follows
  <2> QED BY <1>2, <2>2, LookingKeeps
<1>3. CASE Subprocess!NeverStarts \/ Subprocess!StartFails
  BY <1>3, NeverStartsKeeps
<1>4. CASE Subprocess!Spawn
  BY <1>4, SpawnKeeps
<1>5. CASE Subprocess!CallCancel
  BY <1>5, SubprocessCancelKeeps
<1>6. CASE Subprocess!HookEnds
  <2>1. Aborted(conv)
    BY <1>6 DEF Subprocess!HookEnds
  <2> QED BY <1>6, <2>1, SubprocessHookKeeps
<1>7. CASE Subprocess!TimerFires
  BY <1>7, TimerKeeps
<1>8. CASE Subprocess!ConsumerStep
  BY <1>8, ConsumerKeeps
<1>9. CASE Subprocess!Finalize
  BY <1>9, FinalizeKeeps
<1>10. CASE Subprocess!StreamsCleaned
  BY <1>10, StreamsCleanedKeeps
<1>11. CASE Subprocess!LateTimeout
  BY <1>11, LateTimeoutKeeps
<1>12. CASE Subprocess!ReleaseRun \/ Subprocess!DriverCatches
  BY <1>12, ReleaseRunKeeps
<1>13. (\/ Subprocess!ProcessExits \/ Subprocess!ExitObserved \/ Subprocess!ExitErrors
        \/ \E k \in Subprocess!Killers : Subprocess!TerminationStep(k)) =>
         UNCHANGED <<conv, hook, pc, terminal, consumer>>
  BY StepTerminates
  DEF Subprocess!ProcessExits, Subprocess!ExitObserved, Subprocess!ExitErrors, SubprocessInv
<1> QED
  BY <1>1, <1>2, <1>3, <1>4, <1>5, <1>6, <1>7, <1>8, <1>9, <1>10, <1>11, <1>12, <1>13
  DEF Subprocess!Next, Subprocess!Progress, Subprocess!Environment, Looking

-----------------------------------------------------------------------------
(* The Agent Client Protocol: names, and what the client's methods leave.  *)
LEMMA AcpNames ==
    ASSUME NEW c
    PROVE  /\ Acp!Settled(c) = Settled(c) /\ Acp!Aborted(c) = Aborted(c)
           /\ Acp!CancelTakesEffect(c) = CancelTakesEffect(c)
           /\ Acp!RequestCancel(c) = RequestCancel(c)
           /\ Acp!Succeed(c) = Succeed(c) /\ Acp!Fail(c) = Fail(c)
           /\ Acp!CleanupSucceeded(c) = Cleaned(c, "cancellation")
<1>1. Acp!Settled(c) = Settled(c) /\ Acp!Aborted(c) = Aborted(c)
  BY DEF Acp!Settled, Settled, Acp!Aborted, Aborted
<1>2. Acp!CancelTakesEffect(c) = CancelTakesEffect(c) /\ Acp!RequestCancel(c) = RequestCancel(c)
  BY DEF Acp!CancelTakesEffect, CancelTakesEffect, Acp!RequestCancel, RequestCancel,
     Acp!Settled, Settled, Acp!Aborted, Aborted
<1>3. \A k : Acp!Offer(c, k) = Offer(c, k)
  BY DEF Acp!Offer, Offer, Acp!Settle, Settle, Acp!Stronger, Stronger, Acp!Priority, Priority,
     Acp!Publish, Publish, Acp!Complete, Complete, Acp!SettleCancel, SettleCancel,
     Acp!Settled, Settled, Acp!Aborted, Aborted
<1>4. Acp!Succeed(c) = Succeed(c) /\ Acp!Fail(c) = Fail(c)
  BY <1>1, <1>3 DEF Acp!Succeed, Succeed, Acp!Fail, Fail
<1>5. Acp!CleanupSucceeded(c) = Cleaned(c, "cancellation")
  BY <1>3 DEF Acp!CleanupSucceeded, Cleaned
<1> QED BY <1>1, <1>2, <1>4, <1>5

(* No method of the client touches the updates or the read loop, except    *)
(* the end of the loop.                                                    *)
SameUpdates(c, d) ==
    d \in Clients /\ d.queue = c.queue /\ d.received = c.received /\ d.loop = c.loop

LEMMA ClientMethods ==
    ASSUME NEW c \in Clients, NEW signal \in {"SIGTERM", "SIGKILL"}, NEW force \in BOOLEAN
    PROVE  /\ SameUpdates(c, Acp!RejectPending(c))
           /\ SameUpdates(c, Acp!Request(c))
           /\ SameUpdates(c, Acp!Close(c, signal, force))
           /\ SameUpdates(c, [c EXCEPT !.signal = signal])
<1>1. SameUpdates(c, Acp!RejectPending(c))
  BY DEF Clients, SameUpdates, Acp!RejectPending
<1>2. SameUpdates(c, Acp!Request(c))
  BY DEF Clients, SameUpdates, Acp!Request
<1>3. SameUpdates(c, [c EXCEPT !.signal = signal])
  BY DEF Clients, SameUpdates
<1>4. SameUpdates(c, Acp!Close(c, signal, force))
  <2> DEFINE r == Acp!RejectPending(c)
             e == [r EXCEPT !.closed = TRUE, !.signal = signal]
  <2>1. Acp!Close(c, signal, force) =
          IF ~c.closed THEN e ELSE IF force THEN [c EXCEPT !.signal = signal] ELSE c
    BY DEF Acp!Close
  <2>2. SameUpdates(c, r)
    BY <1>1
  <2> HIDE DEF r
  <2>3. SameUpdates(c, e)
    BY <2>2 DEF Clients, SameUpdates
  <2> QED BY <1>3, <2>1, <2>3 DEF SameUpdates
<1> QED BY <1>1, <1>2, <1>3, <1>4

(* Steps that neither take an update nor bring one: the conversation may   *)
(* fail, and succeeds only at the end of a turn whose updates are all used.*)
LEMMA QuietKeeps ==
    ASSUME AcpInv, NEW d \in Clients, client' = d, SameUpdates(client, d), UNCHANGED output,
           conv'.held = conv.held,
           \/ consumer' = consumer
           \/ pc = "spawned" /\ consumer' = "waiting",
           pc' = "turnEnd" => pc = "turnEnd" \/ consumer = "ended",
           pc' \in {"prepare", "spawned"} => pc \in {"prepare", "spawned"} /\ consumer' = consumer,
           conv'.outcome = "success" => conv.outcome = "success" \/ pc = "turnEnd"
    PROVE  AcpInv'
BY SMT DEF AcpInv, SameUpdates

(* The steps of the agent, the read loop and the consumer leave the        *)
(* conversation alone and account for every update.                        *)
AcpTraffic == Acp!Agent \/ Acp!ClientProgress

LEMMA TrafficKeeps ==
    ASSUME AcpInv, ConvOK(conv), AcpTraffic
    PROVE  AcpInv' /\ Calls
<1>0. UNCHANGED <<conv, hook, pc>>
  BY DEF AcpTraffic, Acp!Agent, Acp!ClientProgress, Acp!RouteAnswer, Acp!RouteUpdate,
     Acp!RouteRequest, Acp!RouteGarbage, Acp!StdoutEnds, Acp!AgentExits, Acp!ExitObserved,
     Acp!ExitErrors, Acp!PushUpdate, Acp!Respond, Acp!LoopEnds, Acp!TakeUpdate, Acp!EmitReturns,
     Acp!UpdatesEnd
<1>1. Calls
  BY <1>0 DEF Calls, Follows
<1> SUFFICES AcpInv'
  BY <1>1
<1>a. client \in Clients
  BY DEF AcpInv
<1>b. /\ Acp!Finish(client).queue = client.queue /\ Acp!Finish(client).received = client.received
      /\ Acp!Finish(client).loop = "over" /\ Acp!Finish(client) \in Clients
      /\ Acp!FailClient(client).queue = client.queue
      /\ Acp!FailClient(client).received = client.received
      /\ Acp!FailClient(client).loop = "over" /\ Acp!FailClient(client) \in Clients
  <2> DEFINE r == Acp!RejectPending(client)
  <2>1. SameUpdates(client, r)
    BY <1>a, ClientMethods
  <2>2. /\ Acp!Finish(client) = [r EXCEPT !.closed = TRUE, !.loop = "over", !.done = "resolved"]
        /\ Acp!FailClient(client) = [r EXCEPT !.closed = TRUE, !.loop = "over", !.done = "rejected"]
    BY DEF Acp!Finish, Acp!FailClient
  <2> HIDE DEF r
  <2> QED BY <2>1, <2>2 DEF SameUpdates, Clients
<1>2. CASE UNCHANGED <<client, consumer, output>>
  BY <1>0, <1>2 DEF AcpInv
<1>3. CASE Acp!RouteAnswer
  BY <1>0, <1>3, SMT DEF AcpInv, Acp!RouteAnswer, Clients
<1>4. CASE Acp!RouteUpdate
  <2>1. /\ client' \in Clients /\ client'.queue = client.queue
        /\ client'.received = client.received + 1 /\ client'.loop = "pushing"
        /\ client.loop = "reading" /\ UNCHANGED <<consumer, output>>
    <3> DEFINE n == client.received + 1
    <3>1. n \in Nat /\ client' = [client EXCEPT !.received = n, !.loop = "pushing"]
      BY <1>4, <1>a DEF Acp!RouteUpdate, Clients
    <3> HIDE DEF n
    <3>2. client' \in Clients /\ client'.queue = client.queue
          /\ client'.received = n /\ client'.loop = "pushing"
      BY <1>a, <3>1 DEF Clients
    <3> QED BY <1>4, <3>2 DEF Acp!RouteUpdate, Acp!Reading, n
  <2>2. client.queue \in Nat /\ client.received \in Nat
    BY <1>a DEF Clients
  <2> QED BY <1>0, <2>1, <2>2, SMT DEF AcpInv
<1>5. CASE Acp!RouteRequest \/ Acp!StdoutEnds
  BY <1>0, <1>5, SMT DEF AcpInv, Acp!RouteRequest, Acp!StdoutEnds, Acp!Reading, Clients
<1>6. CASE Acp!RouteGarbage
  BY <1>0, <1>6, <1>b, SMT DEF AcpInv, Acp!RouteGarbage, Acp!Reading
<1>7. CASE Acp!PushUpdate
  <2>1. /\ client' \in Clients /\ client'.queue = client.queue + 1
        /\ client'.received = client.received /\ client'.loop = "reading"
        /\ client.loop = "pushing" /\ UNCHANGED <<consumer, output>>
    <3> DEFINE n == client.queue + 1
    <3>1. n \in Nat /\ client' = [client EXCEPT !.queue = n, !.loop = "reading"]
      BY <1>7, <1>a DEF Acp!PushUpdate, Clients
    <3> HIDE DEF n
    <3>2. client' \in Clients /\ client'.queue = n
          /\ client'.received = client.received /\ client'.loop = "reading"
      BY <1>a, <3>1 DEF Clients
    <3> QED BY <1>7, <3>2 DEF Acp!PushUpdate, n
  <2>2. client.queue \in Nat /\ client.received \in Nat
    BY <1>a DEF Clients
  <2> QED BY <1>0, <2>1, <2>2, SMT DEF AcpInv
<1>8. CASE Acp!Respond
  BY <1>0, <1>8, SMT DEF AcpInv, Acp!Respond, Clients
<1>9. CASE Acp!LoopEnds
  BY <1>0, <1>9, <1>b, SMT DEF AcpInv, Acp!LoopEnds
<1>10. CASE Acp!TakeUpdate
  BY <1>0, <1>10, SMT DEF AcpInv, Acp!TakeUpdate, Clients
<1>11. CASE Acp!EmitReturns \/ Acp!UpdatesEnd
  BY <1>0, <1>11, SMT DEF AcpInv, Acp!EmitReturns, Acp!UpdatesEnd, Clients
<1>12. CASE Acp!AgentExits \/ Acp!ExitObserved \/ Acp!ExitErrors
  BY <1>2, <1>12 DEF Acp!AgentExits, Acp!ExitObserved, Acp!ExitErrors
<1> QED BY <1>3, <1>4, <1>5, <1>6, <1>7, <1>8, <1>9, <1>10, <1>11, <1>12
  DEF AcpTraffic, Acp!Agent, Acp!ClientProgress

(* The run, its timers and the hook's close(): the conversation may fail,  *)
(* and succeed only at the end of a turn.                                  *)
LEMMA AcpRunKeeps ==
    ASSUME AcpInv, ConvOK(conv),
           Acp!RunProgress \/ Acp!RequestTimesOut \/ Acp!HookCloses
    PROVE  AcpInv' /\ Calls
<1> DEFINE Good == /\ SameUpdates(client, client') /\ UNCHANGED output
                   /\ \/ conv' = conv \/ conv' = Fail(conv)
                      \/ conv' = Succeed(conv) /\ pc = "turnEnd"
                   /\ hook' = "idle" <=> hook = "idle"
                   /\ consumer' = consumer \/ (pc = "spawned" /\ consumer' = "waiting")
                   /\ pc' = "turnEnd" => pc = "turnEnd" \/ consumer = "ended"
                   /\ pc' \in {"prepare", "spawned"} =>
                        pc \in {"prepare", "spawned"} /\ consumer' = consumer
<1> SUFFICES Good
  <2>1. /\ Follows(conv, conv') /\ conv'.held = conv.held
        /\ conv'.outcome = "success" => conv.outcome = "success" \/ pc = "turnEnd"
    BY SucceedEffect, FailEffect DEF Follows
  <2>2. client' \in Clients
    BY DEF SameUpdates
  <2>3. AcpInv'
    BY <2>1, <2>2, QuietKeeps
  <2> QED BY <2>1, <2>3 DEF Calls
<1>a. SameUpdates(client, client)
  BY DEF AcpInv, SameUpdates
<1>b. ASSUME NEW c, SameUpdates(client, c),
             NEW signal \in {"SIGTERM", "SIGKILL"}, NEW force \in BOOLEAN
      PROVE  SameUpdates(client, Acp!Close(c, signal, force))
  BY <1>b, ClientMethods DEF SameUpdates
<1>c. ASSUME NEW c, SameUpdates(client, c)
      PROVE  SameUpdates(client, Acp!Request(c)) /\ SameUpdates(client, Acp!RejectPending(c))
  BY <1>c, ClientMethods DEF SameUpdates
<1>d. /\ SameUpdates(client, Acp!Close(client, "SIGTERM", FALSE))
      /\ SameUpdates(client, Acp!Close(client, "SIGKILL", TRUE))
      /\ SameUpdates(client, Acp!Close(Acp!RejectPending(client), "SIGKILL", TRUE))
      /\ SameUpdates(client, Acp!Close(Acp!Close(client, "SIGKILL", TRUE), "SIGTERM", FALSE))
      /\ SameUpdates(client, Acp!Request(client))
      /\ SameUpdates(client, Acp!RejectPending(client))
  BY <1>a, <1>b, <1>c
<1>1. CASE Acp!NeverStarts
  BY <1>1, <1>a DEF Acp!NeverStarts
<1>2. CASE Acp!SpawnAgent
  BY <1>2, <1>a, AcpNames DEF Acp!SpawnAgent
<1>3. CASE Acp!Initialize
  <2>1. SameUpdates(client, [client EXCEPT !.signal = "SIGTERM"])
    BY ClientMethods DEF AcpInv
  <2>2. SameUpdates(client, client')
    BY <1>3, <1>a, <1>c, <2>1 DEF Acp!Initialize
  <2> QED BY <1>3, <2>2 DEF Acp!Initialize
<1>4. CASE Acp!RequestFails
  BY <1>4, <1>d, AcpNames DEF Acp!RequestFails, Acp!Catch, Acp!Ends, Acp!Requests
<1>5. CASE Acp!NextRequest
  BY <1>5, <1>d DEF Acp!NextRequest
<1>6. CASE Acp!PromptAnswered
  BY <1>6, <1>d DEF Acp!PromptAnswered, Acp!Ends
<1>7. CASE Acp!ShutdownCompletes
  BY <1>7, <1>a, <1>d, AcpNames
  DEF Acp!ShutdownCompletes, Acp!AfterShutdown, Acp!Catch, Acp!Ends
<1>8. CASE Acp!ShutdownTimesOut
  BY <1>8, <1>d, AcpNames DEF Acp!ShutdownTimesOut, Acp!Catch, Acp!Ends
<1>9. CASE Acp!TurnEnds
  BY <1>9, <1>d, AcpNames DEF Acp!TurnEnds, Acp!Ends
<1>10. CASE Acp!RequestTimesOut
  BY <1>10, <1>d DEF Acp!RequestTimesOut, Acp!Requests
<1>11. CASE Acp!HookCloses
  BY <1>11, <1>d DEF Acp!HookCloses
<1> QED BY <1>1, <1>2, <1>3, <1>4, <1>5, <1>6, <1>7, <1>8, <1>9, <1>10, <1>11 DEF Acp!RunProgress

(* Every step of the ACP turn keeps the invariant.                         *)
LEMMA AcpStep ==
    ASSUME AcpInv, ConvOK(conv), Aborted(conv) <=> hook # "idle", Acp!Next
    PROVE  AcpInv' /\ (Calls \/ Cancels)
<1>1. CASE AcpTraffic
  BY <1>1, TrafficKeeps
<1>2. CASE Acp!RunProgress \/ Acp!RequestTimesOut \/ Acp!HookCloses
  BY <1>2, AcpRunKeeps
<1>3. CASE Acp!CallCancel
  <2>1. /\ CancelTakesEffect(conv) /\ conv' = RequestCancel(conv) /\ hook' # "idle"
        /\ UNCHANGED <<pc, consumer, client, output>>
    BY <1>3, AcpNames DEF Acp!CallCancel
  <2>2. conv'.held = conv.held /\ conv'.outcome = conv.outcome
    BY <2>1, RequestEffect
  <2> QED BY <2>1, <2>2 DEF AcpInv, Cancels
<1>4. CASE Acp!HookEnds
  <2>1. /\ conv' = Cleaned(conv, "cancellation") /\ Aborted(conv) /\ hook # "idle" /\ hook' # "idle"
        /\ UNCHANGED <<pc, consumer, output>>
        /\ client' \in {client, Acp!Close(client, "SIGKILL", TRUE)}
    BY <1>4, AcpNames DEF Acp!HookEnds
  <2>2. /\ Follows(conv, conv') /\ conv'.held = conv.held
        /\ conv'.outcome \in {conv.outcome, "cancellation"}
    BY <2>1, KindsApart, CleanupEffect
  <2>3. client \in Clients /\ SameUpdates(client, client)
    BY DEF AcpInv, SameUpdates
  <2>4. SameUpdates(client, client')
    BY <2>1, <2>3, ClientMethods
  <2>5. client' \in Clients
    BY <2>4 DEF SameUpdates
  <2>6. AcpInv'
    BY <2>1, <2>2, <2>4, <2>5, QuietKeeps
  <2> QED BY <2>1, <2>2, <2>6 DEF Calls
<1> QED BY <1>1, <1>2, <1>3, <1>4 DEF Acp!Next, AcpTraffic

-----------------------------------------------------------------------------
(* The shared server.                                                      *)
LEMMA OpenCodeNames ==
    ASSUME NEW c
    PROVE  /\ OpenCode!Settled(c) = Settled(c) /\ OpenCode!Aborted(c) = Aborted(c)
           /\ OpenCode!CancelTakesEffect(c) = CancelTakesEffect(c)
           /\ OpenCode!RequestCancel(c) = RequestCancel(c)
           /\ OpenCode!Succeed(c) = Succeed(c) /\ OpenCode!Fail(c) = Fail(c)
           /\ OpenCode!CleanupSucceeded(c) = Cleaned(c, "cancellation")
<1>1. OpenCode!Settled(c) = Settled(c) /\ OpenCode!Aborted(c) = Aborted(c)
  BY DEF OpenCode!Settled, Settled, OpenCode!Aborted, Aborted
<1>2. /\ OpenCode!CancelTakesEffect(c) = CancelTakesEffect(c)
      /\ OpenCode!RequestCancel(c) = RequestCancel(c)
  BY DEF OpenCode!CancelTakesEffect, CancelTakesEffect, OpenCode!RequestCancel, RequestCancel,
     OpenCode!Settled, Settled, OpenCode!Aborted, Aborted
<1>3. \A k : OpenCode!Offer(c, k) = Offer(c, k)
  BY DEF OpenCode!Offer, Offer, OpenCode!Settle, Settle, OpenCode!Stronger, Stronger,
     OpenCode!Priority, Priority, OpenCode!Publish, Publish, OpenCode!Complete, Complete,
     OpenCode!SettleCancel, SettleCancel, OpenCode!Settled, Settled, OpenCode!Aborted, Aborted
<1>4. OpenCode!Succeed(c) = Succeed(c) /\ OpenCode!Fail(c) = Fail(c)
  BY <1>1, <1>3 DEF OpenCode!Succeed, Succeed, OpenCode!Fail, Fail
<1>5. OpenCode!CleanupSucceeded(c) = Cleaned(c, "cancellation")
  BY <1>3 DEF OpenCode!CleanupSucceeded, Cleaned
<1> QED BY <1>1, <1>2, <1>4, <1>5

(* A turn that is over stays as it is; until then nothing has succeeded,   *)
(* and what ends it with a success is the end of its own session.          *)
LEMMA OpenCodeStep ==
    ASSUME OpenCodeInv, ConvOK(conv), Aborted(conv) <=> hook # "idle", OpenCode!Next
    PROVE  OpenCodeInv' /\ (Calls \/ Cancels)
<1>1. CASE OpenCode!CallCancel
  <2>1. /\ CancelTakesEffect(conv) /\ conv' = RequestCancel(conv) /\ hook' # "idle"
        /\ UNCHANGED <<pc, turn, session>>
    BY <1>1, OpenCodeNames DEF OpenCode!CallCancel
  <2> QED BY <2>1, RequestEffect DEF OpenCodeInv, Cancels
<1>2. CASE OpenCode!HookEnds
  <2>1. /\ conv' = Cleaned(conv, "cancellation") /\ Aborted(conv)
        /\ hook # "idle" /\ hook' # "idle" /\ UNCHANGED <<pc, turn, session>>
    BY <1>2, OpenCodeNames DEF OpenCode!HookEnds
  <2>2. /\ Follows(conv, conv') /\ conv'.held = conv.held
        /\ conv'.outcome \in {conv.outcome, "cancellation"}
    BY <2>1, KindsApart, CleanupEffect
  <2> QED BY <2>1, <2>2 DEF OpenCodeInv, Calls
<1>3. ASSUME UNCHANGED hook,
             conv' \in {conv, Fail(conv)} \/ (conv' = Succeed(conv) /\ turn' = "over" /\ session' = "idle"),
             turn = "over" => UNCHANGED <<turn, session>>,
             pc' = "prepare" => pc = "prepare" /\ (turn = "idle" => turn' = "idle")
      PROVE  OpenCodeInv' /\ Calls
  <2>1. /\ Follows(conv, conv') /\ conv'.held = conv.held
        /\ conv'.outcome = "success" =>
             conv.outcome = "success" \/ (turn' = "over" /\ session' = "idle")
    BY <1>3, FailEffect, SucceedEffect DEF Follows
  <2> QED BY <1>3, <2>1 DEF OpenCodeInv, Calls
<1>4. CASE OpenCode!ReadEvent
  <2>1. \/ conv' \in {conv, Fail(conv)}
        \/ conv' = Succeed(conv) /\ turn' = "over" /\ session' = "idle"
    BY <1>4, OpenCodeNames DEF OpenCode!ReadEvent, OpenCode!OwnEvent, OpenCode!ForeignEvent,
       OpenCode!Ignored, OpenCode!Emit, OpenCode!Terminal, OpenCode!Idle
  <2> QED BY <1>3, <1>4, <2>1 DEF OpenCode!ReadEvent
<1>5. CASE OpenCode!TurnWins \/ OpenCode!WallClock \/ OpenCode!StreamEnds \/ OpenCode!Stalls
  BY <1>3, <1>5, OpenCodeNames DEF OpenCode!TurnWins, OpenCode!WallClock, OpenCode!StreamEnds,
     OpenCode!Stalls, OpenCode!Leave
<1>6. CASE \/ OpenCode!Start /\ turn # "over"
           \/ OpenCode!GotServer \/ OpenCode!ServerStarts \/ OpenCode!ServerFails
           \/ OpenCode!RequestThrows \/ OpenCode!EventsOpened \/ OpenCode!SessionKnown
           \/ OpenCode!PromptAccepted \/ OpenCode!Emitted
  BY <1>3, <1>6 DEF OpenCode!Start, OpenCode!GotServer, OpenCode!ServerStarts,
     OpenCode!ServerFails, OpenCode!RequestThrows, OpenCode!Requesting, OpenCode!EventsOpened,
     OpenCode!SessionKnown, OpenCode!PromptAccepted, OpenCode!Emitted
<1>7. OpenCode!Start => turn # "over"
  BY DEF OpenCodeInv, OpenCode!Start
<1> QED BY <1>1, <1>2, <1>4, <1>5, <1>6, <1>7
  DEF OpenCode!Next, OpenCode!RunProgress, OpenCode!Outside

-----------------------------------------------------------------------------
LEMMA TurnInitial == Init => TurnInv
<1> SUFFICES ASSUME Init PROVE TurnInv
  OBVIOUS
<1> USE DEF Init, Subprocess!Init, Acp!Init, OpenCode!Init, Subprocess!New, Acp!New, OpenCode!New
<1>1. /\ conv.outcome = "none" /\ conv.cancel = "none" /\ conv.held = {} /\ conv.pending = "none"
      /\ conv.completion = "pending" /\ conv.offers = {} /\ conv \in Settling!Conversations
  BY DEF Settling!Conversations, Settling!Kinds
<1>2. ConvOK(conv)
  BY <1>1, SMT DEF ConvOK, Settling!ConvInv, Settling!Agreement, Settling!Requested,
     Settling!Deferred, Settling!Strongest, Settling!Settled, Settling!Aborted, Settling!CancelKinds
<1>3. backend = "subprocess" => SubprocessInv
  BY <1>1, SMT DEF SubprocessInv, SubprocessTypes, Terminations, Reservations, Endings, Cancelling,
     Over, Settled, Aborted, Subprocess!Running, Subprocess!Watching, Subprocess!Ending,
     Subprocess!TimeoutStarted, Subprocess!TimeoutOver, Subprocess!Killers
<1>4. AcpInv
  BY <1>1, SMT DEF AcpInv, Clients, Acp!NewClient
<1>5. OpenCodeInv
  BY <1>1 DEF OpenCodeInv
<1> QED BY <1>1, <1>2, <1>3, <1>4, <1>5 DEF TurnInv, Aborted

(* Every step of a turn keeps the invariant, and asks nothing of the       *)
(* conversation but its own calls and cancels.                             *)
LEMMA TurnStep ==
    TurnInv /\ [Next]_vars => TurnInv' /\ (Calls \/ Cancels)
<1> SUFFICES ASSUME TurnInv, [Next]_vars PROVE TurnInv' /\ (Calls \/ Cancels)
  OBVIOUS
<1>0. ConvOK(conv) /\ (Aborted(conv) <=> hook # "idle")
  BY DEF TurnInv
<1>a. Calls \/ Cancels => ConvOK(conv') /\ (Aborted(conv') <=> hook' # "idle")
  BY <1>0, RequestEffect DEF Calls, Cancels, Follows
<1>1. CASE BySubprocess(Subprocess!Next)
  BY <1>0, <1>1, <1>a, SubprocessStep DEF TurnInv, BySubprocess
<1>2. CASE ByAcp(Acp!Next)
  BY <1>0, <1>2, <1>a, AcpStep DEF TurnInv, ByAcp, subprocessVars
<1>3. CASE ByOpenCode(OpenCode!Next)
  BY <1>0, <1>3, <1>a, OpenCodeStep DEF TurnInv, ByOpenCode, subprocessVars
<1>4. CASE UNCHANGED vars
  <2>1. Calls
    BY <1>0, <1>4 DEF Calls, Follows, vars
  <2>2. SubprocessInv => SubprocessInv'
    BY <1>4, SMT DEF vars, processVars, subprocessVars, SubprocessInv, SubprocessTypes, Terminations,
       Reservations, Endings, Cancelling, Over, Settled, Aborted, Subprocess!TimeoutStarted,
       Subprocess!TimeoutOver
  <2>3. (AcpInv => AcpInv') /\ (OpenCodeInv => OpenCodeInv')
    BY <1>4 DEF vars, processVars, acpVars, openCodeVars, AcpInv, OpenCodeInv
  <2> QED BY <1>4, <1>a, <2>1, <2>2, <2>3 DEF TurnInv, vars, subprocessVars
<1> QED BY <1>1, <1>2, <1>3, <1>4 DEF Next

(* TurnInv holds in every state of every turn.                             *)
LEMMA TurnInvariant == Spec => []TurnInv
BY TurnInitial, TurnStep, PTL DEF Spec

(* The terminations of one child agree, whoever asks for them and whenever:*)
(* a timeout, the caller, the run itself at its end.                       *)
THEOREM TurnTerminationsAgree == Spec => []TerminationsAgree
<1>1. TurnInv => TerminationsAgree
  BY SMT DEF TurnInv, SubprocessInv, Terminations, TerminationsAgree, Subprocess!TerminationsAgree
<1> QED BY <1>1, TurnInvariant, PTL

(* Nobody is told how the turn of a child process ended while its child    *)
(* may be at work, unless the wait for its exit was given up; then it is   *)
(* told a failure.                                                         *)
THEOREM TurnOutcomeAfterExit == Spec => []OutcomeAfterExit
<1>1. TurnInv => OutcomeAfterExit
  <2> SUFFICES ASSUME TurnInv, backend = "subprocess", Settled(conv), child = "running"
               PROVE  exit = "rejected" /\ conv.outcome \in {"failure", "cancellation_failure"}
    BY DEF OutcomeAfterExit, Subprocess!OutcomeAfterExit, Subprocess!Settled, Settled
  <2>1. /\ SubprocessInv /\ ConvOK(conv)
    BY DEF TurnInv
  <2>2. pc \in {"throwing", "done"}
    BY <2>1, SMT DEF SubprocessInv, SubprocessTypes, Reservations
  <2>3. exit = "rejected"
    BY <2>1, <2>2 DEF SubprocessInv, Endings, Over
  <2>4. conv.outcome \in Kinds
    BY <2>1, WellFormed DEF Conversations, Settled
  <2>5. conv.outcome # "cancellation"
    BY <2>1, WellFormed DEF SubprocessInv, Cancelling
  <2>6. conv.outcome # "success"
    <3>1. SUFFICES ASSUME conv.outcome = "success" PROVE FALSE
      OBVIOUS
    <3>2. "success" \in conv.offers /\ "failure" \notin conv.offers /\ ~Aborted(conv)
      BY <2>1, <3>1, WellFormed
    <3> QED BY <2>1, <2>2, <3>2 DEF SubprocessInv, Endings
  <2> QED BY <2>3, <2>4, <2>5, <2>6 DEF Kinds
<1> QED BY <1>1, TurnInvariant, PTL

(* A turn whose timer has fired is never a success, although its consumer  *)
(* may go on and read the result afterwards.                               *)
THEOREM TurnTimedOutNeverSucceeds == Spec => []TimedOutNeverSucceeds
<1>1. TurnInv => TimedOutNeverSucceeds
  <2> SUFFICES ASSUME TurnInv, backend = "subprocess", Subprocess!TimeoutStarted
               PROVE  conv.outcome # "success"
    BY DEF TimedOutNeverSucceeds, Subprocess!TimedOutNeverSucceeds
  <2>1. /\ SubprocessInv /\ ConvOK(conv)
    BY DEF TurnInv
  <2>2. conv.outcome = "success" => conv.held = {}
    BY <2>1 DEF SubprocessInv, Reservations, Settled
  <2> QED BY <2>1, <2>2, WellFormed DEF SubprocessInv, Reservations
<1> QED BY <1>1, TurnInvariant, PTL

(* A success is the agent's own: no update of an ACP agent is missing from *)
(* the output, for a queue of any capacity, and an OpenCode turn was ended *)
(* by its own session.                                                     *)
THEOREM TurnSuccessIsReal == Spec => []SuccessIsReal
<1>1. TurnInv => SuccessIsReal
  <2>1. AcpInv => Acp!OutputIsWhole
    BY SMT DEF AcpInv, Clients, Acp!OutputIsWhole
  <2>2. OpenCodeInv => OpenCode!OwnSessionIdle
    BY DEF OpenCodeInv, OpenCode!OwnSessionIdle
  <2> QED BY <2>1, <2>2 DEF TurnInv, SuccessIsReal
<1> QED BY <1>1, TurnInvariant, PTL

(* Every driver implements the contract of a conversation, though it makes *)
(* several calls in one step.                                              *)
THEOREM TurnRefinement == Spec => KeepsContract
<1>1. Init => Contract!Init
  BY DEF Init, Subprocess!Init, Subprocess!New, Contract!Init
<1>2. TurnInv /\ TurnInv' /\ [Next]_vars => [Contract!Next]_<<conv.outcome, conv.cancel>>
  <2> SUFFICES ASSUME TurnInv, TurnInv', Calls \/ Cancels
               PROVE  [Contract!Next]_<<conv.outcome, conv.cancel>>
    BY TurnStep
  <2>1. ConvOK(conv) /\ ConvOK(conv')
    BY DEF TurnInv
  <2>2. /\ conv.outcome \in Kinds \cup {"none"} /\ conv'.outcome \in Kinds \cup {"none"}
        /\ conv.cancel \in {"none", "pending", "resolved", "rejected"}
        /\ conv'.cancel \in {"none", "pending", "resolved", "rejected"}
        /\ conv.cancel = "resolved" <=> conv.outcome = "cancellation"
        /\ conv.cancel = "rejected" <=> conv.outcome = "cancellation_failure"
        /\ conv'.cancel = "resolved" <=> conv'.outcome = "cancellation"
        /\ conv'.cancel = "rejected" <=> conv'.outcome = "cancellation_failure"
        /\ conv'.outcome \in {"success", "failure"} => ~Aborted(conv')
    BY <2>1, WellFormed DEF Conversations
  <2>3. CASE Cancels
    BY <2>1, <2>3, RequestEffect DEF Cancels, Contract!Next, Contract!RequestCancel
  <2>4. CASE Calls
    <3>1. /\ Aborted(conv') <=> Aborted(conv)
          /\ Settled(conv) => conv'.outcome = conv.outcome /\ conv'.cancel = conv.cancel
      BY <2>4 DEF Calls, Follows
    <3>2. CASE Settled(conv)
      BY <3>1, <3>2
    <3>3. CASE ~Settled(conv) /\ conv'.outcome = "none"
      BY <2>2, <3>1, <3>3 DEF Settled, Aborted
    <3>4. CASE ~Settled(conv) /\ conv'.outcome \in {"success", "failure"}
      BY <2>2, <3>1, <3>4 DEF Settled, Aborted, Contract!Next, Contract!Finish
    <3>5. CASE ~Settled(conv) /\ conv'.outcome = "cancellation"
      BY <2>2, <3>1, <3>5 DEF Settled, Aborted, Contract!Next, Contract!Stop
    <3>6. CASE ~Settled(conv) /\ conv'.outcome = "cancellation_failure"
      BY <2>2, <3>1, <3>6 DEF Settled, Aborted, Contract!Next, Contract!FailToStop
    <3> QED BY <2>2, <3>2, <3>3, <3>4, <3>5, <3>6 DEF Kinds
  <2> QED BY <2>3, <2>4
<1> QED BY <1>1, <1>2, TurnInvariant, PTL DEF Spec, KeepsContract, Contract!Spec

(* The cancel hook of a child process's turn is called and ends.           *)
HookTyped == backend = "subprocess" => hook \in {"idle", "running", "finished"}

(* Only a call of cancel() and the end of the hook change where it is.     *)
LEMMA HookMoves ==
    ASSUME Subprocess!Next
    PROVE  hook' \in {hook, "running", "finished"}
<1>1. CASE Subprocess!Progress
  BY <1>1 DEF Subprocess!Progress, Subprocess!NeverStarts, Subprocess!Spawn, Subprocess!Started,
     Subprocess!Consumed, Subprocess!Abandon, Subprocess!ExitWon, Subprocess!OtherWon,
     Subprocess!TimeoutAwaited, Subprocess!Finalize, Subprocess!Terminated,
     Subprocess!StopAwaited, Subprocess!StreamsCleaned, Subprocess!LateTimeout,
     Subprocess!ReleaseRun, Subprocess!DriverCatches
<1>2. CASE Subprocess!Environment
  BY <1>2 DEF Subprocess!Environment, Subprocess!StartFails, Subprocess!StartThrows,
     Subprocess!ReadLine, Subprocess!ReadEnd, Subprocess!ReadThrows, Subprocess!StderrEnds,
     Subprocess!StderrThrows, Subprocess!ProcessExits, Subprocess!ExitObserved,
     Subprocess!ExitErrors, Subprocess!CallCancel, Subprocess!ConsumerStep
<1>3. CASE Subprocess!HookEnds \/ Subprocess!TimerFires
  BY <1>3 DEF Subprocess!HookEnds, Subprocess!TimerFires
<1>4. CASE \E k \in Subprocess!Killers : Subprocess!TerminationStep(k)
  BY <1>4 DEF Subprocess!TerminationStep, Subprocess!ExitSeen, Subprocess!GraceOver,
     Subprocess!ForceOver
<1> QED BY <1>1, <1>2, <1>3, <1>4 DEF Subprocess!Next

(* The variables of a child process's turn keep their types, and its run   *)
(* holds a reservation from the spawn to its finally block, on every path. *)
THEOREM TurnTypeCorrect == Spec => [](backend = "subprocess" => Subprocess!TypeOK)
<1>1. Init => HookTyped
  BY DEF Init, Subprocess!Init, HookTyped
<1>2. HookTyped /\ [Next]_vars => HookTyped'
  <2> SUFFICES ASSUME HookTyped, [Next]_vars PROVE HookTyped'
    OBVIOUS
  <2>1. CASE BySubprocess(Subprocess!Next)
    BY <2>1, HookMoves DEF BySubprocess, HookTyped
  <2>2. CASE ByAcp(Acp!Next) \/ ByOpenCode(OpenCode!Next)
    BY <2>2 DEF ByAcp, ByOpenCode, HookTyped
  <2>3. CASE UNCHANGED vars
    BY <2>3 DEF vars, HookTyped
  <2> QED BY <2>1, <2>2, <2>3 DEF Next
<1>3. TurnInv /\ HookTyped => (backend = "subprocess" => Subprocess!TypeOK)
  <2> SUFFICES ASSUME TurnInv, HookTyped, backend = "subprocess" PROVE Subprocess!TypeOK
    OBVIOUS
  <2>1. SubprocessTypes /\ ("run" \in conv.held <=> pc \in Subprocess!Running)
    BY DEF TurnInv, SubprocessInv, Reservations
  <2>2. conv \in Conversations
    BY WellFormed DEF TurnInv
  <2>3. hook \in {"idle", "running", "finished"}
    BY DEF HookTyped
  <2>4. Kinds = Subprocess!Kinds
    BY DEF Kinds, Subprocess!Kinds
  <2> QED BY <2>1, <2>2, <2>3, <2>4 DEF Subprocess!TypeOK, SubprocessTypes, Conversations
<1> QED BY <1>1, <1>2, <1>3, TurnInvariant, PTL DEF Spec
=============================================================================
