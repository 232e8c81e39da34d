----------------------------- MODULE OneOutcome -----------------------------
(***************************************************************************)
(* What a conversation promises its caller (the Conversation interface of  *)
(* src/conversation/conversation.ts): at most one outcome, ever; after     *)
(* cancel() on an open conversation only a cancellation or its failure;    *)
(* and the promise of cancel() settles together with the outcome and says  *)
(* the same.                                                               *)
(***************************************************************************)
VARIABLES outcome,   \* none, success, failure, cancellation, cancellation_failure
          cancel     \* none, pending, resolved, rejected

Init == outcome = "none" /\ cancel = "none"

Finish == /\ outcome = "none" /\ cancel = "none"
          /\ outcome' \in {"success", "failure"}
          /\ UNCHANGED cancel

RequestCancel == /\ outcome = "none" /\ cancel = "none"
                 /\ cancel' = "pending"
                 /\ UNCHANGED outcome

Stop == /\ outcome = "none" /\ cancel = "pending"
        /\ outcome' = "cancellation" /\ cancel' = "resolved"

FailToStop == /\ outcome = "none" /\ cancel \in {"none", "pending"}
              /\ outcome' = "cancellation_failure" /\ cancel' = "rejected"

Next == Finish \/ RequestCancel \/ Stop \/ FailToStop

Spec == Init /\ [][Next]_<<outcome, cancel>>
=============================================================================
