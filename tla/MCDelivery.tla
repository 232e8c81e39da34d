----------------------------- MODULE MCDelivery -----------------------------
(* Three continuations of one finished run: one may crash with the lock    *)
(* while the two others contend for it.                                    *)
EXTENDS DeliveryContinuation, TLC

Symmetry == Permutations(Runners)
=============================================================================
