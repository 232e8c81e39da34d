--------------------------- MODULE MCBoundedQueue ---------------------------
(***************************************************************************)
(* BoundedQueue on three producers of two events each and a capacity of    *)
(* two: two pushes can be parked while a third takes the room one of them  *)
(* was woken for.                                                          *)
(***************************************************************************)
EXTENDS BoundedQueue
=============================================================================
