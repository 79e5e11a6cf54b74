---------------------------- MODULE MCStackPool ----------------------------
(* StackPool on two threads that nest two op arrays each; the heap has one   *)
(* stack more than they can use, so that a pool that grows without need      *)
(* would show.                                                               *)
EXTENDS StackPool

=============================================================================
