--------------------------- MODULE MCSortedSearch ---------------------------
(* SortedSearch for all stacks of up to MaxTop small numbers. *)
EXTENDS SortedSearch

MCNumbers == -1 .. 6
=============================================================================
