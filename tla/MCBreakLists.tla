---------------------------- MODULE MCBreakLists ----------------------------
(* BreakLists for scripts of two nested or consecutive loops of each kind. *)
EXTENDS BreakLists

=============================================================================
