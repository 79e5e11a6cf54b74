---------------------------- MODULE MCSlotStack ----------------------------
(* SlotStack with an array that grows once: more slots than it can have, so  *)
(* that one could be lost. *)
EXTENDS SlotStack, TLC

Symmetry == Permutations(Slots)

=============================================================================
