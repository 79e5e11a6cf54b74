------------------------------ MODULE OpArray ------------------------------
(* What the scans of one op array share: the number of its opcodes.        *)
EXTENDS Integers

CONSTANT LastOffset  (* Stack->LastOffset *)

ASSUME OpArrayAssumption == LastOffset \in Nat \ {0}

=============================================================================
