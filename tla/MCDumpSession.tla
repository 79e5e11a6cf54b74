--------------------------- MODULE MCDumpSession ---------------------------
(* DumpSession on a process that dumps a few scripts. *)
EXTENDS DumpSession, TLC

Symmetry == Permutations(Stacks)

=============================================================================
