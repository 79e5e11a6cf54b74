---------------------------- MODULE MCExpressions ----------------------------
(* Expressions on all operators, and on longer ones of the connectives, ?:, !  *)
(* and one comparison.  An expression goes on only while the opcodes that are  *)
(* left can finish it.                                                         *)
EXTENDS Expressions

MCFinishable ==
  Len(work) + Len(SelectSeq(work, LAMBDA w : w.kind = "condition")) - 1
    <= Bound - opcodes
==============================================================================
