------------------------------- MODULE Passes -------------------------------
(***************************************************************************)
(* What the passes over an op array promise (scan_control_list and the     *)
(* walk of dump_op_array_ex in src/include/zend_dump.c), without the lists *)
(* they use: each pass handles its candidates in ascending order, except   *)
(* those that an earlier handler, of this pass or of an earlier one,       *)
(* marked to be skipped.  The first pass and the dump have all opcodes as  *)
(* candidates, the others those that the first has listed and that no pass *)
(* before has dropped.                                                     *)
(***************************************************************************)
EXTENDS Integers

CONSTANT LastOffset  (* number of opcodes of the op array                  *)

Offsets == 0 .. LastOffset - 1

Dump == 5            (* passes 1 to 4 recognise statements                 *)
Done == 6

VARIABLES
  pass,
  handled,           (* offsets handled in this pass                       *)
  listed, dropped,   (* candidates of the passes after the first           *)
  skip,              (* offsets no pass handles                            *)
  once,              (* offsets that are left to the dump                  *)
  next               (* the dump goes on from here                         *)

vars == <<pass, handled, listed, dropped, skip, once, next>>

Candidates ==
  CASE pass = 1        -> Offsets
    [] pass \in 2 .. 4 -> listed
    [] pass = Dump     -> Offsets \ (0 .. next - 1)
    [] OTHER           -> {}

Skipped == IF pass = Dump THEN skip ELSE skip \cup once

Pending ==
  {o \in Candidates \ Skipped : \A h \in handled : h < o}

Init ==
  /\ pass = 1 /\ handled = {} /\ listed = {} /\ dropped = {} /\ once = {}
  /\ skip \in SUBSET Offsets /\ next = 0

-----------------------------------------------------------------------------
(* A handler marks offsets.  Only the first pass lists what it handles, the *)
(* dump may also jump ahead.                                                *)
Handle(o) ==
  /\ o \in Pending /\ \A p \in Pending : o <= p
  /\ handled' = handled \cup {o}
  /\ listed' \in {listed, IF pass = 1 THEN listed \cup {o} ELSE listed}
  /\ dropped \subseteq dropped' /\ dropped' \subseteq listed
  /\ skip \subseteq skip' /\ once \subseteq once'
  /\ \/ next' = next
     \/ pass = Dump /\ next' \in o + 1 .. LastOffset
  /\ pass' = pass

(* The dump marks the offset it has come to before it looks at the marks. *)
Mark(o) ==
  /\ pass = Dump
  /\ \A h \in handled : h < o
  /\ \A p \in Pending : o <= p
  /\ skip' = skip \cup {o}
  /\ UNCHANGED <<pass, handled, listed, dropped, once, next>>

NextPass ==
  /\ pass < Done /\ Pending = {}
  /\ pass' = pass + 1
  /\ handled' = {}
  /\ listed' = listed \ dropped /\ dropped' = {}
  /\ UNCHANGED <<skip, once, next>>

Next == NextPass \/ \E o \in Offsets : Handle(o) \/ Mark(o)

Spec == Init /\ [][Next]_vars
=============================================================================
