--------------------------- MODULE MCControlList ---------------------------
(* ControlList with the kinds of statement of a run named in its cfg: every *)
(* kind and no ties, or an else and a loop that tie.                        *)
EXTENDS ControlList

=============================================================================
