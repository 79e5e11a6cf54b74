----------------------------- MODULE ValueStack -----------------------------
(***************************************************************************)
(* What a COMMON_STACK_T of src/include/Stack.c promises: a sequence of    *)
(* values that grows at its top or in the place a value has by its size,   *)
(* shrinks at its top, is read from its bottom, and loses a value from the *)
(* middle.  No operation changes a value another one put there.            *)
(***************************************************************************)
EXTENDS Integers, Sequences, SequencesExt

CONSTANT Values

VARIABLES
  contents,  (* the values, the one pushed first in front                  *)
  bottom     (* how many of them have been read from the bottom            *)

vars == <<contents, bottom>>

Init == contents = << >> /\ bottom = 0

Push(v) == contents' = Append(contents, v) /\ UNCHANGED bottom

(* Behind everything that is not larger. *)
PushAsc(v) ==
  \E k \in 0 .. Len(contents) :
    /\ k > 0 => contents[k] <= v
    /\ \A j \in k + 1 .. Len(contents) : contents[j] > v
    /\ contents' = InsertAt(contents, k + 1, v)
    /\ UNCHANGED bottom

Pop ==
  /\ contents # << >>
  /\ contents' = Front(contents)
  /\ UNCHANGED bottom

PopBottom == bottom < Len(contents) /\ bottom' = bottom + 1 /\ UNCHANGED contents

RemoveIndex(k) == contents' = RemoveAt(contents, k) /\ UNCHANGED bottom

(* The first n values stay. *)
Cut(n) == contents' = SubSeq(contents, 1, n) /\ UNCHANGED bottom

Rewind(b) == b <= Len(contents) /\ bottom' = b /\ UNCHANGED contents

Clear == contents' = << >> /\ bottom' = 0

Next ==
  \/ \E v \in Values : Push(v) \/ PushAsc(v)
  \/ Pop \/ PopBottom \/ Clear
  \/ \E k \in DOMAIN contents : RemoveIndex(k) \/ Cut(k - 1)
  \/ \E b \in 0 .. Len(contents) : Rewind(b)

Spec == Init /\ [][Next]_vars
=============================================================================
