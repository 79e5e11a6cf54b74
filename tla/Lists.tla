------------------------------- MODULE Lists -------------------------------
(***************************************************************************)
(* The intrusive lists of src/include/ListEntry.h as sequences: the        *)
(* entries from the one after the list head to the one before it.          *)
(***************************************************************************)
EXTENDS Naturals, Sequences

Elems(list) == {list[i] : i \in DOMAIN list}

(* A list links an entry once. *)
NoDuplicates(list) == \A i, j \in DOMAIN list : list[i] = list[j] => i = j

(* The list without its k-th entry. *)
Unlinked(list, k) ==
  [i \in 1 .. Len(list) - 1 |-> IF i < k THEN list[i] ELSE list[i + 1]]

(* The COMMON_STACK types of src/include/Stack.c, bottom first. *)
Top(stack) == stack[Len(stack)]
Popped(stack) == SubSeq(stack, 1, Len(stack) - 1)

=============================================================================
