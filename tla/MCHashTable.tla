---------------------------- MODULE MCHashTable ----------------------------
(* HashTable with a string whose hash value is the index of a number, so    *)
(* that the two share a slot whatever the mask is.  While an apply runs or   *)
(* a pointer is saved only a few keys and one value are in the table; one    *)
(* element at most has the second value.                                    *)
EXTENDS HashTable, TLC

CONSTANT FewHashes

MCHashOf == [s \in Strings |-> 1]
Symmetry == Permutations(Addresses)

MCFocus ==
  /\ Cardinality({b \in Live(table) : table.bucket[b].data # 1}) <= 1
  /\ applies = << >> \/ saved.pos = NULL
  /\ applies # << >> \/ saved.pos # NULL =>
       \A b \in Live(table) : /\ KeyAt(table, b).h \in FewHashes
                              /\ table.bucket[b].data = 1

=============================================================================
