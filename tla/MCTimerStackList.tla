-------------------------- MODULE MCTimerStackList --------------------------
(* TimerStackList for three threads with an item each: the first, the middle *)
(* and the last of the list. *)
EXTENDS TimerStackList

CONSTANTS a, b, c

MCItems == {a, b, c}
MCThreadId == [i \in MCItems |-> CASE i = a -> 1 [] i = b -> 2 [] i = c -> 4]
MCRouted == {a, b}

=============================================================================
