----------------------------- MODULE OwnedPool -----------------------------
(***************************************************************************)
(* What the dump-stack pool of zend_dump.c promises its callers, without   *)
(* saying how: a dump stack belongs to nobody or to one thread, a thread   *)
(* receives only stacks that nobody owns, and gives back only its own.     *)
(***************************************************************************)

CONSTANTS
  Threads,  (* the threads that dump op arrays   *)
  Stacks,   (* the identities of DUMP_STACK      *)
  Nobody    (* the owner of a stack not in use   *)

VARIABLE owner  (* owner[s]: the thread that may use stack s *)

Init == owner = [s \in Stacks |-> Nobody]

Acquire(t, s) ==
  /\ owner[s] = Nobody
  /\ owner' = [owner EXCEPT ![s] = t]

Release(t, s) ==
  /\ owner[s] = t
  /\ owner' = [owner EXCEPT ![s] = Nobody]

Next == \E t \in Threads, s \in Stacks : Acquire(t, s) \/ Release(t, s)

Spec == Init /\ [][Next]_owner
=============================================================================
