----------------------------- MODULE OrderedMap -----------------------------
(***************************************************************************)
(* What the hash table of src/common/Hash.c promises its clients: a map    *)
(* that remembers the order in which keys came, with one cursor and a next *)
(* free index.  A key is a string with its hash or, with str = NULL, an    *)
(* index.  Indexes are of a machine word: Next says which one is next.     *)
(***************************************************************************)
EXTENDS Integers, Sequences, SequencesExt

CONSTANTS Keys, Values, NULL, After(_, _)

VARIABLES
  entries,  (* [key, data] in the order of insertion                       *)
  cursor,   (* position of the internal pointer, 0 for none                *)
  next      (* the index HashNextIndexInsert will use                      *)

vars == <<entries, cursor, next>>

Init == entries = << >> /\ cursor = 0 /\ next = 0

Has(key, map) == \E i \in DOMAIN map : map[i].key = key

(* The steps, between the entries e and f.                                  *)

(* A new key goes to the end, where a cursor that has run out finds it. *)
Add(e, f) ==
  /\ Len(f) = Len(e) + 1 /\ Front(f) = e
  /\ LET new == Last(f)
     IN /\ ~Has(new.key, e) /\ new.key \in Keys /\ new.data \in Values
        /\ next' = After(new.key, next)
  /\ cursor' = IF cursor = 0 THEN Len(e) + 1 ELSE cursor

(* A known key keeps its place. *)
Update(e, f) ==
  /\ Len(f) = Len(e) /\ cursor' = cursor
  /\ \E i \in DOMAIN e, v \in Values :
       /\ f = [e EXCEPT ![i].data = v]
       /\ next' = After(e[i].key, next)

(* The place of the cursor when entry i of e goes: on the one behind it. *)
CursorWithout(e, i) ==
  IF cursor > i THEN cursor - 1
  ELSE IF cursor = i /\ i = Len(e) THEN 0
  ELSE cursor

Delete(e, f) ==
  /\ Len(f) = Len(e) - 1 /\ UNCHANGED next
  /\ \E i \in DOMAIN e : f = RemoveAt(e, i) /\ cursor' = CursorWithout(e, i)

Clear(f) == f = << >> /\ cursor' = 0 /\ next' = 0

Move(e, f) == f = e /\ UNCHANGED next /\ cursor' \in {0} \cup DOMAIN e

(* The entry at the cursor gets another key; who had that key is gone. *)
Rename(e, f) ==
  /\ cursor # 0 /\ cursor' # 0 /\ UNCHANGED next
  /\ LET key == f[cursor'].key
         renamed == [e EXCEPT ![cursor].key = key]
         others == {i \in DOMAIN e \ {cursor} : e[i].key = key}
     IN /\ key \in Keys
        /\ IF others = {}
             THEN f = renamed /\ UNCHANGED cursor
             ELSE \E i \in others : f = RemoveAt(renamed, i)
                                   /\ cursor' = CursorWithout(e, i)

(* The same entries in any order *)
Sort(e, f) ==
  cursor' = 1 /\ UNCHANGED next /\ Len(f) = Len(e) /\ Range(f) = Range(e)

(* Sorted and numbered from 0 *)
Renumber(e, f) ==
  /\ cursor' = 1 /\ next' = Len(e) /\ Len(f) = Len(e)
  /\ \A i \in DOMAIN f : f[i].key = [str |-> NULL, h |-> i - 1]
  /\ \E order \in SetToSeqs(DOMAIN e) :
       \A i \in DOMAIN order : f[i].data = e[order[i]].data

Next ==
  \E e \in {entries}, f \in {entries'} :
    \/ Move(e, f) \/ Clear(f) \/ Add(e, f) \/ Delete(e, f)
    \/ Sort(e, f) \/ Renumber(e, f) \/ Rename(e, f) \/ Update(e, f)

Spec == Init /\ [][Next]_vars
=============================================================================
