----------------------------- MODULE HashTable -----------------------------
(***************************************************************************)
(* The hash table of src/common/Hash.c: buckets that are in two doubly     *)
(* linked lists at once, the chain of their slot and the list of all in    *)
(* the order of insertion, an internal pointer, the next free index, and   *)
(* the functions that apply a call-back to every element.                  *)
(*                                                                         *)
(* A table has no lock: an operation is one step, and between two steps of *)
(* an apply its call-back is running, which may use the table as well.     *)
(* An insertion for which there is no memory changes nothing.              *)
(***************************************************************************)
EXTENDS Integers, Sequences, FiniteSets, SequencesExt

CONSTANTS
  Addresses,    (* where HEAP_ALLOC can put a bucket                       *)
  Strings,      (* string keys, all of one length                          *)
  HashOf,       (* their hash values: [Strings -> 0 .. Word - 1]           *)
  Word,         (* number of values of a ULONG                             *)
  Values,       (* what is stored                                          *)
  InitialSize,  (* slots after HashInitEx, a power of 2                    *)
  MaxSize,      (* bound: the largest table HashDoResize makes             *)
  Applies,      (* kinds of apply the clients use                          *)
  MaxDepth,     (* bound: applies inside each other                        *)
  Saves,        (* do the clients save the internal pointer?               *)
  RenameFails,  (* may HashUpdateCurrentKeyEx get no memory?               *)
  NULL

(* Keys: KeyLength is 0, here str = NULL, for an index. *)
Indexes == {[str |-> NULL, h |-> i] : i \in 0 .. Word - 1}
Keys == Indexes \cup {[str |-> s, h |-> HashOf[s]] : s \in Strings}

Pointers == Addresses \cup {NULL}

Buckets == [key : Keys, data : Values,
            next : Pointers, last : Pointers, listNext : Pointers, listLast : Pointers]

(* There are fewer buckets than indexes: each takes up memory. *)
ASSUME HashAssumption ==
  /\ Word \in Nat \ {0}
  /\ IsFiniteSet(Addresses) /\ Cardinality(Addresses) < Word
  /\ HashOf \in [Strings -> 0 .. Word - 1]
  /\ InitialSize \in Nat \ {0} /\ MaxSize >= InitialSize /\ MaxDepth \in Nat
  /\ Applies \subseteq {"forward", "reverse"}
  /\ {Saves, RenameFails} \subseteq BOOLEAN
  /\ NULL \notin Addresses \cup Strings \cup Buckets

VARIABLES
  table,       (* HASH_TABLE and the buckets, see TypeOK                   *)
  saved,       (* a HASH_POINTER that HashGetPointer filled in             *)
  applies      (* the applies that are running, the innermost last         *)

vars == <<table, saved, applies>>

Live(t) == {b \in Addresses : t.bucket[b] # NULL}
KeyAt(t, b) == t.bucket[b].key
Slot(t, h) == h % t.size

(* The buckets from p on along a field of theirs; it ends in any case. *)
Along(t, p, field) ==
  LET from[n \in 0 .. Cardinality(Addresses)] ==
        [q \in Pointers |->
           IF q = NULL \/ n = 0 \/ t.bucket[q] = NULL THEN << >>
           ELSE <<q>> \o from[n - 1][t.bucket[q][field]]]
  IN from[Cardinality(Addresses)][p]

Chain(t, i) == Along(t, t.buckets[i], "next")
ListOf(t)   == Along(t, t.head, "listNext")

(* The loop of every search: the first bucket of the chain with the key. *)
Find(t, key) ==
  LET chain == Chain(t, Slot(t, key.h))
      hits == {i \in DOMAIN chain : KeyAt(t, chain[i]) = key}
  IN IF hits = {} THEN NULL
     ELSE chain[CHOOSE i \in hits : \A j \in hits : i <= j]

(* Writes through a pointer that may be NULL. *)
Put(heap, p, field, x) ==
  IF p = NULL THEN heap ELSE [heap EXCEPT ![p][field] = x]

EmptyBuckets(size) == [i \in 0 .. size - 1 |-> NULL]

(* HashInitEx *)
Init ==
  /\ table = [bucket |-> [b \in Addresses |-> NULL],
              buckets |-> EmptyBuckets(InitialSize), size |-> InitialSize,
              head |-> NULL, tail |-> NULL, count |-> 0, next |-> 0,
              cursor |-> NULL]
  /\ saved = [pos |-> NULL, h |-> 0]
  /\ applies = << >>

-----------------------------------------------------------------------------
(* The two lists *)

(* CONNECT_TO_BUCKET_LIST and the store into Buckets that follows it *)
ConnectToBucketList(t, b) ==
  LET i == Slot(t, KeyAt(t, b).h)
      first == t.buckets[i]
  IN [t EXCEPT !.bucket =
                 Put(Put(Put(@, first, "last", b), b, "next", first), b, "last", NULL),
               !.buckets[i] = b]

(* CONNECT_TO_GLOBAL_LIST *)
ConnectToGlobalList(t, b) ==
  [t EXCEPT !.bucket =
        Put(Put(Put(@, t.tail, "listNext", b), b, "listLast", t.tail), b, "listNext", NULL),
      !.tail = b,
      !.head = IF @ = NULL THEN b ELSE @,
      !.cursor = IF @ = NULL THEN b ELSE @]

(* HashRefresh: the chains are made again, in the order of the list. *)
HashRefresh(t) ==
  LET list == ListOf(t)
      after[n \in 0 .. Len(list)] ==
        IF n = 0 THEN [t EXCEPT !.buckets = EmptyBuckets(t.size)]
                 ELSE ConnectToBucketList(after[n - 1], list[n])
  IN after[Len(list)]

(* A plausible slip: the chains stay as the old mask made them. *)
ResizeOnly(t) ==
  IF t.count > t.size /\ t.size * 2 <= MaxSize
    THEN {t, [t EXCEPT !.size = @ * 2,
                       !.buckets = EmptyBuckets(t.size * 2) @@ t.buckets]}
    ELSE {t}

(* HASH_IF_FULL_DO_RESIZE: the table stays as it is without memory. *)
HashDoResize(t) ==
  IF t.count > t.size /\ t.size * 2 <= MaxSize
    THEN {t, HashRefresh([t EXCEPT !.size = @ * 2])}
    ELSE {t}

(* The chain of b without b, where first says that b is its head. *)
Unchained(t, b, first) ==
  LET u == t.bucket[b]
      i == Slot(t, u.key.h)
      heap == Put(t.bucket, u.next, "last", u.last)
  IN IF first THEN [t EXCEPT !.bucket = heap, !.buckets[i] = u.next]
              ELSE [t EXCEPT !.bucket = Put(heap, u.last, "next", u.next)]

(* The table without b, which is freed. *)
Removed(t, b, first) ==
  LET u == t.bucket[b]
      v == Unchained(t, b, first)
      heap == Put(Put(v.bucket, u.listLast, "listNext", u.listNext),
                  u.listNext, "listLast", u.listLast)
  IN [v EXCEPT !.bucket = [heap EXCEPT ![b] = NULL],
               !.head = IF u.listLast = NULL THEN u.listNext ELSE @,
               !.tail = IF u.listNext = NULL THEN u.listLast ELSE @,
               !.cursor = IF @ = b THEN u.listNext ELSE @,
               !.count = @ - 1]

(* The two removals find out differently whether b is the head of its chain. *)
HashApplyDeleter(t, b)   == Removed(t, b, t.bucket[b].last = NULL)
HashDeleteKeyOrIndex(t, b) == Removed(t, b, t.buckets[Slot(t, KeyAt(t, b).h)] = b)

-----------------------------------------------------------------------------
(* Running applies: the client's code runs when there is none or when the   *)
(* innermost one is in a call-back.                                         *)
ClientRuns == applies # << >> => Last(applies).at # NULL

(* Client duty: an element some apply is at is removed by the return code of
   that apply's call-back only. *)
Free(b) == \A i \in DOMAIN applies : applies[i].at # b

(* History: what is gone need not be visited any more. *)
NotDue(fs, b) == [i \in DOMAIN fs |-> [fs[i] EXCEPT !.due = @ \ {b}]]

Long(n) == IF n >= Word \div 2 THEN n - Word ELSE n

(* NextFreeElement after an insertion or update of the key, compared as LONG. *)
After(key, n) ==
  IF key.str = NULL /\ Long(key.h) >= Long(n) THEN (key.h + 1) % Word ELSE n

(* HashAddOrUpdate, HashQuickAddOrUpdate and HashIndexUpdateOrNextInsert of a
   key that is there already *)
Update(key, v) ==
  LET b == Find(table, key)
  IN /\ ClientRuns /\ b # NULL
     /\ table' = [table EXCEPT !.bucket[b].data = v,
                               !.next = After(key, @)]
     /\ UNCHANGED <<saved, applies>>

(* The same three with a new key, when there is memory for the bucket *)
Insert(key, v) ==
  /\ ClientRuns
  /\ Find(table, key) = NULL
  /\ \E b \in Addresses \ Live(table) :
       LET fresh == [key |-> key, data |-> v, next |-> NULL, last |-> NULL,
                     listNext |-> NULL, listLast |-> NULL]
           t == ConnectToGlobalList(
                  ConnectToBucketList([table EXCEPT !.bucket[b] = fresh], b), b)
       IN table' \in HashDoResize([t EXCEPT !.count = @ + 1, !.next = After(key, @)])
  /\ UNCHANGED <<saved, applies>>

(* HashNextIndexInsert *)
NextInsert(v) == Insert([str |-> NULL, h |-> table.next], v)

Delete(key) ==
  LET b == Find(table, key)
  IN /\ ClientRuns /\ b # NULL /\ Free(b)
     /\ table' = HashDeleteKeyOrIndex(table, b)
     /\ applies' = NotDue(applies, b)
     /\ UNCHANGED saved

(* HashClear; HashDestroy and HashInitEx do the same to what is modelled. *)
HashClear ==
  /\ applies = << >>
  /\ table' = [table EXCEPT !.bucket = [b \in Addresses |-> NULL],
                            !.buckets = EmptyBuckets(table.size),
                            !.head = NULL, !.tail = NULL, !.count = 0,
                            !.next = 0, !.cursor = NULL]
  /\ UNCHANGED <<saved, applies>>

-----------------------------------------------------------------------------
(* The internal pointer *)

MoveCursor(p) ==
  /\ ClientRuns
  /\ table' = [table EXCEPT !.cursor = p]
  /\ UNCHANGED <<saved, applies>>

HashInternalPointerReset == MoveCursor(table.head)
HashInternalPointerEnd   == MoveCursor(table.tail)
HashMoveForward  ==
  table.cursor # NULL /\ MoveCursor(table.bucket[table.cursor].listNext)
HashMoveBackward ==
  table.cursor # NULL /\ MoveCursor(table.bucket[table.cursor].listLast)

HashGetPointer ==
  /\ ClientRuns /\ Saves
  /\ saved' = [pos |-> table.cursor,
               h |-> IF table.cursor = NULL THEN 0 ELSE KeyAt(table, table.cursor).h]
  /\ UNCHANGED <<table, applies>>

(* A plausible slip: what was saved is believed. *)
SetPointerBlindly == saved.pos # NULL /\ MoveCursor(saved.pos)

(* The saved address is looked for in the chain of the saved hash value. *)
HashSetPointer ==
  /\ saved.pos \in Range(Chain(table, Slot(table, saved.h)))
  /\ MoveCursor(saved.pos)

-----------------------------------------------------------------------------
(* HashUpdateCurrentKeyEx of the element at the internal pointer *)

(* A plausible slip: the tail stays where the element was. *)
MovedUnderTail(t, b, a) ==
  LET u == t.bucket[b]
      heap == Put(Put([t.bucket EXCEPT ![a] = u, ![b] = NULL],
                      u.listNext, "listLast", a), u.listLast, "listNext", a)
  IN [t EXCEPT !.bucket = heap,
               !.head = IF u.listLast = NULL THEN a ELSE @,
               !.cursor = IF @ = b THEN a ELSE @]

(* The element b moves to the address a with another KeyLength. *)
Moved(t, b, a) ==
  LET u == t.bucket[b]
      heap == Put(Put([t.bucket EXCEPT ![a] = u, ![b] = NULL],
                      u.listNext, "listLast", a), u.listLast, "listNext", a)
  IN [t EXCEPT !.bucket = heap,
               !.tail = IF u.listNext = NULL THEN a ELSE @,
               !.head = IF u.listLast = NULL THEN a ELSE @,
               !.cursor = IF @ = b THEN a ELSE @]

(* A plausible slip: the element with the new key is not looked for. *)
KeepsOther(t, key) == t

(* The other element with the key is deleted first. *)
WithoutOther(t, key) ==
  IF Find(t, key) = NULL THEN t ELSE HashDeleteKeyOrIndex(t, Find(t, key))

HashUpdateCurrentKey(key) ==
  LET b == table.cursor
      t == WithoutOther(table, key)
      u == Unchained(t, b, t.bucket[b].last = NULL)
      Rekeyed(w, a) == ConnectToBucketList([w EXCEPT !.bucket[a].key = key], a)
      sameLength == (key.str = NULL) = (KeyAt(table, b).str = NULL)
  IN /\ applies = << >>
     /\ b # NULL /\ KeyAt(table, b) # key
     /\ \/ sameLength /\ table' = Rekeyed(u, b)
        \/ ~sameLength /\ \E a \in Addresses \ Live(t) : table' = Rekeyed(Moved(u, b, a), a)
        \/ ~sameLength /\ RenameFails /\ table' = u
     /\ UNCHANGED <<saved, applies>>

-----------------------------------------------------------------------------
(* HashSort: any order, for the sort and compare functions are the client's *)

(* The list in the given order, the internal pointer at its head. *)
Linked(t, order) ==
  LET n == Len(order)
      Place(b) == CHOOSE i \in 1 .. n : order[i] = b
  IN [t EXCEPT !.bucket =
        [b \in Addresses |->
           IF t.bucket[b] = NULL THEN NULL
           ELSE [t.bucket[b] EXCEPT
                   !.listLast = IF Place(b) = 1 THEN NULL ELSE order[Place(b) - 1],
                   !.listNext = IF Place(b) = n THEN NULL ELSE order[Place(b) + 1]]],
      !.head = order[1], !.tail = order[n], !.cursor = order[1]]

(* The elements numbered in the order of the list. *)
Renumbered(t, order) ==
  HashRefresh([t EXCEPT !.bucket =
    [b \in Addresses |->
       IF t.bucket[b] = NULL THEN NULL
       ELSE [t.bucket[b] EXCEPT
               !.key = [str |-> NULL, h |-> (CHOOSE i \in DOMAIN order : order[i] = b) - 1]]],
    !.next = Len(order)])

HashSort(renumber) ==
  /\ applies = << >>
  /\ table.count > IF renumber THEN 0 ELSE 1
  /\ \E order \in SetToSeqs(Range(ListOf(table))) :
       table' = IF renumber THEN Renumbered(Linked(table, order), order)
                            ELSE Linked(table, order)
  /\ UNCHANGED <<saved, applies>>

-----------------------------------------------------------------------------
(* The applies *)

(* HashApply and its forms with arguments, HashGracefulReverseApply. *)
StartApply(kind) ==
  /\ ClientRuns /\ Len(applies) < MaxDepth
  /\ applies' = Append(applies, [at |-> IF kind = "reverse" THEN table.tail ELSE table.head,
                                 kind |-> kind, due |-> Live(table)])
  /\ UNCHANGED <<table, saved>>

(* A plausible slip: the loop steps on from what the deleter returned. *)
StepSkips(f, removed) ==
  LET n == table.bucket[f.at].listNext
  IN IF f.kind = "reverse" THEN table.bucket[f.at].listLast
     ELSE IF removed /\ n # NULL THEN table.bucket[n].listNext ELSE n

(* Where the loop goes from the element it is at. *)
StepFrom(f, removed) ==
  table.bucket[f.at][IF f.kind = "reverse" THEN "listLast" ELSE "listNext"]

(* The call-back returns: with HASH_APPLY_REMOVE the element goes, with
   HASH_APPLY_STOP the loop ends. *)
CallBackReturns(remove, stop) ==
  /\ applies # << >> /\ Last(applies).at # NULL
  /\ LET f == Last(applies)
         g == [f EXCEPT !.at = IF stop THEN NULL ELSE StepFrom(f, remove),
                        !.due = IF stop THEN {} ELSE @ \ {f.at}]
     IN IF remove
          THEN /\ \A i \in 1 .. Len(applies) - 1 : applies[i].at # f.at
               /\ table' = HashApplyDeleter(table, f.at)
               /\ applies' = Append(NotDue(Front(applies), f.at), g)
          ELSE /\ applies' = Append(Front(applies), g)
               /\ UNCHANGED table
  /\ UNCHANGED saved

(* The end of the loop *)
EndApply ==
  /\ ~ClientRuns
  /\ applies' = Front(applies)
  /\ UNCHANGED <<table, saved>>

Next ==
  \/ \E key \in Keys :
       \/ \E v \in Values : Insert(key, v) \/ Update(key, v)
       \/ Delete(key)
       \/ HashUpdateCurrentKey(key)
  \/ \E v \in Values : NextInsert(v)
  \/ HashClear
  \/ HashInternalPointerReset \/ HashInternalPointerEnd
  \/ HashMoveForward \/ HashMoveBackward
  \/ HashGetPointer \/ HashSetPointer
  \/ \E renumber \in BOOLEAN : HashSort(renumber)
  \/ \E kind \in Applies : StartApply(kind)
  \/ \E remove, stop \in BOOLEAN : CallBackReturns(remove, stop)
  \/ EndApply

Spec == Init /\ [][Next]_vars

-----------------------------------------------------------------------------
(* The tables with n slots *)
Tables(n) ==
  [bucket : [Addresses -> Buckets \cup {NULL}], buckets : [0 .. n - 1 -> Pointers],
   size : {n}, head : Pointers, tail : Pointers, count : Nat, next : 0 .. Word - 1,
   cursor : Pointers]

(* Types; the table counts its elements.  The internal pointer is at an      *)
(* element that is there, also when it was set to one that was saved before  *)
(* others were removed, sorted or renamed, and so is each apply.            *)
TypeOK ==
  /\ table.size \in Nat \ {0}
  /\ table \in Tables(table.size)
  /\ table.count = Cardinality(Live(table))
  /\ table.cursor \in Live(table) \cup {NULL}
  /\ saved \in [pos : Pointers, h : 0 .. Word - 1]
  /\ applies \in Seq([at : Live(table) \cup {NULL}, kind : Applies,
                      due : SUBSET Live(table)])

(* Pointers of a doubly linked sequence of buckets. *)
Doubly(s, forth, back) ==
  \A i \in DOMAIN s :
    /\ table.bucket[s[i]][back] = IF i = 1 THEN NULL ELSE s[i - 1]
    /\ table.bucket[s[i]][forth] = IF i = Len(s) THEN NULL ELSE s[i + 1]

(* The list holds every bucket once, from head to tail, whatever has been   *)
(* removed, sorted or renamed: HashDestroy frees all of them, and one once. *)
ListSound ==
  LET s == ListOf(table)
  IN /\ IsInjective(s) /\ Range(s) = Live(table)
     /\ Doubly(s, "listNext", "listLast")
     /\ table.tail = IF s = << >> THEN NULL ELSE Last(s)

(* Each bucket is in the chain of its own slot, once, and in no other: the  *)
(* searches find it, under the mask the table has now.                      *)
ChainsSound ==
  /\ \A i \in 0 .. table.size - 1 :
       LET c == Chain(table, i)
       IN IsInjective(c) /\ Doubly(c, "next", "last")
  /\ \A b \in Live(table), i \in 0 .. table.size - 1 :
       b \in Range(Chain(table, i)) <=> i = Slot(table, KeyAt(table, b).h)

(* An apply that is not stopped has called back for every element that was  *)
(* there when it began and has not been removed since, although call-backs  *)
(* insert, delete and apply in between.                                     *)
ApplyMissesNone ==
  \A i \in DOMAIN applies : applies[i].at = NULL => applies[i].due = {}

(* The table is a map with an order and a cursor: chains, addresses, sizes  *)
(* and the applies do not show.                                             *)
entries == LET s == ListOf(table)
           IN [i \in DOMAIN s |-> [key |-> KeyAt(table, s[i]),
                                   data |-> table.bucket[s[i]].data]]
place == LET s == ListOf(table)
             at == {i \in DOMAIN s : s[i] = table.cursor}
         IN IF at = {} THEN 0 ELSE CHOOSE i \in at : TRUE

Abstract == INSTANCE OrderedMap
  WITH cursor <- place, next <- table.next
ImplementsOrderedMap == Abstract!Spec
=============================================================================
