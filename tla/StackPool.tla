----------------------------- MODULE StackPool -----------------------------
(***************************************************************************)
(* The pool of DUMP_STACK structures of src/include/zend_dump.c:           *)
(* AllocateStackFromPool takes a stack from FreeStackList (allocating one  *)
(* when the list is empty) and links it in StackList, FreeStackToPool      *)
(* unlinks it, empties its variable table and puts it back.                *)
(*                                                                         *)
(* Every access to a list is made under that list's critical section and   *)
(* is one step here, except the one the code makes outside: FreeStackToPool*)
(* reads StackList.Flink before it enters StackListLock.  The global lock  *)
(* (LOCK_GS) spans several steps and is the variable gsLock.               *)
(***************************************************************************)
EXTENDS Lists, FiniteSets

CONSTANTS
  Threads,   (* threads that dump op arrays                              *)
  Stacks,    (* identities of DUMP_STACK the heap can provide            *)
  MaxHold,   (* nesting bound: stacks one thread uses at the same time   *)
  NULL,      (* no stack, no thread                                      *)
  ListHead   (* the address of StackList's own LIST_ENTRY                *)

ASSUME PoolAssumption ==
  /\ MaxHold \in Nat \ {0} /\ IsFiniteSet(Threads)
  /\ NULL \notin Stacks \cup Threads /\ Stacks \cap Threads = {}
  /\ ListHead \notin Stacks \cup {NULL}

VARIABLES
  freeList,  (* Setting->FreeStackList, head first                        *)
  useList,   (* Setting->StackList, head first                            *)
  created,   (* the stacks AllocateStack got from the heap                *)
  held,      (* held[t]: stacks returned to t and not yet given back      *)
  gsLock,    (* the thread inside LOCK_GS, or NULL                        *)
  pc,        (* where each thread is in the pool's code                   *)
  cur,       (* the local variable Stack of that code                     *)
  first      (* FreeStackToPool's ListEntry, read before StackListLock    *)

vars == <<freeList, useList, created, held, gsLock, pc, cur, first>>

Requesting == {"take", "grow", "fresh", "post"}
Releasing  == {"read", "scan", "clear", "give"}

Goto(t, label) == pc' = [pc EXCEPT ![t] = label]

Init ==
  /\ freeList = <<>> /\ useList = <<>>
  /\ created = {}
  /\ held = [t \in Threads |-> {}]
  /\ gsLock = NULL
  /\ pc = [t \in Threads |-> "idle"]
  /\ cur = [t \in Threads |-> NULL]
  /\ first = [t \in Threads |-> NULL]

-----------------------------------------------------------------------------
(* AllocateStackFromPool *)

Request(t) ==
  /\ pc[t] = "idle"
  /\ Cardinality(held[t]) < MaxHold
  /\ Goto(t, "take")
  /\ UNCHANGED <<freeList, useList, created, held, gsLock, cur, first>>

(* A slip in TakeFree: the head of the free list is read, not removed. *)
TakeFreePeeks(t) ==
  /\ pc[t] = "take"
  /\ \/ freeList # <<>> /\ cur' = [cur EXCEPT ![t] = Head(freeList)] /\ Goto(t, "post")
     \/ freeList = <<>> /\ Goto(t, "grow") /\ UNCHANGED cur
  /\ UNCHANGED <<freeList, useList, created, held, gsLock, first>>

(* A slip in TakeFree: the last free stack is kept in reserve. *)
TakeFreeReserves(t) ==
  /\ pc[t] = "take"
  /\ \/ /\ Len(freeList) > 1
        /\ cur' = [cur EXCEPT ![t] = Head(freeList)]
        /\ freeList' = Tail(freeList)
        /\ Goto(t, "post")
     \/ Len(freeList) <= 1 /\ Goto(t, "grow") /\ UNCHANGED <<freeList, cur>>
  /\ UNCHANGED <<useList, created, held, gsLock, first>>

(* ExInterlockedRemoveHeadList on FreeStackList: a stack, or NULL. *)
TakeFree(t) ==
  /\ pc[t] = "take"
  /\ \/ /\ freeList # <<>>
        /\ cur' = [cur EXCEPT ![t] = Head(freeList)]
        /\ freeList' = Tail(freeList)
        /\ Goto(t, "post")
     \/ /\ freeList = <<>>
        /\ Goto(t, "grow")
        /\ UNCHANGED <<freeList, cur>>
  /\ UNCHANGED <<useList, created, held, gsLock, first>>

(* A slip in AllocateStack: the result of HEAP_ALLOC is not tested. *)
AllocateStackUnchecked(t) ==
  /\ pc[t] = "grow"
  /\ Goto(t, "fresh")
  /\ \/ \E s \in Stacks \ created : created' = created \cup {s} /\ cur' = [cur EXCEPT ![t] = s]
     \/ UNCHANGED <<created, cur>>
  /\ UNCHANGED <<freeList, useList, held, gsLock, first>>

(* A slip in AllocateStackFromPool: no break when AllocateStack fails. *)
AllocateStackRetries(t) ==
  /\ pc[t] = "grow"
  /\ \/ /\ \E s \in Stacks \ created : created' = created \cup {s} /\ cur' = [cur EXCEPT ![t] = s]
        /\ Goto(t, "fresh")
     \/ Goto(t, "take") /\ UNCHANGED <<created, cur>>
  /\ UNCHANGED <<freeList, useList, held, gsLock, first>>

(* AllocateStack(1): HEAP_ALLOC gives a new stack with empty lists, or fails
   and AllocateStackFromPool returns NULL. *)
AllocateStack(t) ==
  /\ pc[t] = "grow"
  /\ \/ \E s \in Stacks \ created :
          /\ created' = created \cup {s}
          /\ cur' = [cur EXCEPT ![t] = s]
          /\ Goto(t, "fresh")
     \/ /\ Goto(t, "idle")
        /\ UNCHANGED <<created, cur>>
  /\ UNCHANGED <<freeList, useList, held, gsLock, first>>

(* ... and inserts it in FreeStackList; the caller's loop starts over, so any
   thread may take it first. *)
PutFresh(t) ==
  /\ pc[t] = "fresh"
  /\ freeList' = Append(freeList, cur[t])
  /\ cur' = [cur EXCEPT ![t] = NULL]
  /\ Goto(t, "take")
  /\ UNCHANGED <<useList, created, held, gsLock, first>>

(* The lists of the stack are re-initialised (not its variable table), the
   stack enters StackList and the caller gets it. *)
Post(t) ==
  /\ pc[t] = "post"
  /\ useList' = Append(useList, cur[t])
  /\ held' = [held EXCEPT ![t] = @ \cup {cur[t]}]
  /\ cur' = [cur EXCEPT ![t] = NULL]
  /\ Goto(t, "idle")
  /\ UNCHANGED <<freeList, created, gsLock, first>>

-----------------------------------------------------------------------------
(* FreeStackToPool *)

(* A slip in FreeStackToPool: LOCK_GS does not exclude another thread. *)
ReleaseUnlocked(t, s) ==
  /\ pc[t] = "idle"
  /\ s \in held[t]
  /\ gsLock' = t
  /\ held' = [held EXCEPT ![t] = @ \ {s}]
  /\ cur' = [cur EXCEPT ![t] = s]
  /\ Goto(t, "read")
  /\ UNCHANGED <<freeList, useList, created, first>>

(* LOCK_GS *)
Release(t, s) ==
  /\ pc[t] = "idle"
  /\ s \in held[t]
  /\ gsLock = NULL
  /\ gsLock' = t
  /\ held' = [held EXCEPT ![t] = @ \ {s}]
  /\ cur' = [cur EXCEPT ![t] = s]
  /\ Goto(t, "read")
  /\ UNCHANGED <<freeList, useList, created, first>>

(* ListEntry = ListHead->Flink, with no list lock held. *)
ReadFirst(t) ==
  /\ pc[t] = "read"
  /\ first' = [first EXCEPT ![t] = IF useList = <<>> THEN ListHead ELSE Head(useList)]
  /\ Goto(t, "scan")
  /\ UNCHANGED <<freeList, useList, created, held, gsLock, cur>>

(* Under StackListLock, from the entry read above: the entry of Stack is
   unlinked when the walk meets it before the list head. *)
Reached(t) ==
  {k \in DOMAIN useList : /\ useList[k] = cur[t]
                          /\ \E j \in 1 .. k : useList[j] = first[t]}

Scan(t) ==
  /\ pc[t] = "scan"
  /\ \/ \E k \in Reached(t) : useList' = Unlinked(useList, k)
     \/ Reached(t) = {} /\ UNCHANGED useList
  /\ first' = [first EXCEPT ![t] = NULL]
  /\ Goto(t, "clear")
  /\ UNCHANGED <<freeList, created, held, gsLock, cur>>

(* Every VARIABLE_ENTRY of the stack is freed; what the tables hold is the
   subject of DumpSession. *)
ClearTable(t) ==
  /\ pc[t] = "clear"
  /\ Goto(t, "give")
  /\ UNCHANGED <<freeList, useList, created, held, gsLock, cur, first>>

(* A slip in Give: the stack is not put back. *)
GiveForgets(t) ==
  /\ pc[t] = "give"
  /\ cur' = [cur EXCEPT ![t] = NULL]
  /\ gsLock' = NULL
  /\ Goto(t, "idle")
  /\ UNCHANGED <<freeList, useList, created, held, first>>

(* InsertTail in FreeStackList, whether or not the walk found the stack,
   then UNLOCK_GS. *)
Give(t) ==
  /\ pc[t] = "give"
  /\ freeList' = Append(freeList, cur[t])
  /\ cur' = [cur EXCEPT ![t] = NULL]
  /\ gsLock' = NULL
  /\ Goto(t, "idle")
  /\ UNCHANGED <<useList, created, held, first>>

-----------------------------------------------------------------------------

(* The steps a thread takes once it is inside the pool's code. *)
Inside(t) ==
  \/ TakeFree(t) \/ AllocateStack(t) \/ PutFresh(t) \/ Post(t)
  \/ ReadFirst(t) \/ Scan(t) \/ ClearTable(t) \/ Give(t)

Next ==
  \E t \in Threads :
    \/ Request(t)
    \/ Inside(t)
    \/ \E s \in Stacks : Release(t, s)

Spec == Init /\ [][Next]_vars

(* The scheduler runs a thread that is inside the pool's code: no step of
   Inside waits for a lock held across steps. *)
FairSpec == Spec /\ \A t \in Threads : WF_vars(Inside(t))

-----------------------------------------------------------------------------
(* Each variable holds what the pool's code can put there: in particular no
   list ever links the NULL of a failed HEAP_ALLOC. *)
TypeOK ==
  /\ freeList \in Seq(Stacks)
  /\ useList \in Seq(Stacks)
  /\ created \in SUBSET Stacks
  /\ held \in [Threads -> SUBSET Stacks]
  /\ gsLock \in Threads \cup {NULL}
  /\ pc \in [Threads -> {"idle"} \cup Requesting \cup Releasing]
  /\ cur \in [Threads -> Stacks \cup {NULL}]
  /\ first \in [Threads -> Stacks \cup {NULL, ListHead}]

(* The stack a thread works on inside the pool's code. *)
InTransit(t) == {cur[t]} \ {NULL}

(* No stack is linked twice, linked in both lists, free while a thread still
   uses it, used by two threads, or worked on by two threads at once: the code
   behind it is the pair RemoveHead / InsertTail around every hand-over. *)
ExclusiveUse ==
  /\ NoDuplicates(freeList) /\ NoDuplicates(useList)
  /\ Elems(freeList) \cap Elems(useList) = {}
  /\ \A t \in Threads :
       /\ Elems(freeList) \cap (held[t] \cup InTransit(t)) = {}
       /\ held[t] \cap InTransit(t) = {}
       /\ \A u \in Threads \ {t} :
            (held[t] \cup InTransit(t)) \cap (held[u] \cup InTransit(u)) = {}

(* FreeStackToPool starts its walk at an entry read before the lock.  The walk
   still meets the stack being freed, because only FreeStackToPool unlinks
   entries and LOCK_GS admits one thread at a time. *)
ScanReachesStack ==
  \A t \in Threads : pc[t] = "scan" => Reached(t) # {}

(* AllocateStackFromPool retries when another thread takes the stack it has
   just added, and yet the pool never holds more stacks than the threads can
   use at once. *)
PoolBounded == Cardinality(created) <= Cardinality(Threads) * MaxHold

(* No stack is lost: every stack the heap gave is free, in use, or in the
   hands of a thread inside the pool's code. *)
NoStackLost ==
  created = Elems(freeList) \cup UNION {held[t] \cup InTransit(t) : t \in Threads}

(* A thread that asks for a stack gets one, or NULL, and does not loop for
   ever while the others take what it allocates. *)
RequestAnswered ==
  \A t \in Threads : pc[t] \in Requesting ~> pc[t] = "idle"

(* The thread that may use each stack. *)
ownerOf ==
  [s \in Stacks |-> IF \E t \in Threads : s \in held[t]
                    THEN CHOOSE t \in Threads : s \in held[t]
                    ELSE NULL]

(* What the callers rely on: the pool hands a stack to one thread at a time. *)
Owned == INSTANCE OwnedPool WITH Nobody <- NULL, owner <- ownerOf
ImplementsOwnedPool == Owned!Spec
=============================================================================
