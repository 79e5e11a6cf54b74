-------------------------- MODULE StackPoolProofs --------------------------
(***************************************************************************)
(* Proofs about StackPool, for every set of threads, every heap and every  *)
(* nesting bound.  ExclusiveUse is not inductive: that a stack taken from  *)
(* the heap is new needs Accounted, that a stack given back has left       *)
(* StackList needs the walk of FreeStackToPool to meet it, and that needs  *)
(* LOCK_GS to be held by the thread that walks (LockInv, WalkInv).         *)
(* That the pool stays within its bound is a count of what the threads     *)
(* hold and ask for (HoldInv, CountInv), at its end.                       *)
(***************************************************************************)
EXTENDS StackPool, ListLemmas, FiniteSetTheorems, Integers

(* LOCK_GS is held exactly by the thread inside FreeStackToPool. *)
LockInv == \A t \in Threads : pc[t] \in Releasing <=> gsLock = t

(* The local variable Stack holds a stack exactly where the code has one. *)
CurInv ==
  \A t \in Threads : cur[t] = NULL <=> pc[t] \in {"idle", "take", "grow"}

(* StackList links the stacks in use and the one about to be unlinked. *)
Linked(t) == held[t] \cup (IF pc[t] \in {"read", "scan"} THEN {cur[t]} ELSE {})
UseInv == \A s \in Stacks : s \in Elems(useList) <=> \E t \in Threads : s \in Linked(t)

(* The entry FreeStackToPool read is still the first of StackList. *)
WalkInv ==
  \A t \in Threads : pc[t] = "scan" => useList # <<>> /\ first[t] = useList[1]

(* What came from the heap is in FreeStackList, used or worked on, and
   nothing else is. *)
Accounted ==
  \A s \in Stacks :
    s \in created <=> \/ s \in Elems(freeList)
                      \/ \E t \in Threads : s \in held[t] \cup InTransit(t)

IInv ==
  /\ TypeOK /\ ExclusiveUse
  /\ LockInv /\ CurInv /\ UseInv /\ WalkInv /\ Accounted
-----------------------------------------------------------------------------

LEMMA ElemsType ==
  ASSUME NEW list \in Seq(Stacks)
  PROVE  Elems(list) \subseteq Stacks
BY DEF Elems

LEMMA InitIInv == Init => IInv
<1> SUFFICES ASSUME Init PROVE IInv
  OBVIOUS
<1> USE PoolAssumption DEF Init
<1>1. TypeOK
  BY DEF TypeOK
<1>2. Elems(<<>>) = {} /\ NoDuplicates(<<>>)
  BY DEF Elems, NoDuplicates
<1>3. ExclusiveUse
  BY <1>2 DEF ExclusiveUse, InTransit
<1>4. LockInv /\ CurInv /\ WalkInv
  BY DEF LockInv, CurInv, WalkInv, Releasing
<1>5. UseInv /\ Accounted
  BY <1>2 DEF UseInv, Linked, Accounted, InTransit
<1> QED
  BY <1>1, <1>3, <1>4, <1>5 DEF IInv

LEMMA RequestIInv ==
  ASSUME NEW t \in Threads, IInv, Request(t)
  PROVE  IInv'
<1> USE PoolAssumption DEF IInv, Request, Goto
<1>1. TypeOK'
  BY ElemsType DEF TypeOK, Requesting, Releasing
<1>2. ExclusiveUse'
  BY DEF ExclusiveUse, InTransit, TypeOK, CurInv
<1>3. LockInv'
  BY DEF LockInv, Releasing, TypeOK
<1>4. CurInv'
  BY DEF CurInv, TypeOK
<1>5. UseInv'
  BY DEF UseInv, Linked, TypeOK, CurInv
<1>6. WalkInv'
  BY DEF WalkInv, TypeOK
<1>7. Accounted'
  BY DEF Accounted, InTransit, TypeOK, CurInv
<1> QED
  BY <1>1, <1>2, <1>3, <1>4, <1>5, <1>6, <1>7

LEMMA TakeFreeIInv ==
  ASSUME NEW t \in Threads, IInv, TakeFree(t)
  PROVE  IInv'
<1> USE PoolAssumption DEF IInv, TakeFree, Goto
<1>0. ASSUME freeList # <<>>
      PROVE  /\ Head(freeList) \in Stacks
             /\ Tail(freeList) \in Seq(Stacks) /\ NoDuplicates(Tail(freeList))
             /\ Elems(Tail(freeList)) = Elems(freeList) \ {Head(freeList)}
             /\ Head(freeList) \in Elems(freeList)
  BY <1>0, TailElems DEF TypeOK, ExclusiveUse
<1>a. cur[t] = NULL
  BY DEF CurInv, TypeOK
<1>b. ASSUME freeList # <<>>
      PROVE  /\ freeList' = Tail(freeList) /\ Elems(freeList)' = Elems(Tail(freeList))
             /\ InTransit(t) = {} /\ InTransit(t)' = {Head(freeList)}
             /\ \A u \in Threads \ {t} : InTransit(u)' = InTransit(u)
  <2>1. freeList' = Tail(freeList) /\ cur' = [cur EXCEPT ![t] = Head(freeList)]
    BY <1>b
  <2>2. cur'[t] = Head(freeList) /\ \A u \in Threads \ {t} : cur'[u] = cur[u]
    BY <2>1 DEF TypeOK
  <2>3. Elems(freeList)' = Elems(Tail(freeList))
    BY <2>1 DEF Elems
  <2>4. InTransit(t) = {}
    BY <1>a DEF InTransit
  <2>5. InTransit(t)' = {Head(freeList)}
    <3>1. Head(freeList) # NULL
      BY <1>b, <1>0
    <3> QED
      BY <2>2, <3>1 DEF InTransit
  <2>6. \A u \in Threads \ {t} : InTransit(u)' = InTransit(u)
    BY <2>2 DEF InTransit
  <2> QED
    BY <2>1, <2>3, <2>4, <2>5, <2>6
<1>1. TypeOK'
  <2>1. pc' \in [Threads -> {"idle"} \cup Requesting \cup Releasing]
    BY DEF TypeOK, Requesting, Releasing
  <2>2. freeList' \in Seq(Stacks) /\ cur' \in [Threads -> Stacks \cup {NULL}]
    <3>1. CASE freeList = <<>>
      BY <3>1 DEF TypeOK
    <3>2. CASE freeList # <<>>
      <4>1. freeList' = Tail(freeList) /\ cur' = [cur EXCEPT ![t] = Head(freeList)]
        BY <3>2
      <4> QED
        BY <4>1, <3>2, <1>0 DEF TypeOK
    <3> QED
      BY <3>1, <3>2
  <2>3. UNCHANGED <<useList, created, held, gsLock, first>>
    OBVIOUS
  <2> QED
    BY <2>1, <2>2, <2>3 DEF TypeOK
<1>2. ExclusiveUse'
  <2>1. CASE freeList = <<>>
    BY <2>1 DEF ExclusiveUse, InTransit
  <2>2. CASE freeList # <<>>
    <3>1. \A u \in Threads \ {t} : Head(freeList) \notin held[u] \cup InTransit(u)
      BY <2>2, <1>0 DEF ExclusiveUse
    <3>2. Head(freeList) \notin held[t] /\ Head(freeList) \notin Elems(useList)
      BY <2>2, <1>0 DEF ExclusiveUse
    <3>3. /\ NoDuplicates(freeList') /\ NoDuplicates(useList)
          /\ Elems(freeList)' \subseteq Elems(freeList) \ {Head(freeList)}
      BY <2>2, <1>0, <1>b DEF ExclusiveUse
    <3>4. held' = held /\ useList' = useList
      OBVIOUS
    <3>5. InTransit(t)' = {Head(freeList)} /\ \A u \in Threads \ {t} : InTransit(u)' = InTransit(u)
      BY <2>2, <1>b
    <3>6. NoDuplicates(freeList)' /\ NoDuplicates(useList)' /\ Elems(useList)' = Elems(useList)
      BY <3>3, <3>4 DEF NoDuplicates, Elems
    <3>7. ASSUME NEW u \in Threads
          PROVE  /\ Elems(freeList)' \cap (held[u] \cup InTransit(u)') = {}
                 /\ held[u] \cap InTransit(u)' = {}
      BY <3>1, <3>2, <3>3, <3>5 DEF ExclusiveUse
    <3>8. ASSUME NEW u \in Threads, NEW w \in Threads \ {u}
          PROVE  (held[u] \cup InTransit(u)') \cap (held[w] \cup InTransit(w)') = {}
      BY <3>1, <3>2, <3>5 DEF ExclusiveUse
    <3> QED
      BY <3>3, <3>4, <3>6, <3>7, <3>8 DEF ExclusiveUse
  <2> QED
    BY <2>1, <2>2
<1>3. LockInv'
  BY DEF LockInv, Releasing, TypeOK
<1>4. CurInv'
  <2>1. CASE freeList = <<>>
    BY <2>1 DEF CurInv, TypeOK
  <2>2. CASE freeList # <<>>
    <3>1. Head(freeList) # NULL
      BY <2>2, <1>0
    <3> QED
      BY <2>2, <3>1 DEF CurInv, TypeOK
  <2> QED
    BY <2>1, <2>2
<1>5. UseInv'
  <2>1. pc[t] = "take" /\ pc'[t] \notin {"read", "scan"}
    BY DEF TypeOK
  <2>2. \A u \in Threads \ {t} : pc'[u] = pc[u] /\ cur'[u] = cur[u]
    BY DEF TypeOK
  <2>3. held' = held /\ Elems(useList)' = Elems(useList)
    BY DEF Elems
  <2>4. \A u \in Threads : Linked(u)' = Linked(u)
    BY <2>1, <2>2, <2>3 DEF Linked
  <2> QED
    BY <2>3, <2>4 DEF UseInv
<1>6. WalkInv'
  BY DEF WalkInv, TypeOK
<1>7. Accounted'
  <2>1. CASE freeList = <<>>
    BY <2>1 DEF Accounted, InTransit
  <2>2. CASE freeList # <<>>
    BY <2>2, <1>0, <1>b DEF Accounted
  <2> QED
    BY <2>1, <2>2
<1> QED
  BY <1>1, <1>2, <1>3, <1>4, <1>5, <1>6, <1>7

LEMMA AllocateStackIInv ==
  ASSUME NEW t \in Threads, IInv, AllocateStack(t)
  PROVE  IInv'
<1> USE PoolAssumption DEF IInv, AllocateStack, Goto
<1>1. TypeOK'
  BY ElemsType DEF TypeOK, Requesting, Releasing
<1>2. ExclusiveUse'
  <2>1. CASE UNCHANGED cur
    BY <2>1 DEF ExclusiveUse, InTransit
  <2>2. ASSUME NEW s \in Stacks \ created, cur' = [cur EXCEPT ![t] = s]
        PROVE  ExclusiveUse'
    <3>1. s \notin Elems(freeList) /\ \A u \in Threads : s \notin held[u] \cup InTransit(u)
      BY DEF Accounted
    <3>2. InTransit(t)' = {s} /\ \A u \in Threads \ {t} : InTransit(u)' = InTransit(u)
      BY <2>2 DEF InTransit, TypeOK
    <3> QED
      BY <3>1, <3>2 DEF ExclusiveUse
  <2> QED
    BY <2>1, <2>2
<1>3. LockInv'
  BY DEF LockInv, Releasing, TypeOK
<1>4. CurInv'
  BY DEF CurInv, TypeOK
<1>5. UseInv'
  BY DEF UseInv, Linked, TypeOK, CurInv
<1>6. WalkInv'
  BY DEF WalkInv, TypeOK
<1>7. Accounted'
  BY DEF Accounted, InTransit, TypeOK, CurInv
<1> QED
  BY <1>1, <1>2, <1>3, <1>4, <1>5, <1>6, <1>7

LEMMA PutFreshIInv ==
  ASSUME NEW t \in Threads, IInv, PutFresh(t)
  PROVE  IInv'
<1> USE PoolAssumption DEF IInv, PutFresh, Goto
<1>a. cur[t] \in Stacks /\ InTransit(t) = {cur[t]}
  BY DEF CurInv, TypeOK, InTransit
<1>b. /\ cur[t] \notin Elems(freeList) /\ cur[t] \notin Elems(useList)
      /\ \A u \in Threads \ {t} : cur[t] \notin held[u] \cup InTransit(u)
      /\ cur[t] \notin held[t]
  <2>1. \A u \in Threads : cur[t] \notin Linked(u)
    BY <1>a DEF ExclusiveUse, Linked, InTransit, LockInv, Releasing
  <2> QED
    BY <1>a, <2>1 DEF ExclusiveUse, UseInv
<1>0. /\ freeList' \in Seq(Stacks) /\ NoDuplicates(freeList')
      /\ Elems(freeList') = Elems(freeList) \cup {cur[t]}
  BY <1>a, <1>b, AppendElems DEF TypeOK, ExclusiveUse
<1>c. /\ InTransit(t)' = {}
      /\ \A u \in Threads \ {t} : InTransit(u)' = InTransit(u)
      /\ Elems(freeList)' = Elems(freeList')
      /\ held' = held /\ useList' = useList /\ created' = created
  BY DEF InTransit, TypeOK, Elems
<1>1. TypeOK'
  BY <1>0 DEF TypeOK, Requesting, Releasing
<1>2. ExclusiveUse'
  BY <1>a, <1>b, <1>0, <1>c DEF ExclusiveUse
<1>3. LockInv'
  BY DEF LockInv, Releasing, TypeOK
<1>4. CurInv'
  BY DEF CurInv, TypeOK
<1>5. UseInv'
  BY DEF UseInv, Linked, TypeOK, CurInv
<1>6. WalkInv'
  BY DEF WalkInv, TypeOK
<1>7. Accounted'
  BY <1>a, <1>0, <1>c DEF Accounted
<1> QED
  BY <1>1, <1>2, <1>3, <1>4, <1>5, <1>6, <1>7

LEMMA PostIInv ==
  ASSUME NEW t \in Threads, IInv, Post(t)
  PROVE  IInv'
<1> USE PoolAssumption DEF IInv, Post, Goto
<1>a. cur[t] \in Stacks /\ InTransit(t) = {cur[t]}
  BY DEF CurInv, TypeOK, InTransit
<1>b. cur[t] \notin Elems(useList)
  <2>1. \A u \in Threads : cur[t] \notin Linked(u)
    BY <1>a DEF ExclusiveUse, Linked, InTransit
  <2> QED
    BY <1>a, <2>1 DEF UseInv
<1>0. /\ useList' \in Seq(Stacks) /\ NoDuplicates(useList')
      /\ Elems(useList') = Elems(useList) \cup {cur[t]}
  BY <1>a, <1>b, AppendElems DEF TypeOK, ExclusiveUse
<1>c. /\ InTransit(t)' = {} /\ held'[t] = held[t] \cup {cur[t]}
      /\ \A u \in Threads \ {t} : InTransit(u)' = InTransit(u) /\ held'[u] = held[u]
      /\ freeList' = freeList
  BY DEF InTransit, TypeOK
<1>1. TypeOK'
  BY <1>0, <1>a DEF TypeOK, Requesting, Releasing
<1>2. ExclusiveUse'
  BY <1>a, <1>0, <1>c DEF ExclusiveUse
<1>3. LockInv'
  BY DEF LockInv, Releasing, TypeOK
<1>4. CurInv'
  BY DEF CurInv, TypeOK
<1>5. UseInv'
  <2>1. Linked(t)' = Linked(t) \cup {cur[t]}
    BY <1>c DEF Linked, TypeOK
  <2>2. \A u \in Threads \ {t} : Linked(u)' = Linked(u)
    BY <1>c DEF Linked, TypeOK
  <2> QED
    BY <2>1, <2>2, <1>0 DEF UseInv
<1>6. WalkInv'
  BY DEF WalkInv, TypeOK
<1>7. Accounted'
  BY DEF Accounted, InTransit, TypeOK, CurInv
<1> QED
  BY <1>1, <1>2, <1>3, <1>4, <1>5, <1>6, <1>7

LEMMA ReleaseIInv ==
  ASSUME NEW t \in Threads, NEW s \in Stacks, IInv, Release(t, s)
  PROVE  IInv'
<1> USE PoolAssumption DEF IInv, Release, Goto
<1>1. TypeOK'
  BY ElemsType DEF TypeOK, Requesting, Releasing
<1>2. ExclusiveUse'
  BY DEF ExclusiveUse, InTransit, TypeOK, CurInv
<1>3. LockInv'
  BY DEF LockInv, Releasing, TypeOK
<1>4. CurInv'
  BY DEF CurInv, TypeOK
<1>5. UseInv'
  BY DEF UseInv, Linked, TypeOK, CurInv
<1>6. WalkInv'
  BY DEF WalkInv, TypeOK
<1>7. Accounted'
  BY SMTT(30) DEF Accounted, InTransit, TypeOK, CurInv
<1> QED
  BY <1>1, <1>2, <1>3, <1>4, <1>5, <1>6, <1>7

LEMMA ReadFirstIInv ==
  ASSUME NEW t \in Threads, IInv, ReadFirst(t)
  PROVE  IInv'
<1> USE PoolAssumption DEF IInv, ReadFirst, Goto
<1>1. TypeOK'
  BY ElemsType DEF TypeOK, Requesting, Releasing
<1>2. ExclusiveUse'
  BY DEF ExclusiveUse, InTransit, TypeOK, CurInv
<1>3. LockInv'
  BY DEF LockInv, Releasing, TypeOK
<1>4. CurInv'
  BY DEF CurInv, TypeOK
<1>5. UseInv'
  BY DEF UseInv, Linked, TypeOK, CurInv
<1>6. WalkInv'
  <2>1. cur[t] \in Elems(useList)
    BY DEF UseInv, Linked, CurInv, TypeOK
  <2>2. useList # <<>>
    BY <2>1 DEF Elems
  <2>3. Head(useList) = useList[1]
    BY <2>2 DEF TypeOK
  <2> QED
    BY <2>2, <2>3 DEF WalkInv, TypeOK
<1>7. Accounted'
  BY DEF Accounted, InTransit, TypeOK, CurInv
<1> QED
  BY <1>1, <1>2, <1>3, <1>4, <1>5, <1>6, <1>7

LEMMA IInvReached == IInv => ScanReachesStack
<1> SUFFICES ASSUME IInv, NEW t \in Threads, pc[t] = "scan"
             PROVE  Reached(t) # {}
  BY DEF ScanReachesStack
<1>1. cur[t] \in Stacks /\ cur[t] \in Linked(t)
  BY DEF IInv, TypeOK, CurInv, Linked
<1>2. cur[t] \in Elems(useList)
  BY <1>1 DEF IInv, UseInv
<1>3. PICK k \in DOMAIN useList : useList[k] = cur[t]
  BY <1>2 DEF Elems
<1>4. 1 \in 1 .. k /\ useList[1] = first[t]
  BY <1>3 DEF IInv, TypeOK, WalkInv
<1> QED
  BY <1>3, <1>4 DEF Reached

LEMMA ScanIInv ==
  ASSUME NEW t \in Threads, IInv, Scan(t)
  PROVE  IInv'
<1> USE PoolAssumption DEF IInv, Scan, Goto
<1>a. PICK k \in Reached(t) : useList' = Unlinked(useList, k)
  BY IInvReached DEF ScanReachesStack
<1>b. k \in DOMAIN useList /\ useList[k] = cur[t]
  BY DEF Reached
<1>0. /\ useList' \in Seq(Stacks) /\ NoDuplicates(useList')
      /\ Elems(useList') = Elems(useList) \ {cur[t]}
  BY <1>a, <1>b, UnlinkedElems DEF TypeOK, ExclusiveUse
<1>c. /\ \A u \in Threads : InTransit(u)' = InTransit(u)
      /\ held' = held /\ freeList' = freeList
  BY DEF InTransit
<1>d. \A u \in Threads \ {t} : pc[u] \notin Releasing /\ pc'[u] = pc[u]
  BY DEF LockInv, Releasing, TypeOK
<1>1. TypeOK'
  BY <1>0 DEF TypeOK, Requesting, Releasing
<1>2. ExclusiveUse'
  BY <1>0, <1>c DEF ExclusiveUse
<1>3. LockInv'
  BY DEF LockInv, Releasing, TypeOK
<1>4. CurInv'
  BY DEF CurInv, TypeOK
<1>5. UseInv'
  <2>1. cur[t] \in InTransit(t)
    BY DEF InTransit, CurInv
  <2>2. \A u \in Threads \ {t} : Linked(u) = held[u] /\ Linked(u)' = held[u]
    BY <1>d DEF Linked, Releasing, TypeOK
  <2>3. Linked(t) = held[t] \cup {cur[t]} /\ Linked(t)' = held[t]
    BY DEF Linked, TypeOK
  <2>4. \A u \in Threads : cur[t] \notin held[u]
    BY <2>1 DEF ExclusiveUse
  <2> QED
    BY <2>2, <2>3, <2>4, <1>0 DEF UseInv
<1>6. WalkInv'
  BY <1>d DEF WalkInv, TypeOK, Releasing
<1>7. Accounted'
  BY DEF Accounted, InTransit, TypeOK, CurInv
<1> QED
  BY <1>1, <1>2, <1>3, <1>4, <1>5, <1>6, <1>7

LEMMA ClearTableIInv ==
  ASSUME NEW t \in Threads, IInv, ClearTable(t)
  PROVE  IInv'
<1> USE PoolAssumption DEF IInv, ClearTable, Goto
<1>1. TypeOK'
  BY ElemsType DEF TypeOK, Requesting, Releasing
<1>2. ExclusiveUse'
  BY DEF ExclusiveUse, InTransit, TypeOK, CurInv
<1>3. LockInv'
  BY DEF LockInv, Releasing, TypeOK
<1>4. CurInv'
  BY DEF CurInv, TypeOK
<1>5. UseInv'
  BY DEF UseInv, Linked, TypeOK, CurInv
<1>6. WalkInv'
  BY DEF WalkInv, TypeOK
<1>7. Accounted'
  BY DEF Accounted, InTransit, TypeOK, CurInv
<1> QED
  BY <1>1, <1>2, <1>3, <1>4, <1>5, <1>6, <1>7

LEMMA GiveIInv ==
  ASSUME NEW t \in Threads, IInv, Give(t)
  PROVE  IInv'
<1> USE PoolAssumption DEF IInv, Give, Goto
<1>a. cur[t] \in Stacks /\ InTransit(t) = {cur[t]}
  BY DEF CurInv, TypeOK, InTransit
<1>b. /\ cur[t] \notin Elems(freeList) /\ cur[t] \notin Elems(useList)
      /\ \A u \in Threads \ {t} : cur[t] \notin held[u] \cup InTransit(u)
      /\ cur[t] \notin held[t]
  <2>1. \A u \in Threads : cur[t] \notin Linked(u)
    BY <1>a DEF ExclusiveUse, Linked, InTransit, LockInv, Releasing
  <2> QED
    BY <1>a, <2>1 DEF ExclusiveUse, UseInv
<1>0. /\ freeList' \in Seq(Stacks) /\ NoDuplicates(freeList')
      /\ Elems(freeList') = Elems(freeList) \cup {cur[t]}
  BY <1>a, <1>b, AppendElems DEF TypeOK, ExclusiveUse
<1>c. /\ InTransit(t)' = {}
      /\ \A u \in Threads \ {t} : InTransit(u)' = InTransit(u)
      /\ Elems(freeList)' = Elems(freeList')
      /\ held' = held /\ useList' = useList /\ created' = created
  BY DEF InTransit, TypeOK, Elems
<1>1. TypeOK'
  BY <1>0 DEF TypeOK, Requesting, Releasing
<1>2. ExclusiveUse'
  BY <1>a, <1>b, <1>0, <1>c DEF ExclusiveUse
<1>3. LockInv'
  BY DEF LockInv, Releasing, TypeOK
<1>4. CurInv'
  BY DEF CurInv, TypeOK
<1>5. UseInv'
  BY DEF UseInv, Linked, TypeOK, CurInv
<1>6. WalkInv'
  BY DEF WalkInv, TypeOK
<1>7. Accounted'
  BY <1>a, <1>0, <1>c DEF Accounted
<1> QED
  BY <1>1, <1>2, <1>3, <1>4, <1>5, <1>6, <1>7

LEMMA StutterIInv == IInv /\ UNCHANGED vars => IInv'
<1> SUFFICES ASSUME IInv, UNCHANGED vars PROVE IInv'
  OBVIOUS
<1> USE DEF IInv, vars
<1>1. TypeOK' /\ LockInv' /\ CurInv' /\ WalkInv'
  BY DEF TypeOK, LockInv, CurInv, WalkInv
<1>2. ExclusiveUse'
  BY DEF ExclusiveUse, InTransit, Elems, NoDuplicates
<1>3. UseInv' /\ Accounted'
  BY DEF UseInv, Linked, Accounted, InTransit, Elems
<1> QED
  BY <1>1, <1>2, <1>3

LEMMA NextIInv == IInv /\ [Next]_vars => IInv'
<1> SUFFICES ASSUME IInv, [Next]_vars PROVE IInv'
  OBVIOUS
<1>1. ASSUME NEW t \in Threads, Request(t) PROVE IInv'
  BY <1>1, RequestIInv
<1>2. ASSUME NEW t \in Threads, Inside(t) PROVE IInv'
  BY <1>2, TakeFreeIInv, AllocateStackIInv, PutFreshIInv, PostIInv,
     ReadFirstIInv, ScanIInv, ClearTableIInv, GiveIInv DEF Inside
<1>3. ASSUME NEW t \in Threads, NEW s \in Stacks, Release(t, s)
      PROVE  IInv'
  BY <1>3, ReleaseIInv
<1>4. CASE UNCHANGED vars
  BY <1>4, StutterIInv
<1> QED
  BY <1>1, <1>2, <1>3, <1>4 DEF Next

THEOREM Invariance == Spec => []IInv
BY InitIInv, NextIInv, PTL DEF Spec

(* The variables of the pool keep their types in every execution. *)
THEOREM TypeCorrect == Spec => []TypeOK
BY Invariance, PTL DEF IInv

(* AllocateStackFromPool and FreeStackToPool never let two threads, or a
   thread and the free list, own the same stack. *)
THEOREM PoolExclusive == Spec => []ExclusiveUse
BY Invariance, PTL DEF IInv

(* FreeStackToPool always finds the stack it frees, although it reads the
   start of its walk outside StackListLock. *)
THEOREM WalkFinds == Spec => []ScanReachesStack
BY Invariance, IInvReached, PTL

(* No stack taken from the heap is lost. *)
THEOREM PoolKeepsStacks == Spec => []NoStackLost
<1>1. IInv => NoStackLost
  <2> SUFFICES ASSUME IInv PROVE NoStackLost
    OBVIOUS
  <2>1. Elems(freeList) \subseteq Stacks /\ created \subseteq Stacks
    BY ElemsType DEF IInv, TypeOK
  <2>2. \A t \in Threads : held[t] \cup InTransit(t) \subseteq Stacks
    BY DEF IInv, TypeOK, InTransit
  <2> QED
    BY <2>1, <2>2 DEF IInv, Accounted, NoStackLost
<1> QED
  BY Invariance, <1>1, PTL

(***************************************************************************)
(* The refinement: Post is Acquire of the abstract pool, Release is its    *)
(* Release, and every other step leaves the owners alone.                  *)
(***************************************************************************)
LEMMA OwnerIsHolder ==
  ASSUME IInv, NEW s \in Stacks
  PROVE  /\ \A t \in Threads : ownerOf[s] = t <=> s \in held[t]
         /\ (\A t \in Threads : s \notin held[t]) => ownerOf[s] = NULL
<1>1. ASSUME NEW t \in Threads, s \in held[t]
      PROVE  ownerOf[s] = t
  <2>1. \A u \in Threads : s \in held[u] => u = t
    BY <1>1 DEF IInv, ExclusiveUse
  <2> QED
    BY <1>1, <2>1 DEF ownerOf
<1>2. ASSUME NEW t \in Threads, ownerOf[s] = t
      PROVE  s \in held[t]
  BY <1>2, PoolAssumption DEF ownerOf
<1>3. (\A t \in Threads : s \notin held[t]) => ownerOf[s] = NULL
  BY DEF ownerOf
<1> QED
  BY <1>1, <1>2, <1>3

LEMMA PostAcquires ==
  ASSUME NEW t \in Threads, IInv, Post(t)
  PROVE  Owned!Acquire(t, cur[t]) /\ cur[t] \in Stacks
<1>1. cur[t] \in Stacks /\ InTransit(t) = {cur[t]}
  BY PoolAssumption DEF IInv, Post, CurInv, TypeOK, InTransit
<1>2. \A u \in Threads : cur[t] \notin held[u]
  BY <1>1 DEF IInv, ExclusiveUse
<1>3. ownerOf[cur[t]] = NULL
  BY <1>1, <1>2, OwnerIsHolder
<1>4. /\ held'[t] = held[t] \cup {cur[t]}
      /\ \A u \in Threads \ {t} : held'[u] = held[u]
  BY DEF Post, IInv, TypeOK
<1>5. ASSUME NEW s \in Stacks, s # cur[t]
      PROVE  ownerOf'[s] = ownerOf[s]
  <2>1. \A u \in Threads : s \in held'[u] <=> s \in held[u]
    BY <1>4, <1>5
  <2> QED
    BY <2>1 DEF ownerOf
<1>6. ownerOf'[cur[t]] = t
  <2>1. \A u \in Threads : cur[t] \in held'[u] <=> u = t
    BY <1>2, <1>4
  <2> QED
    BY <1>1, <2>1 DEF ownerOf
<1>7. ownerOf' = [ownerOf EXCEPT ![cur[t]] = t]
  BY <1>1, <1>5, <1>6 DEF ownerOf
<1> QED
  BY <1>1, <1>3, <1>7 DEF Owned!Acquire

LEMMA ReleaseReleases ==
  ASSUME NEW t \in Threads, NEW s \in Stacks, IInv, Release(t, s)
  PROVE  Owned!Release(t, s)
<1>1. s \in held[t]
  BY DEF Release
<1>2. ownerOf[s] = t
  BY <1>1, OwnerIsHolder
<1>3. /\ held'[t] = held[t] \ {s}
      /\ \A u \in Threads \ {t} : held'[u] = held[u] /\ s \notin held[u]
  BY <1>1 DEF Release, IInv, TypeOK, ExclusiveUse
<1>4. ASSUME NEW r \in Stacks, r # s
      PROVE  ownerOf'[r] = ownerOf[r]
  <2>1. \A u \in Threads : r \in held'[u] <=> r \in held[u]
    BY <1>3, <1>4
  <2> QED
    BY <2>1 DEF ownerOf
<1>5. ownerOf'[s] = NULL
  BY <1>3 DEF ownerOf
<1>6. ownerOf' = [ownerOf EXCEPT ![s] = NULL]
  BY <1>4, <1>5 DEF ownerOf
<1> QED
  BY <1>2, <1>6 DEF Owned!Release

LEMMA StepRefines ==
  ASSUME IInv, [Next]_vars
  PROVE  [Owned!Next]_ownerOf
<1>1. held' = held => ownerOf' = ownerOf
  BY DEF ownerOf
<1>2. ASSUME NEW t \in Threads, Request(t) \/ (Inside(t) /\ ~Post(t))
      PROVE  held' = held
  BY <1>2 DEF Request, Inside, TakeFree, AllocateStack, PutFresh, ReadFirst, Scan, ClearTable, Give
<1>3. ASSUME NEW t \in Threads, Post(t)
      PROVE  Owned!Next
  BY <1>3, PostAcquires DEF Owned!Next
<1>4. ASSUME NEW t \in Threads, NEW s \in Stacks, Release(t, s)
      PROVE  Owned!Next \/ held' = held
  BY <1>4, ReleaseReleases DEF Owned!Next
<1>5. CASE UNCHANGED vars
  BY <1>5, <1>1 DEF vars
<1> QED
  BY <1>1, <1>2, <1>3, <1>4, <1>5 DEF Next

(* The pool implements the abstract pool: a caller that only sees which
   thread owns each stack cannot tell the two apart. *)
THEOREM Refinement == Spec => ImplementsOwnedPool
<1>1. Init => Owned!Init
  BY DEF Init, Owned!Init, ownerOf
<1>2. IInv /\ [Next]_vars => [Owned!Next]_ownerOf
  BY StepRefines
<1> QED
  BY Invariance, <1>1, <1>2, PTL DEF Spec, ImplementsOwnedPool, Owned!Spec

-----------------------------------------------------------------------------
(***************************************************************************)
(* The size of the pool.  A thread adds a stack because it has seen the    *)
(* free list empty; when it adds it, others may have given theirs back.    *)
(* The bound holds because a thread that is about to add a stack counts    *)
(* for the one it will use: all that have seen the list empty together     *)
(* find fewer stacks in use than the threads may hold.                     *)
(***************************************************************************)
LEMMA PlacesDiffer ==
  ASSUME NEW m \in Nat, NEW i \in Nat \ {0}, NEW j \in Nat \ {0}, NEW k \in 1 .. m,
         NEW l \in 1 .. m, (i - 1) * m + k = (j - 1) * m + l
  PROVE  i = j /\ k = l
<1>1. ASSUME NEW a \in Nat \ {0}, NEW b \in Nat \ {0}, a < b
      PROVE  (a - 1) * m + m <= (b - 1) * m
  <2>1. (b - 1) * m = (a - 1) * m + (b - a) * m
    OBVIOUS
  <2>2. (b - a) * m = m + (b - a - 1) * m /\ b - a - 1 \in Nat
    BY <1>1
  <2>3. (b - a - 1) * m \in Nat /\ (a - 1) * m \in Int
    BY <2>2
  <2> QED
    BY <2>1, <2>2, <2>3
<1>2. (i - 1) * m \in Int /\ (j - 1) * m \in Int
  OBVIOUS
<1>3. ~(i < j)
  BY <1>1, <1>2
<1>4. ~(j < i)
  BY <1>1, <1>2
<1> QED
  BY <1>2, <1>3, <1>4

(* What is owned by the members of T, m places each. *)
LEMMA PlacesBound ==
  ASSUME NEW T, IsFiniteSet(T), NEW m \in Nat, NEW S, NEW owner \in [S -> T],
         NEW place \in [S -> 1 .. m],
         \A x, y \in S : owner[x] = owner[y] /\ place[x] = place[y] => x = y
  PROVE  IsFiniteSet(S) /\ Cardinality(S) <= Cardinality(T) * m
<1> DEFINE n == Cardinality(T)
<1>1. n \in Nat /\ ExistsBijection(1 .. n, T)
  BY FS_CardinalityType
<1>2. PICK a \in [1 .. n -> T] : \A t \in T : \E i \in 1 .. n : a[i] = t
  BY <1>1 DEF ExistsBijection, Bijection, Surjection
<1> HIDE DEF n
<1> DEFINE index(t) == CHOOSE i \in 1 .. n : a[i] = t
<1>3. \A t \in T : index(t) \in 1 .. n /\ a[index(t)] = t
  BY <1>2
<1> HIDE DEF index
<1> DEFINE f == [x \in S |-> (index(owner[x]) - 1) * m + place[x]]
<1>4. ASSUME NEW x \in S
      PROVE  /\ index(owner[x]) \in 1 .. n /\ place[x] \in 1 .. m
             /\ f[x] = (index(owner[x]) - 1) * m + place[x] /\ f[x] \in 1 .. n * m
  <2>1. owner[x] \in T /\ index(owner[x]) \in 1 .. n /\ place[x] \in 1 .. m
    BY <1>3
  <2>2. ASSUME NEW i \in 1 .. n, NEW k \in 1 .. m
        PROVE  (i - 1) * m + k \in 1 .. n * m
    <3>1. n * m = (i - 1) * m + m + (n - i) * m
      BY <1>1
    <3>2. (n - i) * m \in Nat /\ (i - 1) * m \in Nat
      <4>1. n - i \in Nat /\ i - 1 \in Nat
        BY <1>1
      <4> QED
        BY <4>1
    <3> QED
      BY <3>1, <3>2, SMTT(30)
  <2> QED
    BY <2>1, <2>2
<1>5. ASSUME NEW x \in S, NEW y \in S, f[x] = f[y]
      PROVE  x = y
  <2> DEFINE i == index(owner[x])
             j == index(owner[y])
             k == place[x]
             l == place[y]
  <2>1. /\ i \in Nat \ {0} /\ j \in Nat \ {0} /\ k \in 1 .. m /\ l \in 1 .. m
        /\ (i - 1) * m + k = (j - 1) * m + l
    BY <1>1, <1>4, <1>5
  <2> HIDE DEF i, j, k, l
  <2>2. i = j /\ k = l
    BY <2>1, PlacesDiffer
  <2> USE DEF i, j, k, l
  <2>3. owner[x] = owner[y]
    BY <1>3, <2>2
  <2> QED
    BY <2>2, <2>3
<1>6. f \in Injection(S, 1 .. n * m)
  <2>1. f \in [S -> 1 .. n * m]
    BY <1>4
  <2> HIDE DEF f
  <2> QED
    BY <1>5, <2>1 DEF Injection, IsInjective
<1>7. n * m \in Nat /\ IsFiniteSet(1 .. n * m) /\ Cardinality(1 .. n * m) = n * m
  <2>1. n * m \in Nat
    BY <1>1
  <2> HIDE DEF n
  <2>2. \A c \in Nat : IsFiniteSet(1 .. c) /\ Cardinality(1 .. c) = c
    BY FS_Interval
  <2> QED
    BY <2>1, <2>2
<1> HIDE DEF f
<1> QED
  BY <1>6, <1>7, FS_Injection DEF n

(* A thread inside the pool's code has room for one more stack. *)
HoldInv ==
  \A t \in Threads :
    /\ IsFiniteSet(held[t])
    /\ Cardinality(held[t]) + (IF pc[t] = "idle" THEN 0 ELSE 1) <= MaxHold

Growing == {t \in Threads : pc[t] = "grow"}
Waiting == {t \in Threads : pc[t] \in {"take", "grow"}}

CountInv ==
  /\ IsFiniteSet(created)
  /\ Cardinality(created) + Cardinality(Growing) <= Cardinality(Threads) * MaxHold

LEMMA AddOne ==
  ASSUME NEW A, IsFiniteSet(A), NEW x
  PROVE  /\ IsFiniteSet(A \cup {x}) /\ Cardinality(A \cup {x}) \in Nat
         /\ Cardinality(A \cup {x}) <= Cardinality(A) + 1
<1>1. Cardinality(A) \in Nat
  BY FS_CardinalityType
<1> QED
  BY <1>1, FS_AddElement

LEMMA HoldStep ==
  ASSUME IInv, HoldInv, [Next]_vars
  PROVE  HoldInv'
<1>1. /\ held \in [Threads -> SUBSET Stacks]
      /\ pc \in [Threads -> {"idle"} \cup Requesting \cup Releasing]
      /\ cur \in [Threads -> Stacks \cup {NULL}]
  BY DEF IInv, TypeOK
<1>2. \A t \in Threads : Cardinality(held[t]) \in Nat /\ MaxHold \in Nat
  BY FS_CardinalityType, PoolAssumption DEF HoldInv
<1>3. ASSUME NEW u \in Threads, Request(u)
      PROVE  HoldInv'
  BY <1>1, <1>2, <1>3 DEF HoldInv, Request, Goto
<1>4. ASSUME NEW u \in Threads,
             TakeFree(u) \/ AllocateStack(u) \/ PutFresh(u) \/ ReadFirst(u) \/ Scan(u)
             \/ ClearTable(u) \/ Give(u)
      PROVE  HoldInv'
  <2>1. held' = held /\ pc[u] # "idle" /\ \E label : pc' = [pc EXCEPT ![u] = label]
    BY <1>4 DEF TakeFree, AllocateStack, PutFresh, ReadFirst, Scan, ClearTable, Give, Goto
  <2> QED
    BY <1>1, <1>2, <2>1 DEF HoldInv
<1>5. ASSUME NEW u \in Threads, Post(u)
      PROVE  HoldInv'
  <2>1. /\ IsFiniteSet(held[u] \cup {cur[u]})
        /\ Cardinality(held[u] \cup {cur[u]}) <= Cardinality(held[u]) + 1
        /\ Cardinality(held[u] \cup {cur[u]}) \in Nat
    BY <1>2, AddOne DEF HoldInv
  <2>2. Cardinality(held[u]) + 1 <= MaxHold
    BY <1>5 DEF Post, HoldInv
  <2>3. /\ held'[u] = held[u] \cup {cur[u]} /\ pc'[u] = "idle"
        /\ \A t \in Threads \ {u} : held'[t] = held[t] /\ pc'[t] = pc[t]
    BY <1>1, <1>5 DEF Post, Goto
  <2>4. IsFiniteSet(held'[u]) /\ Cardinality(held'[u]) + 0 <= MaxHold
    BY <1>2, <2>1, <2>2, <2>3
  <2> QED
    BY <2>3, <2>4 DEF HoldInv
<1>6. ASSUME NEW u \in Threads, NEW s \in Stacks, Release(u, s)
      PROVE  HoldInv'
  <2>1. /\ IsFiniteSet(held[u] \ {s})
        /\ Cardinality(held[u] \ {s}) = Cardinality(held[u]) - 1
    BY <1>6, FS_RemoveElement DEF HoldInv, Release
  <2>2. /\ held'[u] = held[u] \ {s} /\ pc'[u] = "read" /\ pc[u] = "idle"
        /\ \A t \in Threads \ {u} : held'[t] = held[t] /\ pc'[t] = pc[t]
    BY <1>1, <1>6 DEF Release, Goto
  <2>3. Cardinality(held[u]) <= MaxHold /\ Cardinality(held[u]) \in Nat
    BY <1>2, <2>2 DEF HoldInv
  <2>4. IsFiniteSet(held'[u]) /\ Cardinality(held'[u]) + 1 <= MaxHold
    BY <1>2, <2>1, <2>2, <2>3
  <2> QED
    BY <2>2, <2>4 DEF HoldInv
<1>7. CASE UNCHANGED vars
  BY <1>7 DEF vars, HoldInv
<1> QED
  BY <1>3, <1>4, <1>5, <1>6, <1>7 DEF Next, Inside

(* When the list is empty, every stack is with one of the threads, and the
   threads that wait for one have a place free. *)
LEMMA EmptyListBound ==
  ASSUME IInv, HoldInv, freeList = <<>>
  PROVE  /\ IsFiniteSet(created)
         /\ Cardinality(created) + Cardinality(Waiting) <= Cardinality(Threads) * MaxHold
<1> DEFINE used(t) == held[t] \cup InTransit(t)
           n(t)    == Cardinality(used(t))
<1>1. IsFiniteSet(Threads) /\ MaxHold \in Nat \ {0} /\ created \cap Waiting = {}
  BY PoolAssumption DEF IInv, TypeOK, Waiting
<1>2. ASSUME NEW t \in Threads
      PROVE  /\ n(t) \in Nat /\ n(t) <= MaxHold /\ ExistsBijection(1 .. n(t), used(t))
             /\ t \in Waiting => n(t) < MaxHold
  <2>1. IsFiniteSet(held[t]) /\ Cardinality(held[t]) \in Nat
    BY FS_CardinalityType DEF HoldInv
  <2>2. CASE cur[t] = NULL
    <3>1. used(t) = held[t]
      BY <2>2 DEF InTransit
    <3>2. Cardinality(held[t]) + (IF pc[t] = "idle" THEN 0 ELSE 1) <= MaxHold
      BY DEF HoldInv
    <3> HIDE DEF used
    <3> QED
      BY <1>1, <2>1, <3>1, <3>2, FS_CardinalityType DEF Waiting
  <2>3. CASE cur[t] # NULL
    <3>1. used(t) = held[t] \cup {cur[t]} /\ pc[t] \notin {"idle", "take", "grow"}
      BY <2>3 DEF InTransit, IInv, CurInv
    <3>2. Cardinality(held[t]) + 1 <= MaxHold
      BY <3>1 DEF HoldInv
    <3>3. /\ IsFiniteSet(held[t] \cup {cur[t]})
          /\ Cardinality(held[t] \cup {cur[t]}) <= Cardinality(held[t]) + 1
      BY <2>1, AddOne
    <3> HIDE DEF used
    <3> QED
      BY <1>1, <2>1, <3>1, <3>2, <3>3, FS_CardinalityType DEF Waiting
  <2> QED
    BY <2>2, <2>3
<1>3. \A s \in created : \E t \in Threads : s \in used(t)
  BY DEF IInv, TypeOK, Accounted, Elems
<1> HIDE DEF used, n
<1> DEFINE member(x) == IF x \in Threads THEN x ELSE CHOOSE t \in Threads : x \in used(t)
           nth(t)    == CHOOSE f \in [1 .. n(t) -> used(t)] :
                          \A x \in used(t) : \E k \in 1 .. n(t) : f[k] = x
           index(x)  == IF x \in Threads THEN MaxHold
                        ELSE CHOOSE k \in 1 .. n(member(x)) : nth(member(x))[k] = x
           S         == created \cup Waiting
<1>4. ASSUME NEW x \in S, x \notin Threads
      PROVE  /\ x \in created /\ member(x) \in Threads /\ x \in used(member(x))
             /\ index(x) \in 1 .. n(member(x)) /\ nth(member(x))[index(x)] = x
  <2>1. x \in created
    BY <1>4 DEF Waiting
  <2>2. member(x) \in Threads /\ x \in used(member(x))
    BY <1>3, <1>4, <2>1
  <2> HIDE DEF member
  <2>3. \E f \in [1 .. n(member(x)) -> used(member(x))] :
          \A y \in used(member(x)) : \E k \in 1 .. n(member(x)) : f[k] = y
    BY <1>2, <2>2 DEF ExistsBijection, Bijection, Surjection
  <2>4. \A y \in used(member(x)) : \E k \in 1 .. n(member(x)) : nth(member(x))[k] = y
    BY <2>3
  <2> HIDE DEF nth
  <2>5. index(x) \in 1 .. n(member(x)) /\ nth(member(x))[index(x)] = x
    BY <1>4, <2>2, <2>4
  <2> QED
    BY <2>1, <2>2, <2>5
<1>5. ASSUME NEW x \in S, x \in Threads
      PROVE  x \in Waiting /\ member(x) = x /\ index(x) = MaxHold
  BY <1>5, PoolAssumption DEF IInv, TypeOK
<1> HIDE DEF member, index, nth
<1>6. ASSUME NEW x \in S
      PROVE  member(x) \in Threads /\ index(x) \in 1 .. MaxHold
  <2>1. CASE x \in Threads
    BY <1>1, <1>5, <2>1
  <2>2. CASE x \notin Threads
    <3>1. /\ member(x) \in Threads /\ index(x) \in 1 .. n(member(x))
          /\ n(member(x)) \in Nat /\ n(member(x)) <= MaxHold
      BY <1>2, <1>4, <2>2
    <3> QED
      BY <1>1, <3>1
  <2> QED
    BY <2>1, <2>2
<1>7. ASSUME NEW x \in S, NEW y \in S, member(x) = member(y), index(x) = index(y)
      PROVE  x = y
  <2>1. CASE x \in Threads /\ y \in Threads
    BY <1>5, <1>7, <2>1
  <2>2. CASE x \notin Threads /\ y \notin Threads
    BY <1>4, <1>7, <2>2
  <2>3. ASSUME NEW v \in S, NEW w \in S, v \in Threads, w \notin Threads,
               member(v) = member(w), index(v) = index(w)
        PROVE  FALSE
    <3>1. v \in Waiting /\ member(w) = v /\ index(w) = MaxHold
      BY <1>5, <2>3
    <3>2. index(w) \in 1 .. n(member(w))
      BY <1>4, <2>3
    <3>3. n(v) \in Nat /\ n(v) < MaxHold
      BY <1>2, <2>3, <3>1
    <3> QED
      BY <1>1, <3>1, <3>2, <3>3
  <2> QED
    BY <1>7, <2>1, <2>2, <2>3
<1>8. IsFiniteSet(S) /\ Cardinality(S) <= Cardinality(Threads) * MaxHold
  <2> DEFINE owner == [x \in S |-> member(x)]
             place == [x \in S |-> index(x)]
  <2>1. owner \in [S -> Threads] /\ place \in [S -> 1 .. MaxHold]
    BY <1>6
  <2>2. \A x, y \in S : owner[x] = owner[y] /\ place[x] = place[y] => x = y
    BY <1>7
  <2> HIDE DEF owner, place, S
  <2> QED
    BY <1>1, <2>1, <2>2, PlacesBound
<1>9. IsFiniteSet(created) /\ IsFiniteSet(Waiting)
  BY <1>8, FS_Subset
<1>10. Cardinality(S) = Cardinality(created) + Cardinality(Waiting)
  <2>1. Cardinality(S) = Cardinality(created) + Cardinality(Waiting) - Cardinality({})
    BY <1>1, <1>9, FS_Union
  <2>2. Cardinality(created) \in Nat /\ Cardinality(Waiting) \in Nat /\ Cardinality({}) = 0
    BY <1>9, FS_CardinalityType, FS_EmptySet
  <2> QED
    BY <2>1, <2>2
<1> QED
  BY <1>8, <1>9, <1>10

LEMMA CountStep ==
  ASSUME IInv, HoldInv, CountInv, [Next]_vars
  PROVE  CountInv'
<1> DEFINE bound == Cardinality(Threads) * MaxHold
<1>1. /\ pc \in [Threads -> {"idle"} \cup Requesting \cup Releasing]
      /\ IsFiniteSet(Threads) /\ bound \in Nat
  <2>1. IsFiniteSet(Threads) /\ Cardinality(Threads) \in Nat /\ MaxHold \in Nat
    BY PoolAssumption, FS_CardinalityType
  <2> QED
    BY <2>1 DEF IInv, TypeOK
<1>2. /\ IsFiniteSet(Growing) /\ IsFiniteSet(Waiting)
      /\ Cardinality(Growing) \in Nat /\ Cardinality(Waiting) \in Nat
      /\ IsFiniteSet(created) /\ Cardinality(created) \in Nat
      /\ Cardinality(created) + Cardinality(Growing) <= bound
  <2>1. IsFiniteSet(Growing) /\ IsFiniteSet(Waiting)
    BY <1>1, FS_Subset DEF Growing, Waiting
  <2> QED
    BY <2>1, FS_CardinalityType DEF CountInv
<1> HIDE DEF bound
<1>3. ASSUME NEW u \in Threads, TakeFree(u)
      PROVE  CountInv'
  <2>1. CASE freeList # <<>>
    <3>1. created' = created /\ Growing' = Growing
      BY <1>1, <1>3, <2>1 DEF TakeFree, Goto, Growing
    <3> QED
      BY <3>1 DEF CountInv
  <2>2. CASE freeList = <<>>
    <3>1. created' = created /\ Growing' \subseteq Waiting
      BY <1>1, <1>3, <2>2 DEF TakeFree, Goto, Growing, Waiting
    <3>2. IsFiniteSet(Growing') /\ Cardinality(Growing') <= Cardinality(Waiting)
      BY <1>2, <3>1, FS_Subset
    <3>3. Cardinality(Growing') \in Nat
      BY <3>2, FS_CardinalityType
    <3>4. Cardinality(created) + Cardinality(Waiting) <= bound
      BY <2>2, EmptyListBound DEF bound
    <3>5. Cardinality(created) + Cardinality(Growing') <= bound
      BY <1>1, <1>2, <3>2, <3>3, <3>4
    <3> QED
      BY <1>2, <3>1, <3>5 DEF CountInv, bound
  <2> QED
    BY <2>1, <2>2
<1>4. ASSUME NEW u \in Threads, AllocateStack(u)
      PROVE  CountInv'
  <2>1. Growing' = Growing \ {u} /\ u \in Growing
    BY <1>1, <1>4 DEF AllocateStack, Goto, Growing
  <2>2. Cardinality(Growing') = Cardinality(Growing) - 1
    BY <1>2, <2>1, FS_RemoveElement
  <2>3. IsFiniteSet(created') /\ Cardinality(created') <= Cardinality(created) + 1
    <3>1. created' = created \/ \E s \in Stacks : created' = created \cup {s}
      BY <1>4 DEF AllocateStack
    <3>2. CASE created' = created
      BY <1>2, <3>2
    <3>3. ASSUME NEW s \in Stacks, created' = created \cup {s}
          PROVE  IsFiniteSet(created') /\ Cardinality(created') <= Cardinality(created) + 1
      BY <1>2, <3>3, AddOne
    <3> QED
      BY <3>1, <3>2, <3>3
  <2>4. Cardinality(created') \in Nat
    BY <2>3, FS_CardinalityType
  <2>5. Cardinality(created') + Cardinality(Growing') <= bound
    BY <1>1, <1>2, <2>2, <2>3, <2>4
  <2> QED
    BY <2>3, <2>5 DEF CountInv, bound
<1>5. ASSUME created' = created, Growing' = Growing
      PROVE  CountInv'
  BY <1>5 DEF CountInv
<1>6. ASSUME NEW u \in Threads,
             Request(u) \/ PutFresh(u) \/ Post(u) \/ ReadFirst(u) \/ Scan(u)
             \/ ClearTable(u) \/ Give(u)
      PROVE  created' = created /\ Growing' = Growing
  <2>1. created' = created /\ pc[u] # "grow" /\ \E label : label # "grow" /\ pc' = [pc EXCEPT ![u] = label]
    BY <1>6 DEF Request, PutFresh, Post, ReadFirst, Scan, ClearTable, Give, Goto
  <2> QED
    BY <1>1, <2>1 DEF Growing
<1>7. ASSUME NEW u \in Threads, NEW s \in Stacks, Release(u, s)
      PROVE  created' = created /\ Growing' = Growing
  <2>1. created' = created /\ pc[u] # "grow" /\ (pc' = pc \/ pc' = [pc EXCEPT ![u] = "read"])
    BY <1>7 DEF Release, Goto
  <2> QED
    BY <1>1, <2>1 DEF Growing
<1>8. CASE UNCHANGED vars
  <2>1. created' = created /\ Growing' = Growing
    BY <1>8 DEF vars, Growing
  <2> QED
    BY <1>5, <2>1
<1>9. ASSUME NEW u \in Threads,
             Request(u) \/ Inside(u) \/ \E s \in Stacks : Release(u, s)
      PROVE  CountInv'
  BY <1>3, <1>4, <1>5, <1>6, <1>7, <1>9 DEF Inside
<1> QED
  BY <1>8, <1>9 DEF Next

(* The pool never holds more stacks than the threads can use at once,
   although AllocateStackFromPool allocates again when another thread takes
   what it has just added. *)
THEOREM PoolSize == Spec => []PoolBounded
<1>1. Init => HoldInv
  <2>1. IsFiniteSet({}) /\ Cardinality({}) = 0
    BY FS_EmptySet
  <2> QED
    BY <2>1, PoolAssumption DEF Init, HoldInv
<1>2. Init => CountInv
  <2>1. ASSUME Init
        PROVE  created = {} /\ Growing = {}
    BY <2>1 DEF Init, Growing
  <2>2. IsFiniteSet({}) /\ Cardinality({}) = 0
    BY FS_EmptySet
  <2>3. Cardinality(Threads) * MaxHold \in Nat
    <3>1. Cardinality(Threads) \in Nat /\ MaxHold \in Nat
      BY PoolAssumption, FS_CardinalityType
    <3> QED
      BY <3>1
  <2>4. ASSUME NEW b \in Nat, b = Cardinality(Threads) * MaxHold, Init
        PROVE  CountInv
    <3>1. created = {} /\ Growing = {}
      BY <2>1, <2>4
    <3>2. Cardinality(created) = 0 /\ Cardinality(Growing) = 0
      BY <2>2, <3>1
    <3>3. Cardinality(created) + Cardinality(Growing) <= b
      BY <2>4, <3>2
    <3> QED
      BY <2>2, <2>4, <3>1, <3>3 DEF CountInv
  <2> QED
    BY <2>3, <2>4
<1>3. IInv /\ HoldInv /\ CountInv /\ [Next]_vars => HoldInv' /\ CountInv'
  BY HoldStep, CountStep
<1>4. CountInv => PoolBounded
  <2> SUFFICES ASSUME CountInv
               PROVE  PoolBounded
    OBVIOUS
  <2>1. IsFiniteSet(Growing)
    BY PoolAssumption, FS_Subset DEF Growing
  <2>2. Cardinality(Growing) \in Nat /\ Cardinality(created) \in Nat
    BY <2>1, FS_CardinalityType DEF CountInv
  <2>3. Cardinality(Threads) * MaxHold \in Nat
    <3>1. Cardinality(Threads) \in Nat /\ MaxHold \in Nat
      BY PoolAssumption, FS_CardinalityType
    <3> QED
      BY <3>1
  <2>4. ASSUME NEW b \in Nat, b = Cardinality(Threads) * MaxHold
        PROVE  Cardinality(created) <= b
    BY <2>2, <2>4 DEF CountInv
  <2> QED
    BY <2>3, <2>4 DEF PoolBounded
<1> QED
  BY Invariance, <1>1, <1>2, <1>3, <1>4, PTL DEF Spec
=============================================================================
