---------------------------- MODULE StackProofs ----------------------------
(***************************************************************************)
(* Proofs about the two models of src/include/Stack.c: SlotStack, the      *)
(* stack of structures, and SortedSearch, the binary searches.             *)
(*                                                                         *)
(* SlotStack, for every set of values, every heap, every size and growth   *)
(* of the array: as long as clients remove at the ends only, no slot is in *)
(* the array twice, a pointer read from the bottom keeps what it points    *)
(* to, and the stack is a sequence of values.                              *)
(*                                                                         *)
(* SortedSearch, for stacks of any length and any integers: the properties *)
(* speak of the result; what the loop keeps is that the elements left of   *)
(* start stand before the argument and those from end on stand behind it   *)
(* (LoopInv), and what it leaves is that the bound the result is made from *)
(* divides the stack as the search wants (EndInv).                         *)
(***************************************************************************)
EXTENDS SlotStack, SortedSearch, FiniteSetTheorems, SequenceTheorems, TLAPS

Lemmas == INSTANCE ListLemmas

(* An array of pointers to different slots, or NULL. *)
Array(e, m) ==
  /\ e \in [0 .. m - 1 -> Slots \cup {NULL}]
  /\ \A i, j \in 0 .. m - 1 : e[i] = e[j] /\ e[i] # NULL => i = j

ArrayInv ==
  \E m \in Nat : Array(elements, m) /\ top \in 0 .. m

Full == \A i \in 0 .. top - 1 : elements[i] # NULL

(* The client's pointer is one below Top: a push does not take its slot. *)
PointerInv ==
  element # NULL => \E i \in 0 .. top - 1 : elements[i] = element

IInv ==
  /\ ArrayInv /\ Full /\ PointerInv /\ PointerKept
  /\ bottom \in Nat
  /\ content \in [Slots -> Values \cup {NULL}]
  /\ element \in Slots \cup {NULL} /\ seen \in Values \cup {NULL}
-----------------------------------------------------------------------------

LEMMA MaxOfArray ==
  ASSUME NEW m \in Nat, NEW e, DOMAIN e = 0 .. m - 1
  PROVE  Cardinality(DOMAIN e) = m
<1>1. Cardinality(0 .. m - 1) = IF 0 > m - 1 THEN 0 ELSE (m - 1) - 0 + 1
  BY FS_Interval
<1> QED
  BY <1>1

LEMMA IInvTypeOK == IInv => TypeOK
<1> SUFFICES ASSUME IInv PROVE TypeOK
  OBVIOUS
<1>1. PICK m \in Nat : Array(elements, m) /\ top \in 0 .. m
  BY DEF IInv, ArrayInv
<1>2. Max = m /\ DOMAIN elements = 0 .. m - 1
  BY <1>1, MaxOfArray DEF Max, Array
<1> QED
  BY <1>1, <1>2 DEF IInv, Full, Array, TypeOK

LEMMA InitIInv == Init => IInv
<1> SUFFICES ASSUME Init PROVE IInv
  OBVIOUS
<1> USE SlotAssumption
<1>1. ArrayInv
  <2>1. CASE elements = << >>
    BY <2>1 DEF ArrayInv, Array, Init
  <2>2. CASE elements \in FromHeap(0 .. InitialMax - 1, {})
    <3>1. Array(elements, InitialMax)
      BY <2>2 DEF Array, FromHeap
    <3>2. InitialMax \in Nat /\ top \in 0 .. InitialMax
      BY SlotAssumption DEF Init
    <3> QED
      BY <3>1, <3>2 DEF ArrayInv
  <2> QED
    BY <2>1, <2>2 DEF Init
<1> QED
  BY <1>1 DEF Init, IInv, Full, PointerInv, PointerKept

(* Whether the array grows or not, it has the old pointers in front. *)
LEMMA ArrayOfPush ==
  ASSUME IInv, NEW e \in StackSetMaxT
  PROVE  /\ \E m \in Nat : Array(e, m) /\ top \in 0 .. m
         /\ \A i \in 0 .. top - 1 : e[i] = elements[i]
<1> USE SlotAssumption
<1>1. PICK m \in Nat : Array(elements, m) /\ top \in 0 .. m
  BY DEF IInv, ArrayInv
<1>2. Max = m /\ DOMAIN elements = 0 .. m - 1
  BY <1>1, MaxOfArray DEF Max, Array
<1>3. CASE e = elements
  BY <1>1, <1>3
<1>4. CASE e # elements
  <2>1. PICK new \in FromHeap(m .. m + Growth - 1, Allocated(elements)) :
          e = Grown(new)
    BY <1>2, <1>4 DEF StackSetMaxT
  <2>2. e = [i \in 0 .. m + Growth - 1 |-> IF i < m THEN elements[i] ELSE new[i]]
    BY <1>2, <2>1 DEF Grown
  <2>3. /\ \A i \in 0 .. m - 1 : e[i] = elements[i]
        /\ \A i \in m .. m + Growth - 1 : e[i] = new[i]
    BY <1>1, <2>2
  <2>5. \A i \in m .. m + Growth - 1 :
          new[i] \in Slots \cup {NULL} /\ new[i] \notin Allocated(elements)
    BY DEF FromHeap, Allocated
  <2>6. \A i \in 0 .. m - 1 : elements[i] # NULL => elements[i] \in Allocated(elements)
    BY <1>2 DEF Allocated, Range
  <2>7. \A i, j \in m .. m + Growth - 1 : new[i] = new[j] /\ new[i] # NULL => i = j
    BY DEF FromHeap
  <2>8. Array(e, m + Growth)
    <3>1. e \in [0 .. m + Growth - 1 -> Slots \cup {NULL}]
      <4>1. \A i \in 0 .. m + Growth - 1 : e[i] \in Slots \cup {NULL}
        BY <1>1, <2>3, <2>5 DEF Array
      <4> QED
        BY <2>2, <4>1
    <3>2. ASSUME NEW i \in 0 .. m + Growth - 1, NEW j \in 0 .. m + Growth - 1,
                 e[i] = e[j], e[i] # NULL
          PROVE  i = j
      BY <1>1, <2>3, <2>5, <2>6, <2>7, <3>2 DEF Array
    <3> QED
      BY <3>1, <3>2 DEF Array
  <2> QED
    BY <1>1, <2>3, <2>8
<1> QED
  BY <1>3, <1>4

(* The slot a push takes is nowhere else in the array. *)
LEMMA SlotOfPush ==
  ASSUME NEW m \in Nat, NEW e, Array(e, m), top \in 0 .. m - 1, NEW s \in SlotAtTop(e)
  PROVE  s \in Slots /\ s # NULL /\ \A i \in 0 .. m - 1 : e[i] = s => i = top
<1> USE SlotAssumption DEF Array
<1>1. CASE e[top] # NULL
  BY <1>1 DEF SlotAtTop
<1>2. CASE e[top] = NULL
  <2>1. s \in Slots \ Allocated(e)
    BY <1>2 DEF SlotAtTop
  <2> QED
    BY <2>1 DEF Allocated, Range
<1> QED
  BY <1>1, <1>2

LEMMA InsertedArray ==
  ASSUME NEW m \in Nat, NEW e, Array(e, m), top \in 0 .. m - 1, NEW k \in 0 .. top,
         NEW s \in Slots, s # NULL, \A i \in 0 .. m - 1 : e[i] = s => i = top
  PROVE  Array(Inserted(e, s, k), m)
<1> DEFINE f == Inserted(e, s, k)
<1>1. f = [i \in 0 .. m - 1 |-> IF i < k \/ i > top THEN e[i]
                                ELSE IF i = k THEN s ELSE e[i - 1]]
  BY DEF Inserted, Array
<1>2. f \in [0 .. m - 1 -> Slots \cup {NULL}]
  BY <1>1 DEF Array
<1>3. ASSUME NEW i \in 0 .. m - 1, NEW j \in 0 .. m - 1, f[i] = f[j], f[i] # NULL
      PROVE  i = j
  <2>1. CASE i = k \/ j = k
    BY <1>1, <1>3, <2>1 DEF Array
  <2>2. CASE i # k /\ j # k
    BY <1>1, <1>3, <2>2 DEF Array
  <2> QED
    BY <2>1, <2>2
<1> HIDE DEF f
<1> QED
  BY <1>2, <1>3 DEF Array, f

LEMMA AddIInv ==
  ASSUME IInv, NEW v \in Values, NEW sorted \in BOOLEAN, Add(v, sorted)
  PROVE  IInv'
<1> USE SlotAssumption
<1>1. PICK e \in StackSetMaxT : \E s \in IF top \in DOMAIN e THEN SlotAtTop(e) ELSE {} :
        \E k \in 0 .. top :
          /\ content' = [content EXCEPT ![s] = v]
          /\ elements' = Inserted(e, s, k) /\ top' = top + 1
          /\ UNCHANGED <<bottom, element, seen>>
  BY DEF Add
<1>2. PICK m \in Nat : Array(e, m) /\ top \in 0 .. m
  BY ArrayOfPush
<1>3. \A i \in 0 .. top - 1 : e[i] = elements[i]
  BY ArrayOfPush
<1>4. top \in 0 .. m - 1
  BY <1>1, <1>2 DEF Array
<1>5. PICK s \in SlotAtTop(e), k \in 0 .. top :
          /\ content' = [content EXCEPT ![s] = v]
          /\ elements' = Inserted(e, s, k) /\ top' = top + 1
          /\ UNCHANGED <<bottom, element, seen>>
  BY <1>1
<1>6. s \in Slots /\ s # NULL /\ \A i \in 0 .. m - 1 : e[i] = s => i = top
  BY <1>2, <1>4, SlotOfPush
<1>7. Array(elements', m)
  BY <1>2, <1>4, <1>5, <1>6, InsertedArray
<1>8. elements' = [i \in 0 .. m - 1 |-> IF i < k \/ i > top THEN e[i]
                                        ELSE IF i = k THEN s ELSE e[i - 1]]
  BY <1>2, <1>5 DEF Inserted, Array
<1>9. ArrayInv'
  BY <1>2, <1>4, <1>5, <1>7 DEF ArrayInv
<1>10. Full'
  BY <1>2, <1>3, <1>4, <1>5, <1>6, <1>8 DEF IInv, Full
<1>11. PointerInv' /\ PointerKept'
  <2> SUFFICES ASSUME element # NULL
               PROVE  /\ \E i \in 0 .. top : elements'[i] = element
                      /\ content'[element] = seen
    BY <1>2, <1>5 DEF PointerInv, PointerKept
  <2>1. PICK i \in 0 .. top - 1 : elements[i] = element
    BY DEF IInv, PointerInv
  <2>2. e[i] = element /\ element # s
    BY <1>2, <1>3, <1>4, <1>6, <2>1
  <2>3. elements'[i] = element \/ elements'[i + 1] = element
    BY <1>2, <1>4, <1>8, <2>1, <2>2
  <2>4. content'[element] = content[element]
    BY <1>5, <2>2 DEF IInv
  <2> QED
    BY <1>2, <2>1, <2>3, <2>4 DEF IInv, PointerKept
<1>12. content' \in [Slots -> Values \cup {NULL}]
  BY <1>5 DEF IInv
<1> QED
  BY <1>5, <1>9, <1>10, <1>11, <1>12 DEF IInv

LEMMA PushFailsIInv ==
  ASSUME IInv, PushFails
  PROVE  IInv'
<1>1. elements' \in StackSetMaxT
  BY DEF PushFails
<1>2. /\ \E m \in Nat : Array(elements', m) /\ top \in 0 .. m
      /\ \A i \in 0 .. top - 1 : elements'[i] = elements[i]
  BY <1>1, ArrayOfPush
<1>3. top \in Nat
  BY DEF IInv, ArrayInv
<1> QED
  BY <1>2, <1>3 DEF IInv, PushFails, ArrayInv, Full, PointerInv, PointerKept

(* Removing the last element moves nothing. *)
LEMMA RemoveLast ==
  ASSUME IInv, top > 0, StackRemoveIndexT(top - 1)
  PROVE  elements' = elements /\ top' = top - 1
<1>1. PICK m \in Nat : Array(elements, m) /\ top \in 0 .. m
  BY DEF IInv, ArrayInv
<1>2. \A i \in 0 .. m - 1 : ~(top - 1 <= i /\ i < top - 1)
  BY <1>1
<1>3. elements' = [i \in 0 .. m - 1 |-> elements[i]]
  BY <1>1, <1>2 DEF StackRemoveIndexT, Array
<1> QED
  BY <1>1, <1>3 DEF StackRemoveIndexT, Array

LEMMA RemoveIInv ==
  ASSUME IInv, NEW k \in 0 .. top - 1, k = top - 1, StackRemoveIndexT(k)
  PROVE  IInv'
<1>1. top \in Nat
  BY DEF IInv, ArrayInv
<1>2. elements' = elements /\ top' = top - 1 /\ top > 0
  BY <1>1, RemoveLast
<1>3. ArrayInv' /\ Full'
  BY <1>1, <1>2 DEF IInv, ArrayInv, Full
<1> QED
  BY <1>3 DEF IInv, PointerInv, PointerKept, StackRemoveIndexT

LEMMA PopBottomIInv ==
  ASSUME IInv, StackPopBottomT
  PROVE  IInv'
<1>1. PICK m \in Nat : Array(elements, m) /\ top \in 0 .. m
  BY DEF IInv, ArrayInv
<1>2. bottom \in 0 .. top - 1 /\ bottom' = bottom + 1
  BY <1>1 DEF IInv, StackPopBottomT
<1>3. elements[bottom] \in Slots
  BY <1>1, <1>2 DEF IInv, Full, Array
<1> QED
  BY <1>2, <1>3 DEF IInv, ArrayInv, Full, PointerInv, PointerKept, StackPopBottomT

LEMMA NextIInv ==
  ASSUME ~FromMiddle, IInv, [Next]_vars
  PROVE  IInv'
<1>1. PICK m \in Nat : Array(elements, m) /\ top \in 0 .. m
  BY DEF IInv, ArrayInv
<1>2. Max = m
  BY <1>1, MaxOfArray DEF Max, Array
<1>3. ASSUME NEW v \in Values, StackPushT(v) \/ StackPushAscT(v)
      PROVE  IInv'
  BY <1>3, AddIInv DEF StackPushT, StackPushAscT
<1>4. CASE PushFails
  BY <1>4, PushFailsIInv
<1>5. CASE StackPopT
  BY <1>1, <1>5 DEF StackPopT, IInv, ArrayInv, Full, PointerInv, PointerKept
<1>6. CASE StackPopBottomT
  BY <1>6, PopBottomIInv
<1>7. CASE StackReinitT
  BY <1>1, <1>7 DEF StackReinitT, IInv, ArrayInv, Full, PointerInv, PointerKept
<1>8. ASSUME NEW k \in 0 .. top - 1, FromMiddle \/ k = top - 1, StackRemoveIndexT(k)
      PROVE  IInv'
  BY <1>8, RemoveIInv
<1>9. ASSUME NEW n \in 0 .. Max, StackSetTopT(n)
      PROVE  IInv'
  BY <1>1, <1>2, <1>9 DEF StackSetTopT, IInv, ArrayInv, Full, PointerInv, PointerKept
<1>10. ASSUME NEW b \in 0 .. Max, StackSetBottomT(b)
       PROVE  IInv'
  BY <1>1, <1>2, <1>10 DEF StackSetBottomT, IInv, ArrayInv, Full, PointerInv, PointerKept
<1>11. CASE UNCHANGED vars
  BY <1>11 DEF vars, IInv, ArrayInv, Full, PointerInv, PointerKept
<1> QED
  BY <1>3, <1>4, <1>5, <1>6, <1>7, <1>8, <1>9, <1>10, <1>11 DEF Next

-----------------------------------------------------------------------------
(* TypeOK of SlotStack: a failing allocation leaves no NULL below Top, and *)
(* no slot is in the array twice, above Top neither (Stack.c 1332-1395,    *)
(* 1889-1928): so no push overwrites a live structure and StackUninitT     *)
(* frees each slot once.                                                   *)
THEOREM SlotsDiffer == ~FromMiddle => (Spec => []TypeOK)
<1> SUFFICES ASSUME ~FromMiddle PROVE Spec => []TypeOK
  OBVIOUS
<1>1. Init => IInv
  BY InitIInv
<1>2. IInv /\ [Next]_vars => IInv'
  BY NextIInv
<1>3. IInv => TypeOK
  BY IInvTypeOK
<1> QED
  BY <1>1, <1>2, <1>3, PTL DEF Spec

(* PointerKept: what StackPopBottomT (Stack.c 2067-2082) has handed out    *)
(* does not change while the client pushes, which scan_control_list does   *)
(* all through a round.                                                    *)
THEOREM PointerStays == ~FromMiddle => (Spec => []PointerKept)
<1> SUFFICES ASSUME ~FromMiddle PROVE Spec => []PointerKept
  OBVIOUS
<1>1. Init => IInv
  BY InitIInv
<1>2. IInv /\ [Next]_vars => IInv'
  BY NextIInv
<1>3. IInv => PointerKept
  BY DEF IInv
<1> QED
  BY <1>1, <1>2, <1>3, PTL DEF Spec

-----------------------------------------------------------------------------
LEMMA ContentsSeq ==
  ASSUME IInv
  PROVE  /\ top \in Nat
         /\ contents \in Seq(Values \cup {NULL}) /\ Len(contents) = top
         /\ \A i \in 1 .. top : contents[i] = content[elements[i - 1]]
<1>1. PICK m \in Nat : Array(elements, m) /\ top \in 0 .. m
  BY DEF IInv, ArrayInv
<1>2. \A i \in 1 .. top : elements[i - 1] \in Slots
  BY <1>1 DEF IInv, Full, Array
<1>3. contents \in [1 .. top -> Values \cup {NULL}]
  BY <1>2 DEF contents, IInv
<1>4. contents \in Seq(Values \cup {NULL})
  BY <1>1, <1>3, IsASeq DEF contents
<1> QED
  BY <1>1, <1>3, <1>4, LenProperties DEF contents

(* The first values are those in the first slots. *)
LEMMA PrefixOfContents ==
  ASSUME IInv, NEW n \in 0 .. top
  PROVE  SubSeq(contents, 1, n) = [i \in 1 .. n |-> content[elements[i - 1]]]
<1>1. /\ top \in Nat /\ contents \in Seq(Values \cup {NULL}) /\ Len(contents) = top
      /\ \A i \in 1 .. top : contents[i] = content[elements[i - 1]]
  BY ContentsSeq
<1>2. \A i \in 1 .. n : contents[i] \in Values \cup {NULL}
  BY <1>1, ElementOfSeq
<1>3. /\ SubSeq(contents, 1, n) \in Seq(Values \cup {NULL})
      /\ Len(SubSeq(contents, 1, n)) = n
      /\ \A i \in 1 .. n : SubSeq(contents, 1, n)[i] = contents[i]
  <2>1. /\ SubSeq(contents, 1, n) \in Seq(Values \cup {NULL})
        /\ Len(SubSeq(contents, 1, n)) = IF 1 <= n THEN n - 1 + 1 ELSE 0
        /\ \A i \in 1 .. n - 1 + 1 : SubSeq(contents, 1, n)[i] = contents[1 + i - 1]
    BY <1>1, <1>2, SubSeqProperties
  <2> QED
    BY <1>1, <2>1
<1> QED
  BY <1>1, <1>3

LEMMA InsertAtIs ==
  ASSUME NEW S, NEW s \in Seq(S), NEW v \in S, NEW k \in 1 .. Len(s) + 1
  PROVE  /\ Abstract!InsertAt(s, k, v) \in Seq(S)
         /\ Len(Abstract!InsertAt(s, k, v)) = Len(s) + 1
         /\ \A i \in 1 .. Len(s) + 1 :
              Abstract!InsertAt(s, k, v)[i] = IF i < k THEN s[i]
                                              ELSE IF i = k THEN v ELSE s[i - 1]
<1>1. Abstract!InsertAt(s, k, v) = Lemmas!Inserted(s, k, v)
  BY DEF Abstract!InsertAt, Lemmas!Inserted
<1>2. /\ Lemmas!Inserted(s, k, v) \in Seq(S)
      /\ Len(Lemmas!Inserted(s, k, v)) = Len(s) + 1
      /\ \A i \in 1 .. Len(s) + 1 :
           Lemmas!Inserted(s, k, v)[i] = IF i < k THEN s[i] ELSE IF i = k THEN v ELSE s[i - 1]
  BY Lemmas!InsertedIs
<1> QED
  BY <1>1, <1>2

(* A push puts its value where its pointer goes, and changes no other. *)
LEMMA AddRefines ==
  ASSUME IInv, NEW v \in Values, NEW sorted \in BOOLEAN, Add(v, sorted)
  PROVE  IF sorted THEN Abstract!PushAsc(v) ELSE Abstract!Push(v)
<1> USE SlotAssumption
<1>1. PICK e \in StackSetMaxT : \E s \in IF top \in DOMAIN e THEN SlotAtTop(e) ELSE {} :
        \E k \in 0 .. top :
          /\ IF sorted THEN Sinks(e, s, [content EXCEPT ![s] = v], k) ELSE k = top
          /\ content' = [content EXCEPT ![s] = v]
          /\ elements' = Inserted(e, s, k) /\ top' = top + 1
          /\ UNCHANGED <<bottom, element, seen>>
  BY DEF Add
<1>2. PICK m \in Nat : Array(e, m) /\ top \in 0 .. m
  BY ArrayOfPush
<1>3. \A i \in 0 .. top - 1 : e[i] = elements[i]
  BY ArrayOfPush
<1>4. top \in 0 .. m - 1
  BY <1>1, <1>2 DEF Array
<1>5. PICK s \in SlotAtTop(e), k \in 0 .. top :
          /\ IF sorted THEN Sinks(e, s, [content EXCEPT ![s] = v], k) ELSE k = top
          /\ content' = [content EXCEPT ![s] = v]
          /\ elements' = Inserted(e, s, k) /\ top' = top + 1
          /\ UNCHANGED <<bottom, element, seen>>
  BY <1>1
<1>6. s \in Slots /\ s # NULL /\ \A i \in 0 .. m - 1 : e[i] = s => i = top
  BY <1>2, <1>4, SlotOfPush
<1>7. elements' = [i \in 0 .. m - 1 |-> IF i < k \/ i > top THEN e[i]
                                        ELSE IF i = k THEN s ELSE e[i - 1]]
  BY <1>2, <1>5 DEF Inserted, Array
<1>8. content'[s] = v /\ \A i \in 0 .. top - 1 : content'[e[i]] = content[elements[i]]
  BY <1>2, <1>3, <1>4, <1>5, <1>6 DEF IInv, Full, Array
<1>9. /\ contents \in Seq(Values \cup {NULL}) /\ Len(contents) = top
      /\ \A i \in 1 .. top : contents[i] = content[elements[i - 1]]
  BY ContentsSeq
<1>10. contents' = [i \in 1 .. top + 1 |-> content'[elements'[i - 1]]]
  BY <1>5 DEF contents
<1>11. \A i \in 1 .. top + 1 :
         content'[elements'[i - 1]] = IF i < k + 1 THEN contents[i]
                                      ELSE IF i = k + 1 THEN v ELSE contents[i - 1]
  <2> TAKE i \in 1 .. top + 1
  <2>1. CASE i < k + 1
    <3>1. elements'[i - 1] = e[i - 1] /\ i - 1 \in 0 .. top - 1
      BY <1>2, <1>4, <1>7, <2>1
    <3> QED
      BY <1>4, <1>8, <1>9, <2>1, <3>1
  <2>2. CASE i = k + 1
    BY <1>2, <1>4, <1>7, <1>8, <2>2
  <2>3. CASE i > k + 1
    <3>1. elements'[i - 1] = e[i - 2] /\ i - 2 \in 0 .. top - 1
      BY <1>2, <1>4, <1>7, <2>3
    <3> QED
      BY <1>4, <1>8, <1>9, <2>3, <3>1
  <2> QED
    BY <1>4, <2>1, <2>2, <2>3
<1>12. contents' = Abstract!InsertAt(contents, k + 1, v)
  <2> DEFINE ins == Abstract!InsertAt(contents, k + 1, v)
  <2> DEFINE D == Values \cup {NULL}
             p == k + 1
  <2>1. contents \in Seq(D) /\ p \in 1 .. Len(contents) + 1 /\ v \in D
    BY <1>4, <1>9
  <2>2. /\ Len(ins) = top + 1
        /\ \A i \in 1 .. top + 1 : ins[i] = IF i < k + 1 THEN contents[i]
                                            ELSE IF i = k + 1 THEN v ELSE contents[i - 1]
        /\ ins \in Seq(D)
    <3> HIDE DEF D, p
    <3>1. Abstract!InsertAt(contents, p, v) \in Seq(D)
      BY <2>1, InsertAtIs
    <3>2. Len(Abstract!InsertAt(contents, p, v)) = Len(contents) + 1
      BY <2>1, InsertAtIs
    <3>3. \A i \in 1 .. Len(contents) + 1 :
            Abstract!InsertAt(contents, p, v)[i]
              = IF i < p THEN contents[i] ELSE IF i = p THEN v ELSE contents[i - 1]
      BY <2>1, InsertAtIs
    <3> QED
      BY <1>9, <3>1, <3>2, <3>3 DEF p
  <2> HIDE DEF ins
  <2>3. ins = [i \in 1 .. top + 1 |-> ins[i]]
    BY <2>2, LenProperties
  <2>4. \A i \in 1 .. top + 1 : ins[i] = content'[elements'[i - 1]]
    BY <1>11, <2>2
  <2>5. contents' = ins
    BY <1>10, <2>3, <2>4
  <2> QED
    BY <2>5 DEF ins
<1>13. CASE sorted
  <2>1. k > 0 => contents[k] <= v
    BY <1>2, <1>4, <1>5, <1>8, <1>9, <1>13 DEF Sinks
  <2>2. \A j \in k + 1 .. Len(contents) : contents[j] > v
    <3> TAKE j \in k + 1 .. Len(contents)
    <3>1. j - 1 \in k .. top - 1 /\ j - 1 \in 0 .. top - 1
      BY <1>4, <1>9
    <3>2. content'[e[j - 1]] > content'[s]
      BY <1>5, <1>13, <3>1 DEF Sinks
    <3> QED
      BY <1>4, <1>8, <1>9, <3>1, <3>2
  <2> QED
    BY <1>4, <1>5, <1>9, <1>12, <1>13, <2>1, <2>2 DEF Abstract!PushAsc
<1>14. CASE ~sorted
  <2>1. k = top
    BY <1>5, <1>14
  <2>2. contents' = Append(contents, v)
    <3> DEFINE app == Append(contents, v)
    <3>1. /\ app \in Seq(Values \cup {NULL}) /\ Len(app) = top + 1
          /\ \A i \in 1 .. top : app[i] = contents[i]
          /\ app[top + 1] = v
      BY <1>9, AppendProperties
    <3> HIDE DEF app
    <3>2. app = [i \in 1 .. top + 1 |-> app[i]]
      BY <3>1, LenProperties
    <3>3. \A i \in 1 .. top + 1 : app[i] = content'[elements'[i - 1]]
      BY <1>4, <1>11, <2>1, <3>1
    <3>4. contents' = app
      BY <1>10, <3>2, <3>3
    <3> QED
      BY <3>4 DEF app
  <2> QED
    BY <1>5, <1>14, <2>2 DEF Abstract!Push
<1> QED
  BY <1>13, <1>14

(* The stack gets shorter: the values above the new top are gone. *)
LEMMA ShorterIsPrefix ==
  ASSUME IInv, NEW n \in 0 .. top, top' = n, UNCHANGED <<elements, content>>
  PROVE  contents' = SubSeq(contents, 1, n)
<1>1. contents' = [i \in 1 .. n |-> content[elements[i - 1]]]
  BY DEF contents
<1> QED
  BY <1>1, PrefixOfContents

LEMMA LastGone ==
  ASSUME IInv, top > 0, top' = top - 1, UNCHANGED <<elements, content, bottom>>
  PROVE  Abstract!Pop
<1>1. top \in Nat /\ Len(contents) = top
  BY ContentsSeq
<1>2. contents' = SubSeq(contents, 1, top - 1)
  BY <1>1, ShorterIsPrefix
<1> QED
  BY <1>1, <1>2 DEF Abstract!Pop, Abstract!Front

LEMMA StepRefines ==
  ASSUME ~FromMiddle, IInv, [Next]_vars
  PROVE  [Abstract!Next]_(Abstract!vars)
<1>1. /\ top \in Nat /\ contents \in Seq(Values \cup {NULL}) /\ Len(contents) = top
      /\ DOMAIN contents = 1 .. top
  BY ContentsSeq DEF contents
<1>2. PICK m \in Nat : Array(elements, m) /\ top \in 0 .. m
  BY DEF IInv, ArrayInv
<1>3. Max = m
  BY <1>2, MaxOfArray DEF Max, Array
<1>4. ASSUME NEW v \in Values, StackPushT(v) \/ StackPushAscT(v)
      PROVE  Abstract!Push(v) \/ Abstract!PushAsc(v)
  BY <1>4, AddRefines DEF StackPushT, StackPushAscT
<1>5. CASE PushFails
  <2>1. \A i \in 0 .. top - 1 : elements'[i] = elements[i]
    BY <1>5, ArrayOfPush DEF PushFails
  <2>2. contents' = contents
    BY <1>1, <1>5, <2>1 DEF PushFails, contents
  <2> QED
    BY <1>5, <2>2 DEF PushFails, Abstract!vars
<1>6. CASE StackPopT
  BY <1>6, LastGone DEF StackPopT, Abstract!Next
<1>7. CASE StackPopBottomT
  <2>1. contents' = contents
    BY <1>7 DEF StackPopBottomT, contents
  <2> QED
    BY <1>1, <1>7, <2>1 DEF StackPopBottomT, Abstract!PopBottom, Abstract!Next
<1>8. CASE StackReinitT
  <2>1. contents' = << >>
    BY <1>8 DEF StackReinitT, contents
  <2> QED
    BY <1>8, <2>1 DEF StackReinitT, Abstract!Clear, Abstract!Next
<1>9. ASSUME NEW k \in 0 .. top - 1, FromMiddle \/ k = top - 1, StackRemoveIndexT(k)
      PROVE  Abstract!Pop
  <2>1. elements' = elements /\ top' = top - 1 /\ top > 0
    BY <1>1, <1>9, RemoveLast
  <2> QED
    BY <1>9, <2>1, LastGone DEF StackRemoveIndexT
<1>10. ASSUME NEW n \in 0 .. Max, StackSetTopT(n)
       PROVE  Abstract!Next
  <2>1. n \in 0 .. top /\ n + 1 \in DOMAIN contents /\ (n + 1) - 1 = n
    BY <1>1, <1>3, <1>10 DEF StackSetTopT
  <2>2. contents' = SubSeq(contents, 1, n) /\ UNCHANGED bottom
    BY <1>10, <2>1, ShorterIsPrefix DEF StackSetTopT
  <2>3. Abstract!Cut((n + 1) - 1)
    BY <2>1, <2>2 DEF Abstract!Cut
  <2> QED
    BY <2>1, <2>3 DEF Abstract!Next
<1>11. ASSUME NEW b \in 0 .. Max, StackSetBottomT(b)
       PROVE  Abstract!Next
  <2>1. bottom' \in 0 .. Len(contents)
    BY <1>1, <1>3, <1>11 DEF StackSetBottomT
  <2>2. contents' = contents
    BY <1>11 DEF StackSetBottomT, contents
  <2>3. Abstract!Rewind(bottom')
    BY <1>1, <2>1, <2>2 DEF Abstract!Rewind
  <2> QED
    BY <2>1, <2>3 DEF Abstract!Next
<1>12. CASE UNCHANGED vars
  <2>1. contents' = contents /\ bottom' = bottom
    BY <1>12 DEF vars, contents
  <2> QED
    BY <2>1 DEF Abstract!vars
<1>13. (\E v \in Values : Abstract!Push(v) \/ Abstract!PushAsc(v)) \/ Abstract!Pop => Abstract!Next
  BY DEF Abstract!Next
<1> QED
  BY <1>4, <1>5, <1>6, <1>7, <1>8, <1>9, <1>10, <1>11, <1>12, <1>13 DEF Next

(* ImplementsValueStack: whatever slots are used again and whatever        *)
(* allocations fail, the clients of Stack.c see a sequence of values that  *)
(* is pushed at its top or in order, popped and cut at its top and read    *)
(* from its bottom.                                                        *)
THEOREM Refinement == ~FromMiddle => (Spec => ImplementsValueStack)
<1> SUFFICES ASSUME ~FromMiddle PROVE Spec => ImplementsValueStack
  OBVIOUS
<1>1. Init => IInv
  BY InitIInv
<1>2. IInv /\ [Next]_vars => IInv'
  BY NextIInv
<1>3. Init => Abstract!Init
  BY DEF Init, Abstract!Init, contents
<1>4. IInv /\ [Next]_vars => [Abstract!Next]_(Abstract!vars)
  BY StepRefines
<1> QED
  BY <1>1, <1>2, <1>3, <1>4, PTL DEF Spec, ImplementsValueStack, Abstract!Spec

-----------------------------------------------------------------------------
(* The searches *)

(* The range that is still searched, and what is known of the rest. *)
LoopInv ==
  pc = "loop" =>
    /\ start <= mid /\ mid <= end
    /\ mid = end => start = end
    /\ result = 0
    /\ \A k \in Indices : k < start => Before(stack[k], wanted)
    /\ \A k \in Indices : k >= end => Before(wanted, stack[k])

(* What Result will be made from, for each kind of search. *)
EqualInv ==
  pc = "end" /\ search.want = "equal" =>
    IF result = 0 THEN \A k \in Indices : stack[k] # wanted
                  ELSE stack[result - 1] = wanted

NextInv ==
  pc = "end" /\ search.want \in {"next", "equal or next"} =>
    \A k \in Indices : Behind(k) <=> k >= end

LastInv ==
  pc = "end" /\ search.want = "last" =>
    \A k \in Indices : Before(stack[k], wanted) <=> k < Result

EndInv == EqualInv /\ NextInv /\ LastInv

SearchIInv == SearchTypeOK /\ LoopInv /\ EndInv /\ FindsEqual /\ FindsNext /\ FindsLast

-----------------------------------------------------------------------------
(* The middle lies in the range, and below its end unless it is empty.  The
   sum of the halves and of the carry is the half of the sum. *)
LEMMA MiddleInRange ==
  ASSUME NEW s \in Nat, NEW e \in Nat, s <= e
  PROVE  /\ Middle(s, e) \in Nat
         /\ s <= Middle(s, e) /\ Middle(s, e) <= e
         /\ Middle(s, e) = e => s = e
BY DEF Middle

(* Before is the order of the stack, and no two numbers are unordered. *)
LEMMA Order ==
  ASSUME NEW x \in Int, NEW y \in Int, NEW z \in Int
  PROVE  /\ ~Before(x, x)
         /\ Before(x, y) => ~Before(y, x)
         /\ Before(x, y) \/ Before(y, x) \/ x = y
         /\ ~Before(y, x) /\ Before(y, z) => Before(x, z)
         /\ Before(x, y) /\ ~Before(z, y) => Before(x, z)
BY DEF Before

(* The step leaves what the search was given, and so what the properties say
   of it, alone. *)
LEMMA InputKept ==
  ASSUME UNCHANGED input, SearchTypeOK
  PROVE  /\ search' = search /\ size' = size
         /\ stack' = stack /\ wanted' = wanted
         /\ Indices' = Indices
         /\ Sorted' = Sorted /\ Strict' = Strict
         /\ \A x, y : Before(x, y)' = Before(x, y)
         /\ \A k : Behind(k)' = Behind(k)
<1>1. /\ search' = search /\ size' = size
      /\ stack' = stack /\ wanted' = wanted
  BY DEF input
<1>2. Indices' = Indices
  BY <1>1 DEF Indices
<1>3. \A x, y : Before(x, y)' = Before(x, y)
  BY <1>1 DEF Before
<1> QED
  BY <1>1, <1>2, <1>3 DEF Sorted, Strict, Behind

(* What is left to show of a step is the type of the locals. *)
LEMMA TypeKept ==
  ASSUME SearchTypeOK, UNCHANGED input,
         start' \in 0 .. size, end' \in 0 .. size, mid' \in 0 .. size,
         pc' \in {"loop", "end", "done"}, result' \in 0 .. size
  PROVE  SearchTypeOK'
<1>1. /\ search' = search /\ size' = size /\ stack' = stack
      /\ wanted' = wanted /\ Indices' = Indices
      /\ Sorted' = Sorted /\ Strict' = Strict
  BY InputKept
<1>2. /\ (search \in AllSearches)' /\ (size \in Nat)' /\ (wanted \in Int)'
      /\ (stack \in [Indices -> Int])'
      /\ Sorted' /\ (search.want # "equal" => Strict)'
  BY <1>1 DEF SearchTypeOK, AllSearches
<1>3. /\ (start \in 0 .. size)' /\ (end \in 0 .. size)' /\ (mid \in 0 .. size)'
      /\ (result \in 0 .. size)'
  BY <1>1
<1> QED
  BY <1>2, <1>3 DEF SearchTypeOK

LEMMA SearchInitIInv == SearchInit => SearchIInv
<1> SUFFICES ASSUME SearchInit PROVE SearchIInv
  OBVIOUS
<1>1. SearchTypeOK
  <2>1. size \in Nat /\ stack \in [Indices -> Int] /\ wanted \in Int
    <3>1. stack \in [Indices -> Numbers] /\ Numbers \subseteq Int
      BY SearchAssumption DEF SearchInit
    <3>2. \A i \in Indices : stack[i] \in Int
      BY <3>1
    <3>3. stack = [i \in Indices |-> stack[i]]
      BY <3>1
    <3> QED
      BY <3>2, <3>3, SearchAssumption DEF SearchInit
  <2>2. /\ start \in 0 .. size /\ end \in 0 .. size /\ mid \in 0 .. size
        /\ result \in 0 .. size /\ pc \in {"loop", "end", "done"}
    BY <2>1 DEF SearchInit
  <2>3. search \in AllSearches /\ Sorted /\ (search.want # "equal" => Strict)
    BY SearchAssumption DEF SearchInit
  <2> QED
    BY <2>1, <2>2, <2>3 DEF SearchTypeOK
<1>2. LoopInv
  BY <1>1 DEF SearchInit, LoopInv, SearchTypeOK, Indices
<1>3. EndInv
  BY DEF SearchInit, EndInv, EqualInv, NextInv, LastInv
<1>4. result = 0 /\ (pc = "done" => \A k \in Indices : FALSE)
  BY DEF SearchInit, Indices
<1>5. FindsEqual /\ FindsNext /\ FindsLast
  <2>1. FindsEqual
    BY <1>4 DEF FindsEqual
  <2>2. FindsNext
    BY <1>4 DEF FindsNext
  <2>3. FindsLast
    BY <1>4 DEF FindsLast
  <2> QED
    BY <2>1, <2>2, <2>3
<1> QED
  BY <1>1, <1>2, <1>3, <1>5 DEF SearchIInv

-----------------------------------------------------------------------------
(* A round that goes up: what is left of the middle stands before it. *)
LEMMA GoUpIInv ==
  ASSUME SearchIInv, GoUp
  PROVE  SearchIInv'
<1> USE DEF SearchIInv, GoUp
<1>1. UNCHANGED input /\ UNCHANGED <<end, pc, result>> /\ pc' = "loop"
  OBVIOUS
<1>2. /\ start \in Nat /\ mid \in Nat /\ end \in Nat /\ size \in Nat
      /\ mid < end /\ end <= size /\ mid \in Indices
  BY DEF SearchTypeOK, Indices
<1>3. /\ start' = mid + 1 /\ mid' \in Nat /\ start' <= mid' /\ mid' <= end
      /\ mid' = end => start' = end
  BY <1>2, MiddleInRange
<1>4. SearchTypeOK'
  <2>1. /\ start' \in 0 .. size /\ end' \in 0 .. size /\ mid' \in 0 .. size
        /\ result' \in 0 .. size
    BY <1>1, <1>2, <1>3 DEF SearchTypeOK
  <2> QED
    BY <1>1, <2>1, TypeKept
<1>5. \A k \in Indices : k < start' => Before(stack[k], wanted)
  <2> SUFFICES ASSUME NEW k \in Indices, k < mid + 1
               PROVE  Before(stack[k], wanted)
    BY <1>3
  <2>1. k = mid \/ ~Before(stack[mid], stack[k])
    BY <1>2 DEF SearchTypeOK, Sorted, Indices
  <2>2. stack[k] \in Int /\ stack[mid] \in Int /\ wanted \in Int
    BY <1>2 DEF SearchTypeOK
  <2> QED
    BY <2>1, <2>2, Order
<1>6. LoopInv'
  BY <1>1, <1>3, <1>5, InputKept DEF LoopInv
<1>7. EndInv' /\ FindsEqual' /\ FindsNext' /\ FindsLast'
  BY <1>1 DEF EndInv, EqualInv, NextInv, LastInv, FindsEqual, FindsNext, FindsLast
<1> QED
  BY <1>4, <1>6, <1>7

(* A round that goes down: what is right of the middle stands behind it. *)
LEMMA GoDownIInv ==
  ASSUME SearchIInv, GoDown
  PROVE  SearchIInv'
<1> USE DEF SearchIInv, GoDown
<1>1. UNCHANGED input /\ UNCHANGED <<start, pc, result>> /\ pc' = "loop"
  OBVIOUS
<1>2. /\ start \in Nat /\ mid \in Nat /\ end \in Nat /\ size \in Nat
      /\ start <= mid /\ mid < end /\ end <= size /\ mid \in Indices
  BY DEF SearchTypeOK, Indices, LoopInv
<1>3. /\ end' = mid /\ mid' \in Nat /\ start <= mid' /\ mid' <= mid
      /\ mid' = mid => start = mid
  BY <1>2, MiddleInRange
<1>4. SearchTypeOK'
  <2>1. /\ start' \in 0 .. size /\ end' \in 0 .. size /\ mid' \in 0 .. size
        /\ result' \in 0 .. size
    BY <1>1, <1>2, <1>3 DEF SearchTypeOK
  <2> QED
    BY <1>1, <2>1, TypeKept
<1>5. \A k \in Indices : k >= end' => Before(wanted, stack[k])
  <2> SUFFICES ASSUME NEW k \in Indices, k >= mid
               PROVE  Before(wanted, stack[k])
    BY <1>3
  <2>1. k = mid \/ ~Before(stack[k], stack[mid])
    BY <1>2 DEF SearchTypeOK, Sorted, Indices
  <2>2. stack[k] \in Int /\ stack[mid] \in Int /\ wanted \in Int
    BY <1>2 DEF SearchTypeOK
  <2> QED
    BY <2>1, <2>2, Order
<1>6. LoopInv'
  BY <1>1, <1>3, <1>5, InputKept DEF LoopInv
<1>7. EndInv' /\ FindsEqual' /\ FindsNext' /\ FindsLast'
  BY <1>1 DEF EndInv, EqualInv, NextInv, LastInv, FindsEqual, FindsNext, FindsLast
<1> QED
  BY <1>4, <1>6, <1>7

(* What Hit does for each kind of search. *)
LEMMA HitBounds ==
  ASSUME Hit
  PROVE  /\ UNCHANGED input /\ mid' = mid /\ pc' = "end"
         /\ search.want = "equal" =>
              start' = start /\ end' = end /\ result' = mid + 1
         /\ search.want = "next" =>
              start' = start /\ end' = mid + 1 /\ result' = result
         /\ search.want = "equal or next" =>
              start' = start /\ end' = mid /\ result' = result
         /\ search.want = "last" =>
              /\ start' = (IF mid > 0 THEN mid - 1 ELSE mid)
              /\ end' = end /\ result' = result
         /\ search.want = "equal or last" =>
              start' = mid /\ end' = end /\ result' = result
BY DEF Hit

(* An equal element: its neighbours divide the stack. *)
LEMMA HitIInv ==
  ASSUME SearchIInv, Hit
  PROVE  SearchIInv'
<1> USE DEF SearchIInv
<1>1. UNCHANGED input /\ mid' = mid /\ pc' = "end"
  BY HitBounds
<1>2. /\ start \in Nat /\ mid \in Nat /\ end \in Nat /\ size \in Nat
      /\ mid < end /\ start <= size /\ end <= size /\ mid \in Indices
      /\ mid \in 0 .. size /\ mid + 1 \in 0 .. size
  <2>1. mid < end
    BY DEF Hit
  <2> QED
    BY <2>1 DEF SearchTypeOK, Indices
<1>a. result = 0 /\ stack[mid] = wanted
  BY DEF Hit, LoopInv
<1>b. wanted \in Int /\ \A k \in Indices : k \in Int /\ stack[k] \in Int
  BY DEF SearchTypeOK, Indices
<1>c. LoopInv' /\ FindsEqual' /\ FindsNext' /\ FindsLast'
  BY <1>1 DEF LoopInv, FindsEqual, FindsNext, FindsLast
<1>3. CASE search.want = "equal"
  <2>1. start' = start /\ end' = end /\ result' = mid + 1
    BY <1>3, HitBounds
  <2>2. SearchTypeOK'
    BY <1>1, <1>2, <2>1, TypeKept DEF SearchTypeOK
  <2>3. EqualInv'
    <3>1. result' # 0 /\ stack[result' - 1] = wanted
      BY <1>2, <1>a, <2>1
    <3>2. stack' = stack /\ wanted' = wanted
      BY <1>1, InputKept
    <3> QED
      BY <3>1, <3>2 DEF EqualInv
  <2>4. NextInv' /\ LastInv'
    BY <1>1, <1>3, InputKept DEF NextInv, LastInv
  <2> QED
    BY <1>c, <2>2, <2>3, <2>4 DEF EndInv
<1>4. ASSUME search.want # "equal", NEW k \in Indices
      PROVE  /\ Before(stack[k], wanted) <=> k < mid
             /\ Before(wanted, stack[k]) <=> k > mid
             /\ stack[k] = wanted <=> k = mid
  <2>1. Strict
    BY <1>4 DEF SearchTypeOK
  <2>2. /\ k < mid => Before(stack[k], stack[mid])
        /\ k > mid => Before(stack[mid], stack[k])
    BY <1>2, <2>1 DEF Strict
  <2>3. k < mid \/ k = mid \/ k > mid
    BY <1>2, <1>b
  <2>4. CASE k < mid
    BY <1>2, <1>a, <1>b, <2>2, <2>4, Order
  <2>5. CASE k > mid
    BY <1>2, <1>a, <1>b, <2>2, <2>5, Order
  <2>6. CASE k = mid
    BY <1>2, <1>a, <1>b, <2>6, Order
  <2> QED
    BY <2>3, <2>4, <2>5, <2>6
<1>5. CASE search.want \in {"next", "equal or next"}
  <2>1. /\ start' = start /\ result' = 0
        /\ end' = (IF search.want = "next" THEN mid + 1 ELSE mid)
    BY <1>5, <1>a, HitBounds
  <2>2. SearchTypeOK'
    BY <1>1, <1>2, <2>1, TypeKept DEF SearchTypeOK
  <2>3. NextInv'
    <3>1. ASSUME NEW k \in Indices
          PROVE  Behind(k) <=> k >= end'
      <4>1. /\ Before(wanted, stack[k]) <=> k > mid
            /\ stack[k] = wanted <=> k = mid
        BY <1>4, <1>5
      <4>2. k \in Int /\ mid \in Int
        BY <1>2, <1>b
      <4>3. CASE search.want = "next"
        BY <2>1, <4>1, <4>2, <4>3 DEF Behind
      <4>4. CASE search.want = "equal or next"
        <5>1. end' = mid
          BY <2>1, <4>4
        <5>2. Behind(k) <=> k > mid \/ k = mid
          BY <4>1, <4>4 DEF Behind
        <5> QED
          BY <4>2, <5>1, <5>2
      <4> QED
        BY <1>5, <4>3, <4>4
    <3> QED
      BY <1>1, <3>1, InputKept DEF NextInv
  <2>4. EqualInv' /\ LastInv'
    BY <1>1, <1>5, InputKept DEF EqualInv, LastInv
  <2> QED
    BY <1>c, <2>2, <2>3, <2>4 DEF EndInv
<1>6. CASE search.want \in {"last", "equal or last"}
  <2>1. /\ end' = end /\ result' = 0
        /\ start' = mid \/ (mid > 0 /\ start' = mid - 1)
        /\ search.want = "last" => start' = (IF mid > 0 THEN mid - 1 ELSE mid)
    BY <1>2, <1>6, <1>a, HitBounds
  <2>2. SearchTypeOK'
    <3>1. start' \in 0 .. size
      BY <1>2, <2>1
    <3> QED
      BY <1>1, <1>2, <2>1, <3>1, TypeKept DEF SearchTypeOK
  <2>3. LastInv'
    <3>1. ASSUME search.want = "last"
          PROVE  Result' = mid
      <4>1. Result' = IF start' < mid THEN start' + 1 ELSE start'
        BY <1>1, <3>1, InputKept DEF Result
      <4> QED
        BY <1>2, <2>1, <3>1, <4>1
    <3> QED
      BY <1>1, <1>4, <3>1, InputKept DEF LastInv
  <2>4. EqualInv' /\ NextInv'
    BY <1>1, <1>6, InputKept DEF EqualInv, NextInv
  <2> QED
    BY <1>c, <2>2, <2>3, <2>4 DEF EndInv
<1> QED
  BY <1>3, <1>5, <1>6 DEF SearchTypeOK, AllSearches, Wants

(* The range is empty: every element stands before or behind. *)
LEMMA MissIInv ==
  ASSUME SearchIInv, Miss
  PROVE  SearchIInv'
<1> USE DEF SearchIInv, Miss
<1>1. /\ UNCHANGED input /\ UNCHANGED <<start, end, mid, result>> /\ pc' = "end"
  OBVIOUS
<1>2. /\ start \in Nat /\ mid = start /\ end = start /\ size \in Nat
      /\ end <= size /\ result = 0 /\ wanted \in Int
      /\ \A k \in Indices : stack[k] \in Int /\ k \in Int
  BY DEF SearchTypeOK, LoopInv, Indices
<1>3. \A k \in Indices : /\ Before(stack[k], wanted) <=> k < start
                         /\ Before(wanted, stack[k]) <=> k >= start
                         /\ stack[k] # wanted
  <2> SUFFICES ASSUME NEW k \in Indices
               PROVE  /\ Before(stack[k], wanted) <=> k < start
                      /\ Before(wanted, stack[k]) <=> k >= start
                      /\ stack[k] # wanted
    OBVIOUS
  <2>1. /\ k < start => Before(stack[k], wanted)
        /\ k >= start => Before(wanted, stack[k])
        /\ k < start \/ k >= start
    BY <1>2 DEF LoopInv
  <2> QED
    BY <1>2, <2>1, Order
<1>4. SearchTypeOK'
  BY <1>1, TypeKept DEF SearchTypeOK
<1>5. EqualInv'
  BY <1>1, <1>2, <1>3, InputKept DEF EqualInv
<1>6. NextInv'
  BY <1>1, <1>2, <1>3, InputKept DEF NextInv, Behind
<1>7. LastInv'
  <2>1. ASSUME search.want = "last"
        PROVE  Result' = start
    <3>1. Result' = IF start' < mid' THEN start' + 1 ELSE start'
      BY <1>1, <2>1, InputKept DEF Result
    <3> QED
      BY <1>1, <1>2, <3>1
  <2> QED
    BY <1>1, <1>3, <2>1, InputKept DEF LastInv
<1> QED
  BY <1>1, <1>4, <1>5, <1>6, <1>7 DEF EndInv, LoopInv, FindsEqual, FindsNext, FindsLast

(* The result is made from the bound that divides the stack. *)
LEMMA ReturnIInv ==
  ASSUME SearchIInv, Return
  PROVE  SearchIInv'
<1> USE DEF SearchIInv
<1>1. /\ UNCHANGED input /\ UNCHANGED <<start, end, mid>>
      /\ pc = "end" /\ pc' = "done" /\ result' = Result
  BY DEF Return
<1>2. /\ size \in Nat /\ start \in 0 .. size /\ end \in 0 .. size /\ mid \in 0 .. size
      /\ result \in 0 .. size /\ \A k \in Indices : k \in Nat /\ k < size
  BY DEF SearchTypeOK, Indices
<1>3. LoopInv' /\ EndInv'
  BY <1>1 DEF LoopInv, EndInv, EqualInv, NextInv, LastInv
<1>4. CASE search.want = "equal"
  <2>1. Result = result
    BY <1>4 DEF Result
  <2>2. SearchTypeOK'
    BY <1>1, <1>2, <2>1, TypeKept
  <2>3. FindsEqual'
    BY <1>1, <1>4, <2>1, InputKept DEF EndInv, EqualInv, FindsEqual
  <2> QED
    BY <1>1, <1>3, <1>4, <2>2, <2>3, InputKept DEF FindsNext, FindsLast
<1>5. CASE search.want \in {"next", "equal or next"}
  <2>1. Result = IF end < size THEN end + 1 ELSE 0
    BY <1>5 DEF Result
  <2>2. SearchTypeOK'
    BY <1>1, <1>2, <2>1, TypeKept
  <2>3. \A k \in Indices : Behind(k) <=> k >= end
    BY <1>1, <1>5 DEF EndInv, NextInv
  <2>4. FindsNext'
    <3>1. CASE end < size
      <4>1. end \in Indices
        BY <1>2, <3>1 DEF Indices
      <4>2. result' = end + 1
        BY <1>1, <2>1, <3>1
      <4>3. \A k \in Indices : k < result' - 1 => ~Behind(k)
        BY <1>2, <2>3, <4>2
      <4>4. result' # 0 /\ Behind(result' - 1)
        BY <1>2, <2>3, <4>1, <4>2
      <4> QED
        BY <1>1, <4>3, <4>4, InputKept DEF FindsNext
    <3>2. CASE end = size
      <4>1. result' = 0
        BY <1>1, <1>2, <2>1, <3>2
      <4>2. \A k \in Indices : ~Behind(k)
        BY <1>2, <2>3, <3>2
      <4> QED
        BY <1>1, <4>1, <4>2, InputKept DEF FindsNext
    <3> QED
      BY <1>2, <3>1, <3>2
  <2> QED
    BY <1>1, <1>3, <1>5, <2>2, <2>4, InputKept DEF FindsEqual, FindsLast
<1>6. CASE search.want \in {"last", "equal or last"}
  <2>1. Result = IF start < mid THEN start + 1 ELSE start
    BY <1>6 DEF Result
  <2>2. Result \in 0 .. size
    BY <1>2, <2>1
  <2>3. SearchTypeOK'
    BY <1>1, <1>2, <2>2, TypeKept
  <2>4. FindsLast'
    <3>1. ASSUME search.want = "last"
          PROVE  /\ \A k \in Indices : k >= result' => ~Before(stack[k], wanted)
                 /\ result' > 0 => Before(stack[result' - 1], wanted)
      <4>1. \A k \in Indices : Before(stack[k], wanted) <=> k < result'
        BY <1>1, <3>1 DEF EndInv, LastInv
      <4>2. PICK r \in 0 .. size : r = result'
        BY <1>1, <2>2
      <4>3. \A k \in Indices : k >= r => ~(k < r)
        BY <1>2
      <4>4. r > 0 => r - 1 \in Indices /\ r - 1 < r
        BY <1>2 DEF Indices
      <4> QED
        BY <4>1, <4>2, <4>3, <4>4
    <3> QED
      BY <1>1, <3>1, InputKept DEF FindsLast
  <2> QED
    BY <1>1, <1>3, <1>6, <2>3, <2>4, InputKept DEF FindsEqual, FindsNext
<1> QED
  BY <1>4, <1>5, <1>6 DEF SearchTypeOK, AllSearches, Wants

LEMMA StutterIInv ==
  ASSUME SearchIInv, UNCHANGED searchVars
  PROVE  SearchIInv'
<1>1. UNCHANGED input /\ UNCHANGED <<start, end, mid, pc, result>>
  BY DEF searchVars
<1>2. Result' = Result
  BY <1>1, InputKept DEF SearchIInv, Result
<1>3. SearchTypeOK'
  BY <1>1, TypeKept DEF SearchIInv, SearchTypeOK
<1>4. LoopInv' /\ EndInv'
  BY <1>1, <1>2, InputKept DEF SearchIInv, LoopInv, EndInv, EqualInv, NextInv, LastInv
<1>5. FindsEqual' /\ FindsNext' /\ FindsLast'
  BY <1>1, InputKept DEF SearchIInv, FindsEqual, FindsNext, FindsLast
<1> QED
  BY <1>3, <1>4, <1>5 DEF SearchIInv

-----------------------------------------------------------------------------
LEMMA Invariance == SearchSpec => []SearchIInv
<1>1. SearchIInv /\ [SearchNext]_searchVars => SearchIInv'
  BY GoUpIInv, GoDownIInv, HitIInv, MissIInv, ReturnIInv, StutterIInv
  DEF SearchNext, Returned
<1> QED
  BY SearchInitIInv, <1>1, PTL DEF SearchSpec

(* No search reads outside the stack or returns more than its top. *)
THEOREM ResultInStack == SearchSpec => []SearchTypeOK
<1>1. SearchIInv => SearchTypeOK
  BY DEF SearchIInv
<1> QED
  BY Invariance, <1>1, PTL

(* StackFindAsc and StackFindDsc miss no equal element. *)
THEOREM EqualFound == SearchSpec => []FindsEqual
<1>1. SearchIInv => FindsEqual
  BY DEF SearchIInv
<1> QED
  BY Invariance, <1>1, PTL

(* The four searches for the next element return the nearest one. *)
THEOREM NextFound == SearchSpec => []FindsNext
<1>1. SearchIInv => FindsNext
  BY DEF SearchIInv
<1> QED
  BY Invariance, <1>1, PTL

(* The two searches for the last element before return the nearest one. *)
THEOREM LastFound == SearchSpec => []FindsLast
<1>1. SearchIInv => FindsLast
  BY DEF SearchIInv
<1> QED
  BY Invariance, <1>1, PTL
=============================================================================
