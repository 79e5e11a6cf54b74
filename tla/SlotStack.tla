----------------------------- MODULE SlotStack -----------------------------
(***************************************************************************)
(* COMMON_STACK_T of src/include/Stack.c, the stack of structures.  Its    *)
(* array holds pointers to slots that are allocated once and used again: a *)
(* push copies the structure into the slot at Top, a sorted push then      *)
(* moves pointers, a removal from the middle shifts them.  What a caller   *)
(* gets from the stack is a pointer to the slot itself.                    *)
(*                                                                         *)
(* Every operation is one step: a stack belongs to one thread.             *)
(***************************************************************************)
EXTENDS Integers, FiniteSets, Functions

CONSTANTS
  Values,      (* the structures, by the number they are sorted by         *)
  Slots,       (* addresses HEAP_ALLOC can return for a structure          *)
  InitialMax,  (* the Max a stack is initialised with                      *)
  Growth,      (* DEFAULT_STACK_T_SIZE                                     *)
  MaxMax,      (* bound: the array grows up to here                        *)
  FromMiddle,  (* does the client remove other elements than the last?     *)
  NULL

ASSUME SlotAssumption ==
  /\ Values \subseteq Int
  /\ InitialMax \in Nat /\ Growth \in Nat \ {0} /\ MaxMax \in Nat
  /\ FromMiddle \in BOOLEAN /\ NULL \notin Slots

VARIABLES
  elements,  (* Stack->Elements: pointers, from index 0                    *)
  top, bottom,
  content,   (* what is in each slot                                       *)
  element,   (* the pointer the client got last, NULL when it is done      *)
  seen       (* history: what was in the slot then                         *)

vars == <<elements, top, bottom, content, element, seen>>

Max == Cardinality(DOMAIN elements)

(* The slots that belong to the array, wherever Top is. *)
Allocated(e) == Range(e) \ {NULL}

(* Pointer arrays on the indices I with slots from the heap: each HEAP_ALLOC
   may fail, and no two return the same slot. *)
FromHeap(I, used) ==
  {e \in [I -> (Slots \ used) \cup {NULL}] :
     \A i, j \in I : e[i] = e[j] /\ e[i] # NULL => i = j}

(* StackInitT; without an array the stack has Max 0. *)
Init ==
  /\ elements \in FromHeap(0 .. InitialMax - 1, {}) \cup {<< >>}
  /\ top = 0 /\ bottom = 0
  /\ content = [s \in Slots |-> NULL]
  /\ element = NULL /\ seen = NULL

-----------------------------------------------------------------------------
(* StackAddElementT *)

Grown(new) ==
  [i \in 0 .. Max + Growth - 1 |-> IF i < Max THEN elements[i] ELSE new[i]]

(* StackSetMaxT, called when Top has reached Max: the array a push works on.
   It stays as it is when the allocation of the larger one fails. *)
StackSetMaxT ==
  IF top < Max \/ Max + Growth > MaxMax
    THEN {elements}
    ELSE {elements} \cup
         {Grown(new) : new \in FromHeap(Max .. Max + Growth - 1,
                                        Allocated(elements))}

(* A plausible slip: what HEAP_ALLOC returned is not tested. *)
SlotUntested(e) == {e[top]}

(* The slot at Top of the array e; one is allocated if there is none. *)
SlotAtTop(e) == IF e[top] # NULL THEN {e[top]} ELSE Slots \ Allocated(e)

(* A plausible slip: the larger pointers are not moved up. *)
InsertedOver(e, s, k) == [e EXCEPT ![k] = s]

(* The pointer s, at index Top, is moved to index k. *)
Inserted(e, s, k) ==
  [i \in DOMAIN e |-> IF i < k \/ i > top THEN e[i]
                      ELSE IF i = k THEN s ELSE e[i - 1]]

(* A plausible slip: one exchange and no loop. *)
SinksOnce(e, s, c, k) ==
  k = IF top > 0 /\ c[e[top - 1]] > c[s] THEN top - 1 ELSE top

(* The loop of StackPushAscT leaves the pointer s at index k: it sinks while
   the structure below is larger, as the slots are after the copy. *)
Sinks(e, s, c, k) ==
  /\ k > 0 => c[e[k - 1]] <= c[s]
  /\ \A j \in k .. top - 1 : c[e[j]] > c[s]

Add(v, sorted) ==
  \E e \in StackSetMaxT : \E s \in IF top \in DOMAIN e THEN SlotAtTop(e) ELSE {} :
    LET c == [content EXCEPT ![s] = v]
    IN \E k \in 0 .. top :
         /\ IF sorted THEN Sinks(e, s, c, k) ELSE k = top
         /\ content' = c /\ elements' = Inserted(e, s, k) /\ top' = top + 1
         /\ UNCHANGED <<bottom, element, seen>>

StackPushT(v)    == Add(v, FALSE)
StackPushAscT(v) == Add(v, TRUE)

(* A push that fails has perhaps enlarged the array. *)
PushFails ==
  /\ elements' \in {e \in StackSetMaxT : top \in DOMAIN e => e[top] = NULL}
  /\ UNCHANGED <<top, bottom, content, element, seen>>

-----------------------------------------------------------------------------
(* StackPopT.  The slot is above Top now: its client is done with it, and
   with any other, before the next push. *)
StackPopT ==
  /\ top > 0
  /\ top' = top - 1
  /\ element' = NULL /\ seen' = NULL
  /\ UNCHANGED <<elements, bottom, content>>

(* A plausible slip: the slot that has been read is put above Top. *)
StackPopBottomRecycles ==
  /\ bottom < top
  /\ elements' = [i \in DOMAIN elements |->
                    IF i = top - 1 THEN elements[bottom]
                    ELSE IF i >= bottom /\ i < top - 1 THEN elements[i + 1]
                    ELSE elements[i]]
  /\ top' = top - 1
  /\ element' = elements[bottom] /\ seen' = content[elements[bottom]]
  /\ UNCHANGED <<bottom, content>>

(* StackPopBottomT: the client keeps the pointer while it goes on pushing,
   as scan_control_list does with Scan. *)
StackPopBottomT ==
  /\ bottom < top
  /\ bottom' = bottom + 1
  /\ element' = elements[bottom] /\ seen' = content[elements[bottom]]
  /\ UNCHANGED <<elements, top, content>>

(* StackRemoveIndexT, and StackRemoveT of the first pointer to a slot: memcpy
   moves the pointers behind the index down. *)
StackRemoveIndexT(k) ==
  /\ k < top
  /\ elements' = [i \in DOMAIN elements |->
                    IF k <= i /\ i < top - 1 THEN elements[i + 1] ELSE elements[i]]
  /\ top' = top - 1
  /\ element' = NULL /\ seen' = NULL
  /\ UNCHANGED <<bottom, content>>

(* StackSetTopT, as zap_scan_control_list uses it: never up. *)
StackSetTopT(n) ==
  /\ n < top
  /\ top' = n
  /\ element' = NULL /\ seen' = NULL
  /\ UNCHANGED <<elements, bottom, content>>

(* StackSetBottomT *)
StackSetBottomT(b) ==
  /\ bottom' = IF b > top THEN top ELSE b
  /\ element' = NULL /\ seen' = NULL
  /\ UNCHANGED <<elements, top, content>>

StackReinitT ==
  /\ top' = 0 /\ bottom' = 0
  /\ element' = NULL /\ seen' = NULL
  /\ UNCHANGED <<elements, content>>

Next ==
  \/ \E v \in Values : StackPushT(v) \/ StackPushAscT(v)
  \/ PushFails
  \/ StackPopT \/ StackPopBottomT \/ StackReinitT
  \/ \E k \in 0 .. top - 1 :
       (FromMiddle \/ k = top - 1) /\ StackRemoveIndexT(k)
  \/ \E n \in 0 .. Max : StackSetTopT(n) \/ StackSetBottomT(n)

Spec == Init /\ [][Next]_vars

-----------------------------------------------------------------------------
(* The array has indices up to Max, and below Top every pointer is one: a  *)
(* push that gets no memory leaves no NULL for StackAtT to hand out.  No   *)
(* slot is in the array twice, above Top neither: a push overwrites the    *)
(* slot at Top, so that one must not be an element further down, and       *)
(* StackUninitT frees each slot of the array once.                         *)
TypeOK ==
  /\ elements \in [0 .. Max - 1 -> Slots \cup {NULL}]
  /\ top \in 0 .. Max /\ bottom \in Nat
  /\ \A i \in 0 .. top - 1 : elements[i] # NULL
  /\ \A i, j \in DOMAIN elements :
       elements[i] = elements[j] /\ elements[i] # NULL => i = j
  /\ content \in [Slots -> Values \cup {NULL}]
  /\ element \in Slots \cup {NULL} /\ seen \in Values \cup {NULL}

(* A structure read from the bottom stays as it was while others are       *)
(* pushed and sorted in, although the caller has only a pointer to it.     *)
PointerKept == element # NULL => content[element] = seen

(* The values, in the order of the pointers. *)
contents == [i \in 1 .. top |-> content[elements[i - 1]]]

(* Slots, pointers and failing allocations do not show: the stack is a     *)
(* sequence of values as long as clients remove at its ends only.          *)
Abstract == INSTANCE ValueStack
ImplementsValueStack == Abstract!Spec
=============================================================================
