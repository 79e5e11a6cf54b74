----------------------------- MODULE ScanPasses -----------------------------
(***************************************************************************)
(* The five passes over an op array in src/include/zend_dump.c, with the   *)
(* lists they share: ScanList, the opcodes that the second to fourth pass  *)
(* of scan_control_list look at, and Skip and SkipOnce, sorted stacks of   *)
(* offsets that are read from a moving bottom while handlers push on them. *)
(*                                                                         *)
(* A step is one round of a pass: an opcode is skipped or handled.  What a *)
(* handler recognises is left open; its pushes are any that the handlers   *)
(* of that pass can make.                                                  *)
(***************************************************************************)
EXTENDS Integers, Sequences, FiniteSetsExt

CONSTANTS
  LastOffset,  (* Stack->LastOffset                                        *)
  MaxPushes,   (* bound: offsets a handler pushes on a list                *)
  MaxElements  (* bound: elements of Skip and SkipOnce together            *)

ASSUME ScanAssumption ==
  LastOffset \in Nat \ {0} /\ MaxPushes \in Nat /\ MaxElements \in Nat

Dump == 5
Done == 6

VARIABLES
  pass,
  offset,      (* Offset of the first scan and of the dump                 *)
  size,        (* Size: a default return at the end is not scanned         *)
  scanList,    (* sequence of [key, deleted]                               *)
  scanBottom,  (* ScanList.Bottom                                          *)
  skip, once,  (* Skip and SkipOnce, [elements, bottom]                    *)
  nextOpLine,  (* NextOpLine - Head                                        *)
  handled      (* history: the offsets this pass has handled               *)

lists == <<scanList, scanBottom, skip, once>>
vars  == <<pass, offset, size, lists, nextOpLine, handled>>

Offsets == 0 .. LastOffset - 1

AtMost(n, S) == {s \in SUBSET S : Cardinality(s) <= n}

-----------------------------------------------------------------------------
(* COMMON_STACK_U as a queue of offsets: sorted above and below its bottom. *)
Empty == [elements |-> << >>, bottom |-> 0]

Top(q) == Len(q.elements)

(* The element sinks until the one below is not larger; it may sink below   *)
(* the bottom, which then stands at another element.                        *)
StackPushAsc(q, x) ==
  LET Rests(k) == /\ k = 0 \/ q.elements[k] <= x
                  /\ \A j \in k + 1 .. Top(q) : q.elements[j] > x
      k == CHOOSE k \in 0 .. Top(q) : Rests(k)
  IN [q EXCEPT !.elements =
        SubSeq(@, 1, k) \o <<x>> \o SubSeq(@, k + 1, Top(q))]

(* The order does not matter: each finds its place. *)
StackPushAll(q, S) ==
  LET pushed[n \in 0 .. LastOffset + 1] ==
        IF n = 0 THEN q
        ELSE IF n - 1 \in S THEN StackPushAsc(pushed[n - 1], n - 1) ELSE pushed[n - 1]
  IN  pushed[LastOffset + 1]

StackAtBottom(q, x) == q.bottom < Top(q) /\ q.elements[q.bottom + 1] = x

StackPopBottom(q) == [q EXCEPT !.bottom = @ + 1]

(* Pops elements at the bottom as long as they are in S. *)
PopWhileIn(q, S) ==
  LET Stops(b) == /\ b = Top(q) \/ q.elements[b + 1] \notin S
                  /\ \A i \in q.bottom + 1 .. b : q.elements[i] \in S
  IN [q EXCEPT !.bottom = CHOOSE b \in q.bottom .. Top(q) : Stops(b)]

PopSmaller(q, x) == PopWhileIn(q, 0 .. x - 1)
PopEqual(q, x)   == PopWhileIn(q, {x})

StackSetBottom(q, b) == [q EXCEPT !.bottom = b]

Keys    == {scanList[i].key : i \in DOMAIN scanList}
Deleted == {scanList[i].key :
             i \in {j \in DOMAIN scanList : scanList[j].deleted}}

push_scan_control_list(o) ==
  scanList' = Append(scanList, [key |-> o, deleted |-> FALSE])

delete_scan_control_list(S) ==
  scanList' = [i \in DOMAIN scanList |->
                 [scanList[i] EXCEPT !.deleted = @ \/ scanList[i].key \in S]]

NotDeleted(list) ==
  LET kept[n \in 0 .. Len(list)] ==
        IF n = 0 THEN << >>
        ELSE IF list[n].deleted THEN kept[n - 1] ELSE Append(kept[n - 1], list[n])
  IN  kept[Len(list)]

zap_scan_control_list == scanList' = NotDeleted(scanList)

Init ==
  /\ pass = 1 /\ offset = 0
  /\ \/ size = LastOffset /\ skip = Empty
     \/ size = LastOffset - 1 /\ skip = StackPushAsc(Empty, size)
  /\ once = Empty /\ scanList = << >> /\ scanBottom = 0
  /\ nextOpLine = 0 /\ handled = {}

(* The bound on pushes. *)
RoomFor(n) == Top(skip) + Top(once) + n <= MaxElements

-----------------------------------------------------------------------------
(* The opcode a scan comes to: the first looks at all, the others at those  *)
(* in ScanList.                                                             *)
Coming(o) ==
  \/ pass = 1 /\ offset < size /\ o = offset
  \/ /\ pass \in 2 .. 4 /\ scanBottom < Len(scanList)
     /\ o = scanList[scanBottom + 1].key

GoOn ==
  /\ IF pass = 1 THEN offset' = offset + 1 /\ scanBottom' = scanBottom
                 ELSE scanBottom' = scanBottom + 1 /\ offset' = offset
  /\ UNCHANGED <<pass, size, nextOpLine>>

(* An offset in Skip goes no further: SkipOnce is not looked at. *)
SkipThis(o) ==
  LET s == PopSmaller(skip, o)
      n == PopSmaller(once, o)
  IN /\ Coming(o) /\ GoOn
     /\ \/ StackAtBottom(s, o) /\ skip' = StackPopBottom(s) /\ once' = once
        \/ /\ ~StackAtBottom(s, o) /\ skip' = s
           /\ StackAtBottom(n, o) /\ once' = StackPopBottom(n)
     /\ UNCHANGED <<scanList, handled>>

(* The handler of o is called and pushes the sets S and N. *)
HandlerPushes(o, S, N) ==
  LET s == PopSmaller(skip, o)
      n == PopSmaller(once, o)
  IN /\ RoomFor(Cardinality(S) + Cardinality(N)) /\ Coming(o) /\ GoOn
     /\ ~StackAtBottom(s, o) /\ ~StackAtBottom(n, o)
     /\ skip' = StackPushAll(s, S) /\ once' = StackPushAll(n, N)
     /\ handled' = handled \cup {o}

(* The first scan: other opcodes, NOP, JMPZNZ behind a CASE, and JMPZ_EX,   *)
(* which also skips the FREE ahead.                                         *)
ScanOther(o) ==
  /\ pass = 1
  /\ \E S \in {{}, {o}} \cup {{o, f} : f \in o + 1 .. LastOffset - 1} :
       HandlerPushes(o, S, {})
  /\ UNCHANGED scanList

(* list( ): the opcodes of one are handled once, by the dump. *)
ScanListAssign(o) ==
  /\ pass = 1
  /\ \E N \in AtMost(MaxPushes, o + 1 .. LastOffset - 1) \ {{}} :
       HandlerPushes(o, {}, N \cup {o})
  /\ UNCHANGED scanList

ScanJump(o) ==
  /\ pass = 1 /\ HandlerPushes(o, {}, {}) /\ push_scan_control_list(o)

(* JMPZ, JMPNZ: scan_if_logic collects the jumps of one condition, of which *)
(* the last stands for all, or none if the condition is followed by a       *)
(* special jump, that of a ternary operator.                                *)
scan_if_logic(o) ==
  /\ pass = 1
  /\ \E J \in AtMost(MaxPushes, o .. LastOffset - 1) :
       /\ o \in J
       /\ \/ HandlerPushes(o, {}, J \ {Max(J)})
          \/ \E j \in o + 1 .. LastOffset - 1 :
               (\A i \in J : i < j) /\ HandlerPushes(o, {}, J \cup {j})
  /\ push_scan_control_list(o)

(* The second to fourth scan: a statement is recognised, or not.  Its       *)
(* opcodes that print nothing are skipped, before or behind o; o is         *)
(* deleted, in the second scan with the later cases of its switch.  The     *)
(* fourth calls scan_if_logic for conditions ahead.                         *)
RescanJump(o) ==
  /\ pass \in 2 .. 4
  /\ \E S \in AtMost(MaxPushes, 0 .. LastOffset) :
       /\ \E N \in AtMost(MaxPushes, o + 1 .. LastOffset - 1) :
            (pass < 4 => N = {}) /\ HandlerPushes(o, S, N)
       /\ \E D \in {{}, {o}} \cup
                   (IF pass = 2 THEN {{o} \cup (S \cap (o .. LastOffset))}
                                ELSE {}) :
            delete_scan_control_list(D)

(* A plausible slip: SkipOnce goes on from where it is. *)
NextScanOnceKept ==
  /\ pass \in 1 .. 4
  /\ IF pass = 1 THEN offset = size ELSE scanBottom = Len(scanList)
  /\ skip' = StackSetBottom(skip, 0) /\ once' = once
  /\ zap_scan_control_list /\ scanBottom' = 0
  /\ pass' = pass + 1 /\ offset' = 0 /\ handled' = {}
  /\ UNCHANGED <<size, nextOpLine>>

(* Between two passes all lists are read from their start again. *)
NextScan ==
  /\ pass \in 1 .. 4
  /\ IF pass = 1 THEN offset = size ELSE scanBottom = Len(scanList)
  /\ skip' = StackSetBottom(skip, 0) /\ once' = StackSetBottom(once, 0)
  /\ zap_scan_control_list /\ scanBottom' = 0
  /\ pass' = pass + 1 /\ offset' = 0 /\ handled' = {}
  /\ UNCHANGED <<size, nextOpLine>>

-----------------------------------------------------------------------------
(* dump_control_list may push the offset: the jump of a ternary operator. *)
MarkTernary ==
  {skip} \cup (IF RoomFor(1) THEN {StackPushAsc(skip, offset)} ELSE {})

(* A plausible slip: what NextOpLine jumps over keeps its place in Skip. *)
DumpOverNext ==
  /\ pass = Dump /\ offset < LastOffset
  /\ \E s \in MarkTernary :
       \/ /\ offset >= nextOpLine /\ StackAtBottom(s, offset)
          /\ skip' = PopEqual(s, offset)
       \/ /\ offset < nextOpLine /\ skip' = s
  /\ offset' = offset + 1
  /\ UNCHANGED <<pass, size, scanList, scanBottom, once, nextOpLine, handled>>

(* An opcode is not dumped: it is in Skip, whose elements for it are taken, *)
(* or a handler has jumped over it.                                         *)
DumpSkips ==
  /\ pass = Dump /\ offset < LastOffset
  /\ \E s \in MarkTernary :
       \/ StackAtBottom(s, offset) /\ skip' = PopEqual(s, offset)
       \/ ~StackAtBottom(s, offset) /\ offset < nextOpLine /\ skip' = s
  /\ offset' = offset + 1
  /\ UNCHANGED <<pass, size, scanList, scanBottom, once, nextOpLine, handled>>

(* A handler is called; it may skip opcodes ahead and jump. *)
DumpHandler ==
  /\ pass = Dump /\ offset < LastOffset
  /\ ~StackAtBottom(skip, offset) /\ offset >= nextOpLine
  /\ \E S \in AtMost(MaxPushes, offset + 1 .. LastOffset - 1) :
       RoomFor(Cardinality(S)) /\ skip' = StackPushAll(skip, S)
  /\ nextOpLine' \in {nextOpLine} \cup (offset + 1 .. LastOffset)
  /\ offset' = offset + 1 /\ handled' = handled \cup {offset}
  /\ UNCHANGED <<pass, size, scanList, scanBottom, once>>

DumpEnds ==
  /\ pass = Dump /\ offset = LastOffset
  /\ pass' = Done /\ handled' = {}
  /\ UNCHANGED <<offset, size, lists, nextOpLine>>

Next ==
  \/ \E o \in Offsets :
       \/ SkipThis(o) \/ ScanOther(o) \/ ScanListAssign(o) \/ ScanJump(o)
       \/ scan_if_logic(o) \/ RescanJump(o)
  \/ NextScan \/ DumpSkips \/ DumpHandler \/ DumpEnds

Spec == Init /\ [][Next]_vars

-----------------------------------------------------------------------------
SortedQueue(q) ==
  /\ q.elements \in Seq(0 .. LastOffset) /\ q.bottom \in 0 .. Top(q)
  /\ \A i, j \in 1 .. Top(q) : i <= j => q.elements[i] <= q.elements[j]

(* Types.  Skip and SkipOnce are sorted throughout, above and below their   *)
(* bottoms, and ScanList has each offset once, in order.  In the dump        *)
(* nothing in Skip is behind the walk: dump_opcode takes only elements that  *)
(* are equal to the offset, so a smaller one would keep all later ones from  *)
(* being skipped.                                                           *)
TypeOK ==
  /\ pass \in 1 .. Done /\ offset \in 0 .. LastOffset
  /\ size \in LastOffset - 1 .. LastOffset
  /\ scanList \in Seq([key : Offsets, deleted : BOOLEAN])
  /\ scanBottom \in 0 .. Len(scanList)
  /\ \A i, j \in DOMAIN scanList : i < j => scanList[i].key < scanList[j].key
  /\ SortedQueue(skip) /\ SortedQueue(once)
  /\ nextOpLine \in 0 .. LastOffset /\ handled \subseteq Offsets
  /\ pass = Dump =>
       \A i \in skip.bottom + 1 .. Top(skip) : skip.elements[i] >= offset

ElementSet(q) == {q.elements[i] : i \in 1 .. Top(q)}

Promise == INSTANCE Passes WITH
  listed <- Keys, dropped <- Deleted,
  skip <- ElementSet(skip), once <- ElementSet(once), next <- nextOpLine

(* The lists do what they are for: in every pass each candidate is handled, *)
(* in order, unless it has been marked, however the pushes of the handlers  *)
(* fall with respect to the bottoms.                                        *)
ImplementsPasses == Promise!Spec
=============================================================================
