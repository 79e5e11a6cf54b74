---------------------------- MODULE SortedSearch ----------------------------
(***************************************************************************)
(* The binary searches of src/include/Stack.c, with which zend_dump.c      *)
(* looks up jumps, outputs and loops by their offsets.  Ten functions for  *)
(* stacks of numbers (COMMON_STACK_U) and ten for stacks of structures     *)
(* (COMMON_STACK_T) share one loop; they differ in the order of the stack, *)
(* in what they do when the loop meets an equal element, and in the bound  *)
(* they make the result from.  A result is an index plus one, 0 is none.   *)
(*                                                                         *)
(* A step is one round of the loop.  The stack is sorted; the searches for *)
(* a neighbour get a stack without equal elements, as the lists of offsets *)
(* are that zend_dump.c searches this way.                                 *)
(***************************************************************************)
EXTENDS Integers

CONSTANTS
  Numbers,   (* the elements a stack can have                              *)
  MaxTop,    (* bound: elements of a stack                                 *)
  Searches   (* the functions called                                       *)

(* A search: the order of the stack and what is looked for in it. *)
StackFindAsc           == [order |-> "asc", want |-> "equal"]
StackFindLargeAsc      == [order |-> "asc", want |-> "next"]
StackFindLargeEqualAsc == [order |-> "asc", want |-> "equal or next"]
StackFindSmallAsc      == [order |-> "asc", want |-> "last"]
StackFindSmallEqualAsc == [order |-> "asc", want |-> "equal or last"]
StackFindDsc           == [order |-> "dsc", want |-> "equal"]
StackFindSmallDsc      == [order |-> "dsc", want |-> "next"]
StackFindSmallEqualDsc == [order |-> "dsc", want |-> "equal or next"]
StackFindLargeDsc      == [order |-> "dsc", want |-> "last"]
StackFindLargeEqualDsc == [order |-> "dsc", want |-> "equal or last"]

Wants == {"equal", "next", "equal or next", "last", "equal or last"}

AllSearches == [order : {"asc", "dsc"}, want : Wants]

ASSUME SearchAssumption ==
  Numbers \subseteq Int /\ MaxTop \in Nat /\ Searches \subseteq AllSearches

VARIABLES
  search,           (* the function that is called                         *)
  size, stack,      (* Stack->Top and Stack->Elements                      *)
  wanted,           (* its argument                                        *)
  start, end, mid,  (* its locals                                          *)
  pc, result

input      == <<search, size, stack, wanted>>
searchVars == <<input, start, end, mid, pc, result>>

(* x stands before y in the order of the stack. *)
Before(x, y) == IF search.order = "asc" THEN x < y ELSE x > y

Indices == 0 .. size - 1

Sorted == \A i, j \in Indices : i < j => ~Before(stack[j], stack[i])
Strict == \A i, j \in Indices : i < j => Before(stack[i], stack[j])

(* ( Start >> 1 ) + ( End >> 1 ) + ( Start & End & 1 ) *)
Middle(s, e) ==
  s \div 2 + e \div 2 + (IF s % 2 = 1 /\ e % 2 = 1 THEN 1 ELSE 0)

SearchInit ==
  /\ search \in Searches
  /\ size \in 0 .. MaxTop
  /\ stack \in [Indices -> Numbers]
  /\ Sorted /\ (search.want # "equal" => Strict)
  /\ wanted \in Numbers
  /\ start = 0 /\ end = size /\ mid = size \div 2
  /\ pc = (IF size = 0 THEN "done" ELSE "loop") /\ result = 0

-----------------------------------------------------------------------------
(* A plausible slip: the middle stays in the range. *)
GoUpStays ==
  /\ pc = "loop" /\ mid < end /\ Before(stack[mid], wanted)
  /\ start' = mid /\ mid' = Middle(mid, end)
  /\ UNCHANGED <<input, end, pc, result>>

GoUp ==
  /\ pc = "loop" /\ mid < end /\ Before(stack[mid], wanted)
  /\ start' = mid + 1 /\ mid' = Middle(mid + 1, end)
  /\ UNCHANGED <<input, end, pc, result>>

(* A plausible slip: the element before the middle leaves the range, too. *)
GoDownTwo ==
  /\ pc = "loop" /\ mid < end /\ Before(wanted, stack[mid])
  /\ end' = mid - 1 /\ mid' = Middle(start, mid - 1)
  /\ UNCHANGED <<input, start, pc, result>>

GoDown ==
  /\ pc = "loop" /\ mid < end /\ Before(wanted, stack[mid])
  /\ end' = mid /\ mid' = Middle(start, mid)
  /\ UNCHANGED <<input, start, pc, result>>

(* An equal element: "break". *)
Hit ==
  /\ pc = "loop" /\ mid < end /\ stack[mid] = wanted
  /\ start' = CASE search.want = "last" -> IF mid > 0 THEN mid - 1 ELSE mid
                [] search.want = "equal or last" -> mid
                [] OTHER -> start
  /\ end' = CASE search.want = "next" -> mid + 1
              [] search.want = "equal or next" -> mid
              [] OTHER -> end
  /\ result' = IF search.want = "equal" THEN mid + 1 ELSE result
  /\ pc' = "end"
  /\ UNCHANGED <<input, mid>>

(* The loop ends without an equal element. *)
Miss ==
  /\ pc = "loop" /\ mid >= end
  /\ pc' = "end"
  /\ UNCHANGED <<input, start, end, mid, result>>

(* A plausible slip: the index is returned, not the index plus one. *)
ResultIndex ==
  CASE search.want \in {"next", "equal or next"} -> IF end < size THEN end ELSE 0
    [] search.want \in {"last", "equal or last"} -> start
    [] OTHER -> result

(* What the function returns after its loop. *)
Result ==
  CASE search.want \in {"next", "equal or next"} -> IF end < size THEN end + 1 ELSE 0
    [] search.want \in {"last", "equal or last"} ->
         IF start < mid THEN start + 1 ELSE start
    [] OTHER -> result

Return ==
  /\ pc = "end"
  /\ result' = Result
  /\ pc' = "done"
  /\ UNCHANGED <<input, start, end, mid>>

Returned == pc = "done" /\ UNCHANGED searchVars

SearchNext == GoUp \/ GoDown \/ Hit \/ Miss \/ Return \/ Returned

SearchSpec == SearchInit /\ [][SearchNext]_searchVars

(* The function is a loop that runs on. *)
FairSearch == SearchSpec /\ WF_searchVars(SearchNext)

-----------------------------------------------------------------------------
(* The input is sorted and stays so; the locals are indices or one beyond, *)
(* so no round reads outside the elements, or the result of a search is    *)
(* larger than the stack.                                                  *)
SearchTypeOK ==
  /\ search \in AllSearches
  /\ size \in Nat /\ stack \in [Indices -> Int] /\ wanted \in Int
  /\ Sorted /\ (search.want # "equal" => Strict)
  /\ start \in 0 .. size /\ end \in 0 .. size /\ mid \in 0 .. size
  /\ pc \in {"loop", "end", "done"} /\ result \in 0 .. size

(* StackFindAsc and StackFindDsc find an equal element if and only if the  *)
(* stack has one.                                                          *)
FindsEqual ==
  pc = "done" /\ search.want = "equal" =>
    IF result = 0 THEN \A k \in Indices : stack[k] # wanted
                  ELSE stack[result - 1] = wanted

(* The elements a search to the right looks for. *)
Behind(k) ==
  \/ Before(wanted, stack[k])
  \/ search.want = "equal or next" /\ stack[k] = wanted

(* StackFindLarge(Equal)Asc and StackFindSmall(Equal)Dsc return the first  *)
(* element beyond (or equal to) the argument: scan_next_output finds the   *)
(* next output with it.                                                    *)
FindsNext ==
  pc = "done" /\ search.want \in {"next", "equal or next"} =>
    /\ \A k \in Indices : k < result - 1 => ~Behind(k)
    /\ IF result = 0 THEN \A k \in Indices : ~Behind(k) ELSE Behind(result - 1)

(* StackFindSmallAsc and StackFindLargeDsc return the last element before  *)
(* the argument: the jumps in front of an offset are found with it.        *)
FindsLast ==
  pc = "done" /\ search.want = "last" =>
    /\ \A k \in Indices : k >= result => ~Before(stack[k], wanted)
    /\ result > 0 => Before(stack[result - 1], wanted)

(* Every call returns: each round makes the range smaller. *)
Returns == <>(pc = "done")
=============================================================================
