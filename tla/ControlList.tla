---------------------------- MODULE ControlList ----------------------------
(***************************************************************************)
(* How the dumper turns the jumps of an op array back into statements.     *)
(* scan_control_list of src/include/zend_dump.c recognises the statements  *)
(* in several passes and leaves, at the offsets where a statement starts,  *)
(* turns or ends, entries in Stack->ControlList: a list sorted by offset   *)
(* whose elements hold a list of ends and a list of openings, each sorted  *)
(* by the size of the statement's range.  dump_op_array_ex then walks the  *)
(* offsets, and dump_control_list prints the brackets of the entries it    *)
(* finds at each.  No stack says which statement is inside which: nesting  *)
(* rests on the order of equal offsets alone.                              *)
(*                                                                         *)
(* The input is the statements of a script with the offsets PHP compiles   *)
(* them to, with a compiled variable as each condition.  Recognising them  *)
(* in the jumps is left out; each is recognised at the opcode ("key") and  *)
(* in the pass where scan_control_list finds it.                           *)
(***************************************************************************)
EXTENDS OpArray, SequencesExt

CONSTANTS
  StatementKinds, (* the kinds of statement the scripts use                *)
  MaxStatements,  (* bound: statements in a script                         *)
  Ties            (* may two entries of one list have ranges of one size?  *)

ASSUME ControlAssumption ==
  /\ MaxStatements \in Nat /\ Ties \in BOOLEAN
  /\ StatementKinds \subseteq
       {"if", "ifelse", "while", "do", "for", "barefor", "foreach", "try",
        "switch", "switchdefault", "defaultswitch"}

VARIABLES
  script,        (* the statements recognised so far                       *)
  controlList,   (* Stack->ControlList                                     *)
  step,          (* Stack->Step: "scan", "dump", "done"                    *)
  offset,        (* Stack->Offset in the dump                              *)
  output         (* the brackets dump_string has written                   *)

controlVars == <<script, controlList, step, offset, output>>

AllOffsets == 0 .. LastOffset

-----------------------------------------------------------------------------
(* A statement is its kind and the offsets that matter: for if and ifelse  *)
(* each conditional jump, the first opcode of the else and the first       *)
(* opcode after; for while and do the two ends; for a for statement its    *)
(* start, condition, body and the opcode after; for foreach FE_FETCH and   *)
(* the SWITCH_FREE; for try its first opcode, CATCH and the opcode after.  *)
(* A "barefor" is a for statement without an initial expression.  For the  *)
(* switches it is each ZEND_CASE, the first opcode of the default, where   *)
(* it stands in the text (last, or first), and the first opcode after.     *)
(* Each body has an opcode besides the jumps around it.                    *)

Cuts(n) == {c \in [1 .. n -> AllOffsets] : \A k \in 1 .. n - 1 : c[k] < c[k + 1]}

CutsOf(kind) ==
  CASE kind = "if" -> {c \in Cuts(2) \cup Cuts(3) :
           \A k \in 1 .. Len(c) - 1 : c[k] + 3 <= c[k + 1]}
    [] kind = "ifelse" -> {c \in Cuts(3) \cup Cuts(4) :
           \A k \in 1 .. Len(c) - 2 : c[k] + 3 <= c[k + 1]}
    [] kind = "while" -> {c \in Cuts(2) : c[1] + 3 <= c[2]}
    [] kind = "do" -> Cuts(2)
    [] kind \in {"for", "barefor"} -> {c \in Cuts(4) \cup
           {<<s, s, x, e>> : s, x, e \in AllOffsets} :
           /\ c[2] <= c[1] + 1 /\ c[2] + 2 <= c[3] /\ c[3] + 2 <= c[4]
           /\ kind = "for" => c[1] > 0}
    [] kind = "foreach" -> {c \in Cuts(2) :
           0 < c[1] /\ c[1] + 4 <= c[2] /\ c[2] < LastOffset}
    [] kind = "try" -> {c \in Cuts(3) : c[1] + 2 <= c[2] /\ c[2] + 3 <= c[3]}
    [] kind = "switch" -> {c \in Cuts(2) \cup Cuts(3) :
           \A k \in 1 .. Len(c) - 1 : c[k] + 4 <= c[k + 1]}
    [] kind = "switchdefault" -> {c \in Cuts(3) : c[1] + 5 <= c[2] /\ c[2] + 3 <= c[3]}
    [] kind = "defaultswitch" -> {c \in Cuts(3) :
           0 < c[1] /\ c[1] + 2 <= c[2] /\ c[2] + 5 <= c[3]}

Statements ==
  UNION {{[kind |-> k, cut |-> c] : c \in CutsOf(k)} : k \in StatementKinds}

(* The first opcode of a statement and the first one after it. *)
First(c) == IF c.kind \in {"for", "foreach", "defaultswitch"} THEN c.cut[1] - 1 ELSE c.cut[1]

Beyond(c) ==
  IF c.kind \in {"do", "foreach"} THEN c.cut[2] + 1 ELSE Last(c.cut)

(* The bodies of a statement, in order: between which opcodes the          *)
(* statements of each lie.  The first one of a for statement is what is    *)
(* between its brackets, that of a switch what is before the first label:  *)
(* they hold no statement.                                                 *)
NoBody == <<LastOffset + 1, 0>>

Bodies(c) ==
  LET n == Len(c.cut) IN
  CASE c.kind = "if" ->
         [k \in 1 .. n - 1 |-> <<c.cut[k] + 1, c.cut[k + 1] - 1>>]
    [] c.kind = "ifelse" ->
         [k \in 1 .. n - 1 |-> IF k < n - 1 THEN <<c.cut[k] + 1, c.cut[k + 1] - 1>>
                                            ELSE <<c.cut[k], c.cut[n]>>]
    [] c.kind = "while" -> << <<c.cut[1] + 1, c.cut[2] - 1>> >>
    [] c.kind = "do" -> << <<c.cut[1], c.cut[2]>> >>
    [] c.kind \in {"for", "barefor"} ->
         <<NoBody, <<c.cut[3], c.cut[4] - 1>> >>
    [] c.kind = "foreach" -> << <<c.cut[1] + 2, c.cut[2] - 1>> >>
    [] c.kind = "try" ->
         << <<c.cut[1], c.cut[2] - 1>>, <<c.cut[2] + 1, c.cut[3] - 1>> >>
    [] c.kind = "switch" ->
         <<NoBody>> \o [k \in 1 .. n - 1 |-> <<c.cut[k] + 2, c.cut[k + 1] - 1>>]
    [] c.kind = "switchdefault" ->
         <<NoBody, <<c.cut[1] + 2, c.cut[2] - 2>>, <<c.cut[2], c.cut[3] - 2>> >>
    [] c.kind = "defaultswitch" ->
         <<NoBody, <<c.cut[1], c.cut[2] - 1>>, <<c.cut[2] + 2, c.cut[3] - 2>> >>

Inside(c, d, b) ==
  Bodies(d)[b][1] <= First(c) /\ Beyond(c) <= Bodies(d)[b][2]

(* PHP compiles "else { if }" and "else if" to the same opcodes; such an   *)
(* if is a branch of the outer one here, as it is for scan_if_list.        *)
ElseIf(c, d) ==
  /\ c.kind \in {"if", "ifelse"} /\ d.kind = "ifelse"
  /\ <<First(c), Beyond(c)>> = Last(Bodies(d))

Apart(c, d) ==
  \/ Beyond(c) <= First(d)
  \/ Beyond(d) <= First(c)
  \/ ~ElseIf(c, d) /\ \E b \in DOMAIN Bodies(d) : Inside(c, d, b)
  \/ ~ElseIf(d, c) /\ \E b \in DOMAIN Bodies(c) : Inside(d, c, b)

(* The order in which scan_control_list meets the statements. *)
Pass(c) == CASE c.kind = "try" -> 1
             [] c.kind \in {"if", "ifelse"} -> 4
             [] OTHER -> 2

Key(c) ==
  IF c.kind \in {"do", "for", "barefor", "defaultswitch"} THEN c.cut[2] ELSE c.cut[1]

MetAfter(c, d) ==
  \/ Pass(c) > Pass(d)
  \/ Pass(c) = Pass(d) /\ Key(c) > Key(d)

-----------------------------------------------------------------------------
(* An entry (COMMON_CONTROL_ENTRY): its Flags, its range, and the          *)
(* statement and body it was made for, which only the properties use.      *)

IsEnd(e) == e.flags \in
  {"IF_END", "DO_WHILE_END", "WHILE_END", "FOR", "FORBRACKET_END",
   "FOR_END", "FOREACH_END", "TRY_END", "CATCH_END", "SWITCH_END"}

Size(e) == e.end - e.start

(* A plausible slip: the smaller range is opened first. *)
ComparePrefixSwapped(e1, e2) == Size(e2) - Size(e1) > 0

ControlListComparePostfix(e1, e2) == Size(e2) - Size(e1) > 0
ControlListComparePrefix(e1, e2) == Size(e1) - Size(e2) > 0

(* StackPushSizeDscT: a new element moves down from the top until it meets *)
(* an element, at an index in stops, that it does not exceed.              *)
StackPushDscT(stack, new, stops) == InsertAt(stack, Max({0} \cup stops) + 1, new)

(* A plausible slip: a new offset stays at the end of the list. *)
PushUnsorted(stack, new) == Append(stack, new)

StackPushAscT(stack, new) ==
  StackPushDscT(stack, new, {k \in DOMAIN stack : stack[k].offset <= new.offset})

PushEnd(ends, e) ==
  StackPushDscT(ends, e, {k \in DOMAIN ends : ~ControlListComparePostfix(e, ends[k])})

PushOpen(opens, e) ==
  StackPushDscT(opens, e, {k \in DOMAIN opens : ~ControlListComparePrefix(e, opens[k])})

insert_control_list(list, at, e) ==
  LET known == \E k \in DOMAIN list : list[k].offset = at
      all == IF known THEN list
             ELSE StackPushAscT(list, [offset |-> at, ends |-> <<>>, opens |-> <<>>])
      k == CHOOSE i \in DOMAIN all : all[i].offset = at
  IN IF IsEnd(e) THEN [all EXCEPT ![k].ends = PushEnd(@, e)]
                 ELSE [all EXCEPT ![k].opens = PushOpen(@, e)]

(* Moves a start out of the ranges that cross it, in the order of the      *)
(* lists.                                                                  *)
Crosses(e, new, end) ==
  \/ e.start < new /\ new < e.end /\ e.end <= end
  \/ new < e.start /\ e.start < end /\ end < e.end

MovedBy(entries, start, end) ==
  LET new[n \in 0 .. Len(entries)] ==
        IF n = 0 THEN start
        ELSE IF Crosses(entries[n], new[n - 1], end) THEN entries[n].start
             ELSE new[n - 1]
  IN new[Len(entries)]

adjust_control_list_start(list, start, end) ==
  LET new[n \in 0 .. Len(list)] ==
        IF n = 0 THEN start
        ELSE MovedBy(list[n].opens \o list[n].ends, new[n - 1], end)
  IN new[Len(list)]

-----------------------------------------------------------------------------
(* The entries of each kind of statement, in the order the code inserts    *)
(* them: the offset to insert at and the entry.  "body" is the body an     *)
(* entry opens, one more than the last at the end of the statement.        *)

Mark(c, at, flags, start, end, body) ==
  [at |-> at, entry |-> [flags |-> flags, start |-> start, end |-> end,
                         of |-> c, body |-> body]]

IfMarks(c) ==
  LET n == Len(c.cut)
      Flags(k) == IF k = 1 THEN "IF"
                  ELSE IF k = n - 1 /\ c.kind = "ifelse" THEN "ELSE" ELSE "ELSEIF"
  IN [k \in 1 .. n - 1 |-> Mark(c, c.cut[k], Flags(k), c.cut[k], c.cut[k + 1], k)]
       \o <<Mark(c, c.cut[n], "IF_END", c.cut[1], c.cut[n], n)>>

WhileMarks(c) ==
  LET s == c.cut[1]  e == c.cut[2]
  IN <<Mark(c, s, "WHILE", s, e, 1), Mark(c, e, "WHILE_END", s, e, 2)>>

DoMarks(c, list) ==
  LET e == c.cut[2]
      s == adjust_control_list_start(list, c.cut[1], e)
  IN <<Mark(c, s, "DO", s, e, 1), Mark(c, e, "DO_WHILE_END", s, e, 2)>>

ForMarks(c) ==
  LET s == c.cut[1]  e == c.cut[4]
  IN <<Mark(c, s, "FOR", s, e, 1), Mark(c, e, "FOR_END", s, e, 3),
       Mark(c, c.cut[2], "FORBRACKET_IN", c.cut[2], e, 1),
       Mark(c, c.cut[3], "FORBRACKET_END", c.cut[3], e, 2)>>

ForeachMarks(c) ==
  LET s == c.cut[1]  e == c.cut[2]
  IN <<Mark(c, s, "FOREACH", s, e, 1), Mark(c, e, "FOREACH_END", s, e, 2)>>

(* try_catch_array gives the first two, the ZEND_CATCH opcode the others. *)
TryMarks(c) ==
  LET s == c.cut[1]  m == c.cut[2]  e == c.cut[3]
  IN <<Mark(c, s, "TRY", s, m, 1), Mark(c, m, "TRY_END", s, m, 2),
       Mark(c, m, "CATCH", m, e, 2), Mark(c, e, "CATCH_END", m, e, 3)>>

CaseMark(c, k, end) == Mark(c, c.cut[k], "SWITCH_CASE", c.cut[k], end, k + 1)

DefaultMark(c, k) ==
  Mark(c, c.cut[k], "SWITCH_DEFAULT", c.cut[k], Last(c.cut), k + 1)

SwitchMark(c) == Mark(c, c.cut[1], "SWITCH", c.cut[1], Last(c.cut), 1)

(* SWITCH_END has the range of the last case. *)
SwitchEndMark(c, k, end) ==
  Mark(c, Last(c.cut), "SWITCH_END", c.cut[k], end, Len(c.cut) + 1)

(* A plausible slip: the case is entered before its switch. *)
LastCaseMarksEarly(c, k, end) ==
  <<CaseMark(c, k, end), SwitchMark(c), SwitchEndMark(c, k, end)>>

LastCaseMarks(c, k, end) ==
  <<SwitchMark(c), CaseMark(c, k, end), SwitchEndMark(c, k, end)>>

(* The other cases come first, each up to the jump that ends it.  The last *)
(* one ends where the default starts: before its own start, when the       *)
(* default comes first.                                                    *)
SwitchMarks(c) ==
  LET n == Len(c.cut) IN
  CASE c.kind = "switch" ->
         [k \in 1 .. n - 2 |-> CaseMark(c, k, c.cut[k + 1] - 1)]
           \o LastCaseMarks(c, n - 1, c.cut[n])
    [] c.kind = "switchdefault" ->
         <<DefaultMark(c, 2)>> \o LastCaseMarks(c, 1, c.cut[2])
    [] c.kind = "defaultswitch" ->
         <<DefaultMark(c, 1)>> \o LastCaseMarks(c, 2, c.cut[1])

Marks(c, list) ==
  CASE c.kind \in {"if", "ifelse"} -> IfMarks(c)
    [] c.kind = "while" -> WhileMarks(c)
    [] c.kind = "do" -> DoMarks(c, list)
    [] c.kind \in {"for", "barefor"} -> ForMarks(c)
    [] c.kind = "foreach" -> ForeachMarks(c)
    [] c.kind = "try" -> TryMarks(c)
    [] OTHER -> SwitchMarks(c)

(* Two entries of one list with ranges of one size. *)
Tied(c, list) ==
  LET ms == Marks(c, list)
      Same(l, e) == IF IsEnd(e) THEN l.ends ELSE l.opens
  IN \E k \in DOMAIN ms, l \in Range(list) :
       /\ l.offset = ms[k].at
       /\ \E e \in Range(Same(l, ms[k].entry)) : Size(e) = Size(ms[k].entry)

-----------------------------------------------------------------------------
ControlInit ==
  /\ script = {} /\ controlList = <<>> /\ output = <<>>
  /\ step = "scan" /\ offset = 0

(* The entries of a statement go into the list one by one. *)
InsertAll(list, marks) ==
  LET all[n \in 0 .. Len(marks)] ==
        IF n = 0 THEN list
        ELSE insert_control_list(all[n - 1], marks[n].at, marks[n].entry)
  IN all[Len(marks)]

(* scan_control_list recognises a statement. *)
RecogniseStatement(c) ==
  /\ step = "scan"
  /\ Cardinality(script) < MaxStatements
  /\ \A d \in script : MetAfter(c, d) /\ Apart(c, d)
  /\ Ties \/ ~Tied(c, controlList)
  /\ script' = script \cup {c}
  /\ controlList' = InsertAll(controlList, Marks(c, controlList))
  /\ UNCHANGED <<step, offset, output>>

scan_control_list == \E c \in Statements : RecogniseStatement(c)

(* The script has no other statement: dump_op_array_ex goes on to the dump. *)
EndScan ==
  /\ step = "scan"
  /\ step' = "dump"
  /\ UNCHANGED <<script, controlList, offset, output>>

Bracket(side, c, body) == [side |-> side, of |-> c, body |-> body]

(* What DumpControlHandlers print for an entry: a statement's first body   *)
(* is opened, the next one (behind an else, a label) replaces it, the end   *)
(* closes the last.  FOREACH                                               *)
(* and FORBRACKET_IN print no bracket.                                     *)
Printed(e) ==
  IF e.flags \in {"FOREACH", "FORBRACKET_IN"} THEN <<>>
  ELSE IF e.flags \in {"IF", "DO", "WHILE", "FOR", "TRY", "CATCH", "SWITCH"}
       THEN <<Bracket("open", e.of, e.body)>>
  ELSE IF e.flags \in {"ELSE", "ELSEIF", "FORBRACKET_END", "SWITCH_CASE", "SWITCH_DEFAULT"}
       THEN <<Bracket("close", e.of, e.body - 1), Bracket("open", e.of, e.body)>>
  ELSE <<Bracket("close", e.of, e.body - 1)>>

(* The handler of FE_FETCH prints the bracket of a foreach. *)
dump_fe_fetch ==
  LET Here == {c \in script : c.kind = "foreach" /\ c.cut[1] = offset}
  IN IF Here = {} THEN <<>> ELSE <<Bracket("open", CHOOSE c \in Here : TRUE, 1)>>

(* dump_control_list: the ends and then the openings at an offset. *)
dump_control_list(entries) ==
  LET text[n \in 0 .. Len(entries)] ==
        IF n = 0 THEN <<>> ELSE text[n - 1] \o Printed(entries[n])
  IN text[Len(entries)]

(* dump_opcode: first dump_control_list, which takes the bottom element of *)
(* the list if it is for this offset, then the opcode.  The last round is  *)
(* the NOP after the opcodes.                                              *)
dump_opcode ==
  /\ step = "dump" /\ offset <= LastOffset
  /\ LET here == controlList # <<>> /\ controlList[1].offset = offset
         l == controlList[1]
         entries == IF here THEN l.ends \o l.opens ELSE <<>>
     IN /\ controlList' = IF here THEN Tail(controlList) ELSE controlList
        /\ output' = output \o dump_control_list(entries) \o dump_fe_fetch
  /\ offset' = offset + 1
  /\ UNCHANGED <<script, step>>

(* A plausible slip: no round for the NOP after the opcodes. *)
LastDumpWithoutNop == offset >= LastOffset

LastDump == offset > LastOffset

EndDump ==
  /\ step = "dump" /\ LastDump
  /\ step' = "done"
  /\ UNCHANGED <<script, controlList, offset, output>>

ControlNext == scan_control_list \/ EndScan \/ dump_opcode \/ EndDump

ControlSpec == ControlInit /\ [][ControlNext]_controlVars

-----------------------------------------------------------------------------
(* Variables hold what the code can put there; both levels of the list are *)
(* in the order dump_control_list relies on.                               *)
ControlTypeOK ==
  /\ script \subseteq Statements
  /\ step \in {"scan", "dump", "done"} /\ offset \in 0 .. LastOffset + 1
  /\ \A k \in DOMAIN controlList : LET l == controlList[k] IN
       /\ l.offset \in AllOffsets
       /\ \A j \in 1 .. k - 1 : controlList[j].offset < l.offset
       /\ \A x \in DOMAIN l.ends : \A y \in 1 .. x - 1 :
            Size(l.ends[y]) <= Size(l.ends[x])
       /\ \A x \in DOMAIN l.opens : \A y \in 1 .. x - 1 :
            Size(l.opens[y]) >= Size(l.opens[x])

(* The bodies open in the text before its i-th bracket. *)
OpenBefore(i) ==
  LET Side(s) == {<<output[j].of, output[j].body>> :
                    j \in {k \in 1 .. i - 1 : output[k].side = s}}
  IN Side("open") \ Side("close")

BodiesAround(c) ==
  UNION {{<<d, b>> : b \in {x \in DOMAIN Bodies(d) : Inside(c, d, x)}} : d \in script}

(* Whatever order the passes of scan_control_list found the statements in, *)
(* the text nests as the source did: where a bracket of a statement is     *)
(* printed, exactly the bodies the statement is in are open, and for a     *)
(* closing bracket the body it closes (dump_control_list, the compare      *)
(* functions and adjust_control_list_start).                               *)
WellNested ==
  \A i \in DOMAIN output : LET o == output[i] IN
    OpenBefore(i) = BodiesAround(o.of) \cup
                      (IF o.side = "close" THEN {<<o.of, o.body>>} ELSE {})

(* When dump_op_array_ex has walked all offsets and the NOP after them, no *)
(* entry is left in the list and every body of every statement has been    *)
(* opened once and closed once.                                            *)
Finished ==
  step = "done" =>
    /\ controlList = <<>>
    /\ \A c \in script : \A b \in DOMAIN Bodies(c), s \in {"open", "close"} :
         Cardinality({i \in DOMAIN output : output[i] = Bracket(s, c, b)}) = 1
    /\ \A i \in DOMAIN output : output[i].of \in script

(* "if ( ){} else {}" (scan_if_list, zend_dump.c:7679): the bracket of a   *)
(* statement in an else is printed while the else is open.                 *)
ElseAroundBody ==
  \A i \in DOMAIN output, d \in script :
    LET o == output[i]  b == Len(Bodies(d)) IN
    d.kind = "ifelse" /\ Inside(o.of, d, b) => <<d, b>> \in OpenBefore(i)

=============================================================================
