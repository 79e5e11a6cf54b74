----------------------------- MODULE BreakLists -----------------------------
(***************************************************************************)
(* How the dumper tells "break" and "continue" from other jumps.  An       *)
(* optimiser turns ZEND_BRK and ZEND_CONT into plain ZEND_JMP.  The scans  *)
(* of src/include/zend_dump.c enter each loop in Stack->BreakList and      *)
(* Stack->ContinueList, first what brk_cont_array says (DS_FLAGS_INTERNAL),*)
(* then what the second scan recognises, and ask the lists with GetBreak   *)
(* and GetContinue what a jump is.                                         *)
(*                                                                         *)
(* The input is the loops of a script, with the offsets PHP compiles them  *)
(* to, and one break or continue statement in them.  A condition is one    *)
(* opcode; a switch has one case, after its default when it has one.  What *)
(* surrounds the loops is no part of the model but for what the scans look *)
(* at: the opcode before the jump and the one before its target.  That the *)
(* second scan finds the bounds of each loop is taken as given.            *)
(***************************************************************************)
EXTENDS OpArray, SequencesExt

CONSTANTS
  Kinds,       (* the kinds of loop the scripts use                        *)
  MaxLoops,    (* bound: loops in a script                                 *)
  Levels,      (* the levels of break and continue the scripts use         *)
  NULL

ASSUME BreakAssumption ==
  /\ MaxLoops \in Nat /\ Levels \subseteq Nat \ {0}
  /\ Kinds \subseteq {"while", "do", "for", "foreach", "switch", "default"}
  /\ NULL \notin [at : Nat, to : Nat, before : {"other", "end", "brk"},
                  reached : BOOLEAN, behindCase : BOOLEAN]
  /\ NULL \notin {"nothing", "break", "continue", "do while ( 1 )", "skipped", "lost"}
  /\ NULL \notin [cont : Nat, brk : Nat, start : Nat, end : Nat, internal : BOOLEAN]

VARIABLES
  loops,         (* in the order of OpArray->brk_cont_array                *)
  jump,          (* the ZEND_JMP of one break or continue, or NULL         *)
  found,         (* the loops the second scan has recognised               *)
  breakList,     (* Stack->BreakList                                       *)
  continueList,  (* Stack->ContinueList                                    *)
  pass,          (* "compile", "first" to "fourth" scan, "dump"            *)
  printed        (* what the scans make of the jump                        *)

lists == <<breakList, continueList>>
vars  == <<loops, jump, found, lists, pass, printed>>

Offsets == 0 .. LastOffset - 1

(* What the scans see of the opcodes around a jump.  before: the opcode in *)
(* front of it is a ZEND_RETURN or ZEND_EXIT ("end"), or a ZEND_BRK or     *)
(* ZEND_CONT ("brk").  reached: control comes to it.  behindCase: a JMP    *)
(* that leads to a ZEND_CASE is in front of its target.                    *)
Contexts == [before : {"other", "end", "brk"}, reached : BOOLEAN, behindCase : BOOLEAN]

Jumps == [at : Offsets, to : Offsets, before : {"other", "end", "brk"},
          reached : BOOLEAN, behindCase : BOOLEAN]

Jump(at, to, c) == [at |-> at, to |-> to, before |-> c.before,
                    reached |-> c.reached, behindCase |-> c.behindCase]

-----------------------------------------------------------------------------
(* A loop: its first offset, the offset at which the second scan meets it  *)
(* and the offset the scan takes for its end.                              *)
Shapes ==
  {l \in [kind : Kinds, start : Offsets, key : Offsets, end : Offsets] :
     CASE l.kind = "do"      -> l.start < l.end /\ l.key = l.end
       [] l.kind = "for"     -> /\ l.key \in {l.start, l.start + 1}
                                /\ l.key + 5 <= l.end
       [] l.kind = "default" -> l.start + 6 <= l.end /\ l.key = l.end - 3
       [] OTHER              -> l.start + 4 <= l.end /\ l.key = l.start}

(* What PHP's compiler enters in brk_cont_array. *)
brk(l)  == IF l.kind = "do" THEN l.end + 1 ELSE l.end

cont(l) == CASE l.kind = "for" -> l.key + 1
             [] l.kind \in {"do", "switch", "default"} -> l.end
             [] OTHER -> l.start

Target(word, l) == IF word = "break" THEN brk(l) ELSE cont(l)

(* The opcodes of the body: those between the jumps the loop consists of.  *)
Body(l) == CASE l.kind = "do"      -> l.start .. l.end - 1
             [] l.kind = "for"     -> l.key + 3 .. l.end - 2
             [] l.kind = "switch"  -> l.start + 2 .. l.end - 2
             [] l.kind = "default" -> l.start + 1 .. l.end - 5
             [] OTHER              -> l.start + 1 .. l.end - 2

(* All its opcodes: foreach has FE_RESET before and SWITCH_FREE behind.    *)
FirstOf(l) == IF l.kind = "foreach" THEN l.start - 1 ELSE l.start
LastOf(l)  == IF l.kind \in {"do", "foreach"} THEN l.end ELSE l.end - 1

Within(c, d) == FirstOf(c) .. LastOf(c) \subseteq Body(d)

(* The loops around an offset, the innermost at level 1. *)
Around(o)   == {l \in Range(loops) : o \in Body(l)}
Level(o, l) == 1 + Cardinality({c \in Around(o) : Within(c, l)})

(* The jump back at the end of a loop: in a switch it leads to the default.*)
BackTo(l) == CASE l.kind \in {"while", "foreach"} -> {l.start}
               [] l.kind = "for"                  -> {l.key + 1}
               [] l.kind = "default"              -> {l.start + 1}
               [] OTHER                           -> {}

-----------------------------------------------------------------------------
(* Compiling: do_begin_loop takes the next entry of brk_cont_array, so the *)
(* outer of two loops comes first.                                         *)
CompileLoop(l) ==
  /\ pass = "compile" /\ jump = NULL /\ Len(loops) < MaxLoops
  /\ FirstOf(l) >= 0 /\ brk(l) \in Offsets
  /\ \A c \in Range(loops) : Within(l, c) \/ LastOf(c) < FirstOf(l)
  /\ loops' = Append(loops, l)
  /\ UNCHANGED <<jump, found, lists, pass, printed>>

(* An offset for statements of the script: none of a loop's own opcodes.   *)
Free(o) == \A l \in Range(loops) : o \in FirstOf(l) .. LastOf(l) => o \in Body(l)

(* The first opcode of a switch whose default comes first is a JMP to its  *)
(* case; elsewhere such a JMP ends, say, what an else and a switch follow. *)
FirstOfDefault(to) == \E l \in Range(loops) : l.kind = "default" /\ to = l.start + 1

(* What may be in front of a jump and of its target.  In front of opcode 0 *)
(* the scan reads whatever is there.  A jump behind a RETURN, EXIT, BRK or *)
(* CONT is reached when another jump leads to it.                          *)
FitsIn(j) ==
  /\ j.before # "other" => j.at = 0 \/ Free(j.at - 1)
  /\ j.before = "brk" => j.at = 0 \/ Around(j.at - 1) # {}
  /\ ~j.reached => j.at > 0 /\ j.before # "other"
  /\ j.behindCase => j.to \in 1 .. j.at - 1 /\ (FirstOfDefault(j.to) \/ Free(j.to - 1))
  /\ j.to < j.at /\ FirstOfDefault(j.to) => j.behindCase

(* A break or continue of n levels at o, made a plain jump.  Leaving a     *)
(* foreach for an outer loop takes more than a jump and is no candidate.   *)
CompileJump(o, n, word, c) ==
  /\ pass = "compile" /\ jump = NULL
  /\ Free(o)
  /\ \E l \in Around(o) :
       /\ Level(o, l) = n
       /\ \A d \in Around(o) : Within(d, l) => d.kind # "foreach"
       /\ FitsIn(Jump(o, Target(word, l), c))
       /\ jump' = Jump(o, Target(word, l), c)
  /\ pass' = "first"
  /\ UNCHANGED <<loops, found, lists, printed>>

-----------------------------------------------------------------------------
(* A plausible slip: the end of a loop taken for the opcode behind it. *)
EntryOffByOne(l) == [cont |-> cont(l), brk |-> brk(l) + 1, start |-> l.start,
                     end |-> l.end, internal |-> FALSE]

Entry(l)    == [cont |-> cont(l), brk |-> brk(l), start |-> l.start,
                end |-> l.end, internal |-> FALSE]

Internal(l) == [cont |-> cont(l), brk |-> brk(l), start |-> cont(l),
                end |-> brk(l), internal |-> TRUE]

(* StackPushAscT by the field that orders the list: behind its equals.     *)
PushAsc(list, field, e) ==
  LET i == Cardinality({j \in DOMAIN list : list[j][field] <= e[field]})
  IN  InsertAt(list, i + 1, e)

(* insert_cont_brk_list. *)
InsertContBrk(e) ==
  /\ breakList'    = PushAsc(breakList, "brk", e)
  /\ continueList' = PushAsc(continueList, "cont", e)

(* Before the first scan: the entries of brk_cont_array, in its order.     *)
EnterInternal ==
  /\ pass = "first"
  /\ IF Len(breakList) < Len(loops)
     THEN InsertContBrk(Internal(loops[Len(breakList) + 1])) /\ UNCHANGED pass
     ELSE pass' = "second" /\ UNCHANGED lists
  /\ UNCHANGED <<loops, jump, found, printed>>

(* A plausible slip: the target of the jump back is not compared. *)
SuperfluousAnyJump ==
  \E l \in Range(loops) : jump.at + 1 = l.end - 1

(* The second scan drops a jump that the next opcode makes superfluous.    *)
Superfluous ==
  \/ jump.to = jump.at + 1
  \/ \E l \in Range(loops) : jump.at + 1 = l.end - 1 /\ jump.to \in BackTo(l)

(* The second scan meets the loops in the order of their keys and enters   *)
(* each as it recognises it.                                               *)
Recognise ==
  /\ pass = "second"
  /\ \E l \in Range(loops) \ found :
       /\ \A c \in Range(loops) \ found : l.key <= c.key
       /\ InsertContBrk(Entry(l))
       /\ found' = found \union {l}
  /\ UNCHANGED <<loops, jump, pass, printed>>

SecondEnd ==
  /\ pass = "second" /\ found = Range(loops)
  /\ IF Superfluous THEN pass' = "dump" /\ printed' = "nothing"
                    ELSE pass' = "third" /\ UNCHANGED printed
  /\ UNCHANGED <<loops, jump, found, lists>>

(* The last of the entries with that target whose range has the offset.    *)
Containing(list, field, to, o) ==
  LET hits == {k \in DOMAIN list :
                 list[k][field] = to /\ list[k].start <= o /\ o < list[k].end}
  IN  IF hits = {} THEN NULL ELSE list[Max(hits)]

GetBreak(to, o)    == Containing(breakList, "brk", to, o)
GetContinue(to, o) == Containing(continueList, "cont", to, o)

(* "Switch( ){ default : ... case : ... }": a jump back to what comes      *)
(* after a jump to a case, whatever loop that is the head of.              *)
ToDefault == jump.to < jump.at /\ jump.behindCase

(* The third scan takes a jump back that no recognised loop explains for   *)
(* the end of an endless loop: for ( ; ; ) or do { } while ( 1 ).          *)
ThirdScan ==
  /\ pass = "third"
  /\ IF ToDefault
     THEN pass' = "dump" /\ printed' = "skipped"
     ELSE LET c == GetContinue(jump.to, jump.at)
          IN  IF jump.to < jump.at /\ (c = NULL \/ c.internal)
              THEN pass' = "dump" /\ printed' = "do while ( 1 )"
              ELSE pass' = "fourth" /\ UNCHANGED printed
  /\ UNCHANGED <<loops, jump, found, lists>>

(* A plausible slip: the two questions the wrong way round. *)
FourthScanContinueFirst ==
  /\ pass = "fourth"
  /\ printed' = IF jump.before # "other" THEN "nothing"
                ELSE IF GetContinue(jump.to, jump.at) # NULL THEN "continue"
                ELSE "break"
  /\ pass' = "dump"
  /\ UNCHANGED <<loops, jump, found, lists>>

(* The fourth scan: a statement for each jump that is left, but for those  *)
(* directly behind an opcode that control does not pass.                   *)
FourthScan ==
  /\ pass = "fourth"
  /\ printed' = IF jump.before = "brk" THEN "nothing"
                ELSE IF GetBreak(jump.to, jump.at) # NULL
                THEN IF jump.before = "end" THEN "nothing" ELSE "break"
                ELSE IF GetContinue(jump.to, jump.at) # NULL
                THEN IF jump.before = "end" THEN "nothing" ELSE "continue"
                ELSE "lost"
  /\ pass' = "dump"
  /\ UNCHANGED <<loops, jump, found, lists>>

Dumped == pass = "dump" /\ UNCHANGED vars

Init ==
  /\ loops = <<>> /\ jump = NULL /\ found = {}
  /\ breakList = <<>> /\ continueList = <<>>
  /\ pass = "compile" /\ printed = NULL

Next ==
  \/ \E l \in Shapes : CompileLoop(l)
  \/ \E o \in Offsets, n \in Levels, word \in {"break", "continue"}, c \in Contexts :
       CompileJump(o, n, word, c)
  \/ EnterInternal \/ Recognise \/ SecondEnd \/ ThirdScan \/ FourthScan
  \/ Dumped

Spec == Init /\ [][Next]_vars

-----------------------------------------------------------------------------
Entries == [cont : Offsets, brk : Offsets, start : Offsets, end : Offsets,
            internal : BOOLEAN]

(* The state has its type.  The two lists hold the same entries, each in   *)
(* the order that the binary search of GetBreak and GetContinue relies on. *)
TypeOK ==
  /\ loops \in Seq(Shapes) /\ Len(loops) <= MaxLoops
  /\ jump \in Jumps \union {NULL}
  /\ found \subseteq Range(loops)
  /\ breakList \in Seq(Entries) /\ continueList \in Seq(Entries)
  /\ \A i, j \in DOMAIN breakList : i < j => breakList[i].brk <= breakList[j].brk
  /\ \A i, j \in DOMAIN continueList :
       i < j => continueList[i].cont <= continueList[j].cont
  /\ Len(breakList) = Len(continueList) /\ Range(breakList) = Range(continueList)
  /\ pass \in {"compile", "first", "second", "third", "fourth", "dump"}
  /\ printed \in {"nothing", "break", "continue", "do while ( 1 )", "skipped",
                  "lost", NULL}

(* The printed statement, compiled again, makes the jump that was dumped:  *)
(* PHP takes the word for one that goes to the innermost loop.             *)
JumpMeans ==
  printed \in {"break", "continue"} =>
    \E l \in Around(jump.at) :
      Level(jump.at, l) = 1 /\ jump.to = Target(printed, l)

(* The jumps the scans are known not to see: a jump back to what follows a *)
(* JMP to a case, taken for the own jump of a switch, and a jump that      *)
(* control reaches although it stands behind a RETURN, EXIT, BRK or CONT.  *)
Overlooked == ToDefault \/ (jump.reached /\ jump.before # "other")

(* Every other jump is printed as a jump, unless the script does the same  *)
(* without it: none is skipped, none out of a statement or back to its     *)
(* head makes an endless loop that the script does not have, and what is   *)
(* left out leads where control goes anyway or is never reached.           *)
NoJumpLost ==
  printed # NULL /\ ~Overlooked =>
    /\ printed \notin {"skipped", "lost", "do while ( 1 )"}
    /\ printed = "nothing" =>
         \/ jump.to \in {jump.at + 1} \union UNION {BackTo(l) : l \in Range(loops)}
         \/ ~jump.reached
=============================================================================
