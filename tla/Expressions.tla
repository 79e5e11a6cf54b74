------------------------------ MODULE Expressions ------------------------------
(***************************************************************************)
(* The opcode handlers of src/include/zend_dump.c that build the text of   *)
(* an expression.  The compiler leaves an expression as opcodes in postfix  *)
(* order; a handler joins the texts of the operands it finds in the         *)
(* variable table and stores the result there, with the level of its        *)
(* loosest operator (DS_IFLAGS_OT_xxx), by which the next handler decides   *)
(* where brackets are needed.  What the table says must be what PHP reads:  *)
(* the meaning of a text, by PhpGrammar, is the tree the opcodes compute.   *)
(*                                                                         *)
(* "v" is any compiled variable and "1" any number; no @ is open and no     *)
(* operand is a call, so the silence and function flags are never set.      *)
(***************************************************************************)
EXTENDS PhpGrammar, SequencesExt

CONSTANTS
  TwoOps,      (* the binary operators of this instance                      *)
  OneOps,      (* the other operators of this instance                       *)
  Connectives, (* && and ||, or none                                         *)
  Conditions,  (* is there ?: - with JMPZ (FALSE), with JMPNZ (TRUE)?         *)
  MixedOpcodes,(* bound: opcodes of an expression of all operators           *)
  LongOps,     (* the operators of longer ones, beside && || and ?:          *)
  MaxOpcodes,  (* bound: opcodes of an expression of these                   *)
  Allowed      (* the forms the compiler may produce, see Forms              *)

(* Forms of an expression: ! in front of another prefix operator, a          *)
(* comparison as left operand of one of its level, ?: as the last operand of *)
(* ?:, print inside an expression or of one that is looser, a number as the  *)
(* operand of ~, one as the right side of && or ||, a number in an operation *)
(* other than the dot.                                                       *)
Forms == {"not prefix", "comparison chain", "last ternary", "inner print",
          "prefix number", "connected number", "arithmetic number"}

ASSUME ExpressionsAssumption ==
  /\ TwoOps \subseteq BinaryTokens \ {"&&", "||"}
  /\ OneOps \subseteq {"!", "(int)", "~", "++", "print", "="}
  /\ Connectives \subseteq {"&&", "||"} /\ Conditions \subseteq BOOLEAN
  /\ {MixedOpcodes, MaxOpcodes} \subseteq Nat /\ Allowed \subseteq Forms

VARIABLES
  table,       (* the temporaries of the variable table, by id               *)
  QmAssign,    (* Stack->QmAssign: the flags saved for each open ?:          *)
  Trinary,     (* Stack->Trinary: the text of its condition                  *)
  LargeBuffer, (* what the last use of Stack->LargeBuffer left in it         *)
  work,        (* the compiler: what is begun and not yet used               *)
  means,       (* history: the tree of each temporary                        *)
  opcodes      (* how many opcodes there have been                           *)

vars == <<table, QmAssign, Trinary, LargeBuffer, work, means, opcodes>>

-----------------------------------------------------------------------------
(* DS_IFLAGS_OT_xxx, as g_OpTableArray gives them to the opcodes. *)
OT == [t \in {"xor", "=", "?", "||", "&&", "&", "==", "<", "+", "-", ".", "*",
              "!", "~", "(int)", "++", "print"} |->
         CASE t = "xor" -> 18 [] t = "=" -> 32 [] t = "?" -> 40
           [] t = "||" -> 48 [] t = "&&" -> 50 [] t = "&" -> 56
           [] t = "==" -> 64 [] t = "<" -> 68 [] t \in {"+", "-", "."} -> 80
           [] t = "*" -> 88 [] t \in {"!", "~", "(int)"} -> 96
           [] t = "++" -> 104 [] t = "print" -> 0]

MaxOT == 254

(* What UpdateVariableEx leaves in an entry of the table: the text, the level, *)
(* which is the highest if none is given, VE_FLAGS_NUMBER1 and NUMBER2, and    *)
(* the connective of VE_FLAGS_JMPZ_EX and JMPNZ_EX.                            *)
Entry(text, ot, number1, number2, pending) ==
  [text |-> text, ot |-> IF ot = 0 THEN MaxOT ELSE ot, number1 |-> number1,
   number2 |-> number2, pending |-> pending, const |-> FALSE]

Variable == Entry(<<"v">>, MaxOT, FALSE, FALSE, "")

(* An operand that is no variable but a number (IS_CONST). *)
Number == [Entry(<<"1">>, MaxOT, FALSE, FALSE, "") EXCEPT !.const = TRUE]

Brackets(text) == <<"(">> \o text \o <<")">>

BracketsIf(c, text) == IF c THEN Brackets(text) ELSE text

(* DS_IFLAGS_COMPACT, the dot: nothing between the operator and the operands; *)
(* the scanner reads a dot next to a number as part of it.                    *)
Join(left, op, right) ==
  left \o << IF op = "." /\ "1" \in {Last(left), Head(right)} THEN "1." ELSE op >> \o right

-----------------------------------------------------------------------------
(* Altered forms of the definitions that follow them, as a mistake in the code *)
(* would leave them: brackets only round a looser right operand, a level that   *)
(* is added to, a right side of && or || bracketed by a stricter test, the      *)
(* condition of ?: left on its stack.                                           *)
TwoOpLooser(op, x, y) ==
  Entry(Join(BracketsIf(OT[op] > x.ot, x.text), op, BracketsIf(OT[op] > y.ot, y.text)),
        OT[op], FALSE, FALSE, "")

CastFlagsAdded(op, x) ==
  Entry(<<op>> \o BracketsIf(x.ot < OT[op], x.text), OT[op] + x.ot, FALSE, FALSE, "")

RightSideLooser(left, x) == BracketsIf(x.ot < OT[left.pending], x.text)

(* dump_two_op_function: brackets by the levels and, round the operands of a *)
(* dot, by the flags that say that a number stands at its side.              *)
TwoOp(op, x, y) ==
  LET fix     == op = "."                                 (* DS_IFLAGS_FIX_OT *)
      number1 == x.const \/ y.number1
      number2 == x.number2 \/ y.const
      left    == IF x.const THEN fix ELSE (fix /\ x.number2) \/ OT[op] > x.ot
      right   == IF y.const THEN fix ELSE (fix /\ number1) \/ OT[op] >= y.ot
  IN  Entry(Join(BracketsIf(left, x.text), op, BracketsIf(right, y.text)),
            OT[op], number1, number2, "")

(* dump_two_op_function without op2.  For a constant op1 nothing is put in   *)
(* LargeBuffer, and StackPopAllS returns what is there.                      *)
OneOp(op, x) ==
  Entry(IF x.const THEN LargeBuffer ELSE <<op>> \o BracketsIf(OT[op] >= x.ot, x.text),
        OT[op], FALSE, x.number2, "")

PostOp(op, x) ==
  Entry(BracketsIf(OT[op] >= x.ot, x.text) \o <<op>>, OT[op], FALSE, x.number2, "")

(* dump_assign_function. *)
Assign(op, x) ==
  Entry(<<"v", op>> \o BracketsIf(~x.const /\ OT[op] > x.ot, x.text),
        OT[op], FALSE, x.const \/ x.number2, "")

(* dump_cast and dump_print; the table of opcodes has no level for print. *)
Cast(op, x) == Entry(<<op>> \o BracketsIf(x.ot < OT[op], x.text), OT[op], FALSE, FALSE, "")

PrintOf(op, x) == Entry(<<op>> \o x.text, 0, FALSE, FALSE, "")

(* dump_bool_not; of an operand of its own level it drops the first character, *)
(* which it takes for a !.                                                      *)
Negated(x) ==
  CASE x.const \/ x.ot > OT["!"]  -> <<"!">> \o x.text
    [] ~x.const /\ x.ot < OT["!"] -> <<"!">> \o Brackets(x.text)
    [] ~x.const /\ x.ot = OT["!"] -> Tail(x.text)

BoolNot(x) == Entry(Negated(x), OT["!"], x.number1, x.number2, x.pending)

(* The left side of && or || waits in an entry with the flag of its jump;  *)
(* dump_bool, dump_bool_not and dump_jmpx_ex put the right side behind it. *)
Connected(left, text) ==
  BracketsIf(left.ot < OT[left.pending], left.text) \o <<left.pending>> \o text

RightSide(left, x) == BracketsIf(x.ot <= OT[left.pending], x.text)

Bool(left, x) ==
  IF x.const THEN Entry(x.text, MaxOT, FALSE, FALSE, "")
  ELSE Entry(Connected(left, RightSide(left, x)),
             OT[left.pending], x.number1, x.number2, x.pending)

BoolNotOnto(left, x) ==
  Entry(Connected(left, Negated(x)), OT[left.pending], x.number1, x.number2, x.pending)

JmpxEx(op, x) == [x EXCEPT !.pending = op]

JmpxExOnto(op, left, x) ==
  Entry(Connected(left, RightSide(left, x)), OT[left.pending], FALSE, FALSE, op)

Not(jmpnz) == IF jmpnz THEN <<"!">> ELSE <<>>

(* dump_qm_assign, for the first and for the second answer of ?:. *)
FirstAnswer(flags, condition, x) ==
  LET ot == IF flags.jmpnz /\ flags.ot < OT["!"] THEN 0 ELSE flags.ot
  IN  Entry(Not(flags.jmpnz)
              \o BracketsIf(ot < OT["?"], condition)
              \o <<"?">> \o BracketsIf(x.ot < OT["?"], x.text) \o <<":">>,
            OT["?"], FALSE, FALSE, "")

SecondAnswer(open, x) ==
  Entry(open.text \o BracketsIf(x.ot < OT["?"], x.text), OT["?"], FALSE, FALSE, "")

-----------------------------------------------------------------------------
(* The compiler's side.  work holds what is begun, innermost last: a value in  *)
(* a temporary, the left side of && or ||, a condition that awaits the first    *)
(* answer of its ?:, and a ?: that awaits the second.                          *)
Item(kind, t, tree) == [kind |-> kind, t |-> t, tree |-> tree]

Temps(kinds) == Len(SelectSeq(kinds, LAMBDA k : k = "temp"))

Given(kinds) ==
  /\ Temps(kinds) <= Len(work)
  /\ \A k \in 1 .. Temps(kinds) : work[Len(work) - k + 1].kind = "value"

(* The operators and operands in the texts so far, and how many opcodes an     *)
(* expression of them may have.                                                *)
Used ==
  UNION {Range(table[t].text) : t \in DOMAIN table} \union
  UNION {Range(text) : text \in Range(Trinary)}

Bound ==
  IF Used \subseteq LongOps \union {"v", "1", "(", ")", "&&", "||", "?", ":"}
  THEN MaxOpcodes ELSE MixedOpcodes

(* The operands of an opcode: variables, numbers and the last values. *)
Operands(n) ==
  IF opcodes >= Bound THEN {}
  ELSE {kinds \in [1 .. n -> {"variable", "number", "temp"}] : Given(kinds)}

Temp(kinds, i) == work[Len(work) - Temps(kinds) + Temps(SubSeq(kinds, 1, i))].t

EntryOf(kinds, i) ==
  CASE kinds[i] = "variable" -> Variable
    [] kinds[i] = "number"   -> Number
    [] kinds[i] = "temp"     -> table[Temp(kinds, i)]

TreeOf(kinds, i) ==
  CASE kinds[i] = "variable" -> <<"v">>
    [] kinds[i] = "number"   -> <<"1">>
    [] kinds[i] = "temp"     -> means[Temp(kinds, i)]

Below(kinds) == SubSeq(work, 1, Len(work) - Temps(kinds))

Opcode == opcodes' = opcodes + 1

Usable(ops) == IF opcodes < MixedOpcodes THEN ops ELSE ops \cap LongOps

(* The value of an opcode in a new temporary. *)
Produce(kinds, entry, tree) ==
  /\ table' = Append(table, entry)
  /\ means' = Append(means, tree)
  /\ work' = Append(Below(kinds), Item("value", Len(table) + 1, <<>>))

(* The value of an opcode in a temporary that is below its operands. *)
Onto(kinds, kind, entry, tree) ==
  LET below == Below(kinds)
      t     == Last(below).t
  IN  /\ table' = [table EXCEPT ![t] = entry]
      /\ means' = [means EXCEPT ![t] = tree]
      /\ work' = Append(Front(below), Item(kind, t, <<>>))

Waiting(kinds, kind) == Below(kinds) # <<>> /\ Last(Below(kinds)).kind = kind

LeftSide(kinds) == table[Last(Below(kinds)).t]
LeftTree(kinds) == means[Last(Below(kinds)).t]

(* Operands of an opcode that takes no number, or only in that form, and print *)
(* only in its own.                                                            *)
OperandsAre(kinds, form) ==
  /\ (\E i \in DOMAIN kinds : kinds[i] = "number") => form \in Allowed \union {"any number"}
  /\ (\E i \in DOMAIN kinds : kinds[i] = "temp" /\ Head(TreeOf(kinds, i)) = "print")
       => "inner print" \in Allowed

-----------------------------------------------------------------------------
Init ==
  /\ table = <<>> /\ QmAssign = <<>> /\ Trinary = <<>> /\ LargeBuffer = <<>>
  /\ work = <<>> /\ means = <<>> /\ opcodes = 0

(* ADD, CONCAT, IS_EQUAL, ... *)
Binary(op, kinds) ==
  /\ Opcode /\ OperandsAre(kinds, IF op = "." THEN "any number" ELSE "arithmetic number")
  /\ op \in NonAssociative /\ EntryOf(kinds, 1).ot = OT[op] => "comparison chain" \in Allowed
  /\ LET e == TwoOp(op, EntryOf(kinds, 1), EntryOf(kinds, 2))
     IN  /\ Produce(kinds, e, <<op>> \o TreeOf(kinds, 1) \o TreeOf(kinds, 2))
         /\ LargeBuffer' = e.text
  /\ UNCHANGED <<QmAssign, Trinary>>

(* BW_NOT. *)
Complement(kinds) ==
  /\ "~" \in Usable(OneOps) /\ Opcode /\ OperandsAre(kinds, "prefix number")
  /\ LET e == OneOp("~", EntryOf(kinds, 1))
     IN  /\ Produce(kinds, e, <<"~">> \o TreeOf(kinds, 1))
         /\ LargeBuffer' = e.text
  /\ UNCHANGED <<QmAssign, Trinary>>

(* PRE_INC and POST_INC, of a variable. *)
Increment(post, kinds) ==
  /\ "++" \in Usable(OneOps) /\ Opcode
  /\ LET e == IF post THEN PostOp("++", Variable) ELSE OneOp("++", Variable)
     IN  /\ Produce(kinds, e, << IF post THEN "post++" ELSE "pre++", "v" >>)
         /\ LargeBuffer' = e.text
  /\ UNCHANGED <<QmAssign, Trinary>>

(* ASSIGN to a variable. *)
AssignTo(kinds) ==
  /\ "=" \in Usable(OneOps) /\ Opcode /\ OperandsAre(kinds, "arithmetic number")
  /\ LET e == Assign("=", EntryOf(kinds, 1))
     IN  /\ Produce(kinds, e, <<"=", "v">> \o TreeOf(kinds, 1))
         /\ LargeBuffer' = e.text
  /\ UNCHANGED <<QmAssign, Trinary>>

(* CAST, PRINT and BOOL_NOT with a result of its own. *)
Prefix(op, kinds) ==
  /\ op \in Usable(OneOps) /\ Opcode /\ OperandsAre(kinds, "arithmetic number")
  /\ op = "print" /\ Head(TreeOf(kinds, 1)) = "xor" => "inner print" \in Allowed
  /\ op = "!" /\ EntryOf(kinds, 1).ot = OT["!"] => "not prefix" \in Allowed
  /\ LET x == EntryOf(kinds, 1)
     IN  Produce(kinds, CASE op = "(int)" -> Cast(op, x)
                          [] op = "print" -> PrintOf(op, x)
                          [] op = "!"     -> BoolNot(x),
                 <<op>> \o TreeOf(kinds, 1))
  /\ UNCHANGED <<QmAssign, Trinary, LargeBuffer>>

(* The results of ASSIGN and PRE_INC are variables (IS_VAR). *)
IsTmp(kinds) == kinds[1] = "temp" /\ Head(TreeOf(kinds, 1)) \notin {"=", "pre++"}

(* JMPZ_EX and JMPNZ_EX: the left side of && or ||.  A temporary keeps its id, *)
(* anything else gets one.                                                      *)
Connect(op, kinds) ==
  /\ Opcode /\ OperandsAre(kinds, "no number")
  /\ LET e == JmpxEx(op, EntryOf(kinds, 1))
     IN  \/ /\ IsTmp(kinds)
            /\ Onto(<<>>, "left", e, TreeOf(kinds, 1))
         \/ /\ ~IsTmp(kinds)
            /\ table' = Append(table, e)
            /\ means' = Append(means, TreeOf(kinds, 1))
            /\ work' = Append(Below(kinds), Item("left", Len(table) + 1, <<>>))
  /\ UNCHANGED <<QmAssign, Trinary, LargeBuffer>>

(* BOOL: the right side. *)
ConnectRight(kinds) ==
  /\ Opcode /\ OperandsAre(kinds, "connected number") /\ Waiting(kinds, "left")
  /\ LET left == LeftSide(kinds)
     IN  Onto(kinds, "value", Bool(left, EntryOf(kinds, 1)),
              <<left.pending>> \o LeftTree(kinds) \o TreeOf(kinds, 1))
  /\ UNCHANGED <<QmAssign, Trinary, LargeBuffer>>

(* An optimiser makes one opcode of BOOL_NOT and BOOL, ... *)
ConnectedNot(kinds) ==
  /\ Opcode /\ OperandsAre(kinds, "no number") /\ Waiting(kinds, "left")
  /\ EntryOf(kinds, 1).ot = OT["!"] => "not prefix" \in Allowed
  /\ LET left == LeftSide(kinds)
     IN  Onto(kinds, "value", BoolNotOnto(left, EntryOf(kinds, 1)),
              <<left.pending>> \o LeftTree(kinds) \o <<"!">> \o TreeOf(kinds, 1))
  /\ UNCHANGED <<QmAssign, Trinary, LargeBuffer>>

(* ... and of BOOL and the JMPZ_EX or JMPNZ_EX behind it. *)
ConnectedAndConnect(op, kinds) ==
  /\ Opcode /\ OperandsAre(kinds, "no number") /\ Waiting(kinds, "left")
  /\ LET left == LeftSide(kinds)
     IN  Onto(kinds, "left", JmpxExOnto(op, left, EntryOf(kinds, 1)),
              <<left.pending>> \o LeftTree(kinds) \o TreeOf(kinds, 1))
  /\ UNCHANGED <<QmAssign, Trinary, LargeBuffer>>

(* JMPZ, or the JMPNZ of an optimised !, in front of the answers of ?:. *)
Condition(jmpnz, kinds) ==
  /\ Opcode /\ OperandsAre(kinds, "no number")
  /\ QmAssign' = Append(QmAssign, [ot |-> EntryOf(kinds, 1).ot, jmpnz |-> jmpnz, qm |-> FALSE])
  /\ Trinary' = Append(Trinary, EntryOf(kinds, 1).text)
  /\ work' = Append(Below(kinds),
                    Item("condition", 0, Not(jmpnz) \o TreeOf(kinds, 1)))
  /\ UNCHANGED <<table, means, LargeBuffer>>

(* QM_ASSIGN, where Flags on the stack tell which answer it is. *)
QmFirst(kinds) ==
  /\ Opcode /\ OperandsAre(kinds, "arithmetic number")
  /\ Waiting(kinds, "condition") /\ ~Last(QmAssign).qm
  /\ table' = Append(table, FirstAnswer(Last(QmAssign), Last(Trinary), EntryOf(kinds, 1)))
  /\ means' = Append(means, <<"?">> \o Last(Below(kinds)).tree \o TreeOf(kinds, 1))
  /\ work' = Append(Front(Below(kinds)), Item("first", Len(table) + 1, Last(Below(kinds)).tree))
  /\ QmAssign' = [QmAssign EXCEPT ![Len(QmAssign)].qm = TRUE]
  /\ UNCHANGED <<Trinary, LargeBuffer>>

QmSecondKeeps(kinds) ==
  /\ Opcode /\ OperandsAre(kinds, "arithmetic number")
  /\ Waiting(kinds, "first") /\ Last(QmAssign).qm
  /\ EntryOf(kinds, 1).ot = OT["?"] => "last ternary" \in Allowed
  /\ Onto(kinds, "value", SecondAnswer(LeftSide(kinds), EntryOf(kinds, 1)),
          LeftTree(kinds) \o TreeOf(kinds, 1))
  /\ QmAssign' = Front(QmAssign)
  /\ UNCHANGED <<Trinary, LargeBuffer>>

QmSecond(kinds) ==
  /\ Opcode /\ OperandsAre(kinds, "arithmetic number")
  /\ Waiting(kinds, "first") /\ Last(QmAssign).qm
  /\ EntryOf(kinds, 1).ot = OT["?"] => "last ternary" \in Allowed
  /\ Onto(kinds, "value", SecondAnswer(LeftSide(kinds), EntryOf(kinds, 1)),
          LeftTree(kinds) \o TreeOf(kinds, 1))
  /\ QmAssign' = Front(QmAssign)
  /\ Trinary' = Front(Trinary)
  /\ UNCHANGED LargeBuffer

Next ==
  \/ \E kinds \in Operands(2), op \in Usable(TwoOps) : Binary(op, kinds)
  \/ \E kinds \in Operands(0), post \in BOOLEAN : Increment(post, kinds)
  \/ \E kinds \in Operands(1) :
       \/ Complement(kinds)
       \/ AssignTo(kinds)
       \/ \E op \in {"(int)", "print", "!"} : Prefix(op, kinds)
       \/ \E op \in Connectives : Connect(op, kinds)
       \/ ConnectRight(kinds)
       \/ ConnectedNot(kinds)
       \/ \E op \in Connectives : ConnectedAndConnect(op, kinds)
       \/ \E jmpnz \in Conditions : Condition(jmpnz, kinds)
       \/ QmFirst(kinds)
       \/ QmSecond(kinds)

Spec == Init /\ [][Next]_vars

-----------------------------------------------------------------------------
(* Levels are those of operators, each temporary has its tree. *)
TypeOK ==
  /\ \A t \in DOMAIN table :
       /\ table[t].ot \in (Range(OT) \ {0}) \union {MaxOT}
       /\ table[t].pending \in {"", "&&", "||"}
  /\ DOMAIN table = DOMAIN means /\ opcodes \in 0 .. MaxOpcodes

(* The text of a finished expression means what its opcodes compute: the     *)
(* brackets the handlers write are enough for the grammar that reads them,   *)
(* in whatever order operators, connectives and ?: are put together.         *)
TextMeansCode ==
  \A i \in DOMAIN work :
    work[i].kind = "value" => Meaning(table[work[i].t].text) = means[work[i].t]

(* QmAssign and Trinary, which no opcode names, hold the open ?: from the     *)
(* outermost to the innermost, each with its own condition, and tell which    *)
(* answer is next, however ?: are nested in conditions and answers.           *)
OpenTernaries ==
  LET open == SelectSeq(work, LAMBDA w : w.kind \in {"condition", "first"})
  IN  /\ Len(QmAssign) = Len(open) /\ Len(Trinary) = Len(open)
      /\ \A k \in DOMAIN open :
           /\ QmAssign[k].qm <=> open[k].kind = "first"
           /\ Not(QmAssign[k].jmpnz) \o Meaning(Trinary[k]) = open[k].tree
================================================================================
