------------------------------ MODULE PhpGrammar ------------------------------
(***************************************************************************)
(* The expressions of PHP, as the precedence declarations and the rules of *)
(* src/5.2.1.x/Zend/zend_language_parser.y give them a meaning: a text is   *)
(* a sequence of tokens, its meaning a tree in prefix form.  "v" stands for *)
(* any variable and "1" for any number; "1." is what the scanner makes of a *)
(* number and a dot that touch.                                             *)
(***************************************************************************)
EXTENDS Naturals, Sequences

\* The declarations, from the loosest to the tightest.
Precedences == << {"xor"}, {"print"}, {"="}, {"?"}, {"||"}, {"&&"}, {"&"},
                  {"=="}, {"<"}, {"+", "-", "."}, {"*"}, {"!"},
                  {"~", "(int)", "++"} >>

Level == [t \in UNION {Precedences[i] : i \in DOMAIN Precedences} |->
            CHOOSE i \in DOMAIN Precedences : t \in Precedences[i]]

NonAssociative == {"==", "<"}

BinaryTokens == {"xor", "||", "&&", "&", "==", "<", "+", "-", ".", "*"}

PrefixTokens == {"print", "!", "~", "(int)"}

\* A parse that stops before token "next"; 0 is a syntax error.
Parsed(next, tree) == [next |-> next, tree |-> tree]
SyntaxError == Parsed(0, <<>>)

Token(s, i) == IF i \in DOMAIN s THEN s[i] ELSE "end"

\* Put the operator of a rule in front of the tree of its last operand.
Under(op, p) == IF p = SyntaxError THEN p ELSE Parsed(p.next, op \o p.tree)

RECURSIVE Expression(_, _, _), Operand(_, _), Continued(_, _, _, _)

\* An operand from token i on: an operator in front of an expression takes what
\* binds tighter than itself, an assignment everything that binds tighter than "=".
Operand(s, i) ==
  CASE Token(s, i) = "v" /\ Token(s, i + 1) = "=" ->
         Under(<<"=", "v">>, Expression(s, i + 2, Level["="]))
    [] Token(s, i) = "v" /\ Token(s, i + 1) = "++" -> Parsed(i + 2, <<"post++", "v">>)
    [] Token(s, i) = "++" /\ Token(s, i + 1) = "v" -> Parsed(i + 2, <<"pre++", "v">>)
    [] Token(s, i) \in {"v", "1"} /\ Token(s, i + 1) \notin {"=", "++"} -> Parsed(i + 1, <<s[i]>>)
    [] Token(s, i) \in PrefixTokens ->
         Under(<<s[i]>>, Expression(s, i + 1, Level[s[i]]))
    [] Token(s, i) = "(" ->
         LET p == Expression(s, i + 1, 1)
         IN  IF Token(s, p.next) = ")" THEN Parsed(p.next + 1, p.tree) ELSE SyntaxError
    [] OTHER -> SyntaxError

\* The rest of an expression whose part up to token i has the tree left: operators of
\* at least the level least, each with a right operand that binds tighter.
Continued(s, left, i, least) ==
  LET t == Token(s, i)
  IN  IF t \in BinaryTokens /\ Level[t] >= least
      THEN LET right == Expression(s, i + 1, Level[t] + 1)
           IN  IF \/ right = SyntaxError
                  \/ t \in NonAssociative /\ Token(s, right.next) \in Precedences[Level[t]]
               THEN SyntaxError
               ELSE Continued(s, <<t>> \o left \o right.tree, right.next, least)
      ELSE IF t = "?" /\ Level["?"] >= least
      THEN LET then == Expression(s, i + 1, 1)
               else == Expression(s, then.next + 1, Level["?"] + 1)
           IN  IF then = SyntaxError \/ Token(s, then.next) # ":" \/ else = SyntaxError
               THEN SyntaxError
               ELSE Continued(s, <<"?">> \o left \o then.tree \o else.tree, else.next, least)
      ELSE Parsed(i, left)

Expression(s, i, least) ==
  LET p == Operand(s, i)
  IN  IF p = SyntaxError THEN p ELSE Continued(s, p.tree, p.next, least)

\* The tree of a whole text, <<>> if the parser refuses it.
Meaning(s) ==
  LET p == Expression(s, 1, 1)
  IN  IF p.next = Len(s) + 1 THEN p.tree ELSE <<>>
================================================================================
