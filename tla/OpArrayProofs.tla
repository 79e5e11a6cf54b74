--------------------------- MODULE OpArrayProofs ---------------------------
(***************************************************************************)
(* Proofs about ControlList and BreakLists, what the scans of an op array  *)
(* leave and how it is printed, for op arrays of any length with any       *)
(* number of statements and loops.                                         *)
(*                                                                         *)
(* The text of the brackets is compared with an order that is known before *)
(* a list is built: each bracket has a key, the offset of the entry that   *)
(* prints it and the rank of the entry among those of its offset.  At any  *)
(* time the text has the brackets of the offsets before, each once, and    *)
(* the list has the entries of the other offsets (CInv); when nothing ties *)
(* both are in the order of the keys (SInv).  What is then left is about   *)
(* single statements, and pairs of them: the key of a bracket is between   *)
(* those of the two of a body just when its statement is in the body       *)
(* (NestIs).                                                               *)
(*                                                                         *)
(* What a printed word means for a jump depends on how loops nest          *)
(* (NestInv), on the jump leading where its statement leads (JumpInv), on  *)
(* every loop that the second scan has recognised being in both lists      *)
(* (EntriesInv), and on the entries of brk_cont_array coming before it     *)
(* (OrderInv).                                                             *)
(***************************************************************************)
EXTENDS ControlList, BreakLists, ListLemmas

(* The flags of entries. *)
Flags == {"IF", "ELSEIF", "ELSE", "IF_END", "WHILE", "WHILE_END", "DO", "DO_WHILE_END",
          "FOR", "FORBRACKET_IN", "FORBRACKET_END", "FOR_END", "FOREACH", "FOREACH_END",
          "TRY", "TRY_END", "CATCH", "CATCH_END",
          "SWITCH", "SWITCH_CASE", "SWITCH_DEFAULT", "SWITCH_END"}

(* Entries, and the places to insert them. *)
ControlEntries == [flags : Flags, start : AllOffsets, end : AllOffsets, of : Statements, body : 1 .. 5]
MarkTypes == [at : AllOffsets, entry : ControlEntries]

(* The entries of a statement whatever the list is: a do has the start it was
   compiled with unless something crosses it. *)
MarksOf(c) ==
  IF c.kind = "do"
  THEN <<Mark(c, c.cut[1], "DO", c.cut[1], c.cut[2], 1),
         Mark(c, c.cut[2], "DO_WHILE_END", c.cut[1], c.cut[2], 2)>>
  ELSE Marks(c, <<>>)

(* What an entry prints: an opening bracket, a closing one, or both. *)
Opens(e) == e.flags \in
  {"IF", "DO", "WHILE", "FOR", "TRY", "CATCH", "SWITCH", "ELSE", "ELSEIF",
   "FORBRACKET_END", "SWITCH_CASE", "SWITCH_DEFAULT"}

Closes(e) == e.flags \notin
  {"FOREACH", "FORBRACKET_IN", "IF", "DO", "WHILE", "FOR", "TRY", "CATCH", "SWITCH"}

(* Where an entry stands among those of its offset: the ends come first, small
   ones before large ones, and then the openings, large ones before small ones; a
   case is behind its switch. *)
EntryRank(e) ==
  IF IsEnd(e) THEN 2 * Size(e)
  ELSE 6 * LastOffset + 3 - 2 * Size(e) + (IF e.flags = "SWITCH_CASE" THEN 1 ELSE 0)

(* One entry is printed before another. *)
Sooner(m1, m2) ==
  m1.at < m2.at \/ (m1.at = m2.at /\ EntryRank(m1.entry) < EntryRank(m2.entry))

(* The plan of a statement of any kind: its entries are typed and distinct, each
   body has what opens and what closes it, and no range of an entry crosses a
   body. *)
Typed(c) == LET ms == MarksOf(c) IN
  /\ ms \in Seq(MarkTypes) /\ Len(ms) > 0
  /\ \A i \in DOMAIN ms : ms[i].entry.of = c
Distinct(c) == LET ms == MarksOf(c) IN
  \A i, j \in DOMAIN ms : i # j => ms[i] # ms[j]
Turned(c) == LET ms == MarksOf(c) IN
  /\ \A i \in DOMAIN ms : LET e == ms[i].entry IN
       /\ Opens(e) => e.body \in DOMAIN Bodies(c)
       /\ Closes(e) => e.body - 1 \in DOMAIN Bodies(c)
       /\ c.kind = "foreach" => ~Opens(e)
  /\ \A b \in DOMAIN Bodies(c) :
       /\ \/ c.kind = "foreach" /\ b = 1
          \/ \E i \in DOMAIN ms : Opens(ms[i].entry) /\ ms[i].entry.body = b
       /\ \E i \in DOMAIN ms : Closes(ms[i].entry) /\ ms[i].entry.body - 1 = b
  /\ \A i, j \in DOMAIN ms :
       \/ i = j
       \/ ms[i].entry.body # ms[j].entry.body
       \/ /\ ~(Opens(ms[i].entry) /\ Opens(ms[j].entry))
          /\ ~(Closes(ms[i].entry) /\ Closes(ms[j].entry))
Spans(c) == LET ms == MarksOf(c) IN
  \A i \in DOMAIN ms : LET e == ms[i].entry IN
    /\ First(c) <= e.start /\ e.end <= Beyond(c)
    /\ \A b \in DOMAIN Bodies(c) : LET lo == Bodies(c)[b][1]  hi == Bodies(c)[b][2] IN
         e.end <= lo \/ e.start >= hi \/ (e.start <= lo /\ e.end >= hi)

(* The plan of a straight statement, any but a for without its first expression
   and a switch with its default first: what ties is inserted in the order of
   the ranks (InFront); the entries at the first offset are openings, those at
   the last are ends (Edges); what opens a body is in front of the body and no
   smaller, what closes it is behind it and no smaller (Enclose); the entries are
   in the order of the bodies (Turns); a body is smaller than its statement
   (Inner). *)
InFront(c) == LET ms == MarksOf(c) IN
  \A i, j \in DOMAIN ms :
    i < j /\ ms[i].at = ms[j].at /\ (IsEnd(ms[i].entry) <=> IsEnd(ms[j].entry)) =>
      Size(ms[i].entry) # Size(ms[j].entry) \/ EntryRank(ms[i].entry) < EntryRank(ms[j].entry)
Edges(c) == LET ms == MarksOf(c) IN
  /\ 0 <= First(c) /\ First(c) < Beyond(c) /\ First(c) <= LastOffset
  /\ \A i \in DOMAIN ms : LET m == ms[i]  e == ms[i].entry IN
    /\ 0 < Size(e) /\ Size(e) <= Beyond(c) - First(c)
    /\ First(c) <= m.at /\ m.at <= Beyond(c)
    /\ m.at = First(c) => ~IsEnd(e)
    /\ m.at = Beyond(c) => IsEnd(e)
Enclose(c) == LET ms == MarksOf(c) IN
  \A i \in DOMAIN ms : LET m == ms[i]  e == ms[i].entry IN
    /\ Opens(e) /\ Bodies(c)[e.body] # NoBody =>
         LET lo == Bodies(c)[e.body][1]  hi == Bodies(c)[e.body][2] IN
         m.at < lo \/ (m.at = lo /\ (IsEnd(e) \/ Size(e) >= hi - lo))
    /\ Closes(e) /\ Bodies(c)[e.body - 1] # NoBody =>
         LET lo == Bodies(c)[e.body - 1][1]  hi == Bodies(c)[e.body - 1][2] IN
         m.at > hi \/ (m.at = hi /\ IsEnd(e) /\ Size(e) >= hi - lo)
Turns(c) == LET ms == MarksOf(c) IN
  \A i, j \in DOMAIN ms :
    LET o == ms[i].entry  p == ms[j].entry IN
    /\ Opens(o) /\ Opens(p) /\ o.body < p.body => Sooner(ms[i], ms[j])
    /\ Closes(o) /\ Closes(p) /\ o.body < p.body => Sooner(ms[i], ms[j])
    /\ Opens(o) /\ Closes(p) /\ o.body < p.body => Sooner(ms[i], ms[j])
    /\ Closes(o) /\ Opens(p) /\ o.body <= p.body => i = j \/ Sooner(ms[i], ms[j])
Inner(c) ==
  \A b \in DOMAIN Bodies(c) : LET lo == Bodies(c)[b][1]  hi == Bodies(c)[b][2] IN
    \/ Bodies(c)[b] = NoBody
    \/ First(c) <= lo /\ hi <= Beyond(c) /\ (First(c) < lo \/ hi < Beyond(c))

(* A statement is of a known kind, with cuts of that kind. *)
LEMMA StatementIs ==
  ASSUME NEW c \in Statements
  PROVE  /\ c.kind \in StatementKinds /\ c.cut \in CutsOf(c.kind)
         /\ c.kind \in {"if", "ifelse", "while", "do", "for", "barefor", "foreach", "try",
                        "switch", "switchdefault", "defaultswitch"}
BY ControlAssumption DEF Statements

(* Cuts are offsets. *)
LEMMA CutIs ==
  ASSUME NEW n \in Nat, NEW cut \in [1 .. n -> AllOffsets]
  PROVE  /\ cut \in Seq(AllOffsets) /\ Len(cut) = n
         /\ \A k \in 1 .. n : cut[k] \in Nat /\ cut[k] <= LastOffset
<1>1. LastOffset \in Nat
  BY OpArrayAssumption
<1>2. cut \in Seq(AllOffsets) /\ Len(cut) = n
  OBVIOUS
<1> QED
  BY <1>1, <1>2 DEF AllOffsets

(* Where the cuts of a while can be. *)
LEMMA WhileCut ==
  ASSUME NEW c \in Statements, c.kind = "while"
  PROVE  /\ Len(c.cut) = 2 /\ c.cut \in Seq(AllOffsets)
         /\ \A k \in 1 .. 2 : c.cut[k] \in Nat /\ c.cut[k] <= LastOffset
         /\ c.cut[1] + 3 <= c.cut[2]
<1>1. CutsOf("while") = {x \in Cuts(2) : x[1] + 3 <= x[2]}
  BY DEF CutsOf
<1>2. c.cut \in Cuts(2) /\ c.cut[1] + 3 <= c.cut[2]
  BY <1>1, StatementIs
<1>3. 2 \in Nat /\ c.cut \in [1 .. 2 -> AllOffsets]
  BY <1>2 DEF Cuts
<1>4. /\ Len(c.cut) = 2 /\ c.cut \in Seq(AllOffsets)
      /\ \A k \in 1 .. 2 : c.cut[k] \in Nat /\ c.cut[k] <= LastOffset
  BY <1>3, CutIs
<1> QED
  BY <1>2, <1>4

(* Where the cuts of a try can be. *)
LEMMA TryCut ==
  ASSUME NEW c \in Statements, c.kind = "try"
  PROVE  /\ Len(c.cut) = 3 /\ c.cut \in Seq(AllOffsets)
         /\ \A k \in 1 .. 3 : c.cut[k] \in Nat /\ c.cut[k] <= LastOffset
         /\ c.cut[1] + 2 <= c.cut[2] /\ c.cut[2] + 3 <= c.cut[3]
<1>1. CutsOf("try") = {x \in Cuts(3) : x[1] + 2 <= x[2] /\ x[2] + 3 <= x[3]}
  BY DEF CutsOf
<1>2. c.cut \in Cuts(3) /\ c.cut[1] + 2 <= c.cut[2] /\ c.cut[2] + 3 <= c.cut[3]
  BY <1>1, StatementIs
<1>3. 3 \in Nat /\ c.cut \in [1 .. 3 -> AllOffsets]
  BY <1>2 DEF Cuts
<1>4. /\ Len(c.cut) = 3 /\ c.cut \in Seq(AllOffsets)
      /\ \A k \in 1 .. 3 : c.cut[k] \in Nat /\ c.cut[k] <= LastOffset
  BY <1>3, CutIs
<1> QED
  BY <1>2, <1>4

(* Where the cuts of a foreach can be. *)
LEMMA ForeachCut ==
  ASSUME NEW c \in Statements, c.kind = "foreach"
  PROVE  /\ Len(c.cut) = 2 /\ c.cut \in Seq(AllOffsets)
         /\ \A k \in 1 .. 2 : c.cut[k] \in Nat /\ c.cut[k] <= LastOffset
         /\ 0 < c.cut[1] /\ c.cut[1] + 4 <= c.cut[2] /\ c.cut[2] < LastOffset
<1>1. CutsOf("foreach") = {x \in Cuts(2) :
         0 < x[1] /\ x[1] + 4 <= x[2] /\ x[2] < LastOffset}
  BY DEF CutsOf
<1>2. c.cut \in Cuts(2) /\ 0 < c.cut[1] /\ c.cut[1] + 4 <= c.cut[2] /\ c.cut[2] < LastOffset
  BY <1>1, StatementIs
<1>3. 2 \in Nat /\ c.cut \in [1 .. 2 -> AllOffsets]
  BY <1>2 DEF Cuts
<1>4. /\ Len(c.cut) = 2 /\ c.cut \in Seq(AllOffsets)
      /\ \A k \in 1 .. 2 : c.cut[k] \in Nat /\ c.cut[k] <= LastOffset
  BY <1>3, CutIs
<1> QED
  BY <1>2, <1>4

(* Where the cuts of a switch with a default last can be. *)
LEMMA SwitchDefaultCut ==
  ASSUME NEW c \in Statements, c.kind = "switchdefault"
  PROVE  /\ Len(c.cut) = 3 /\ c.cut \in Seq(AllOffsets)
         /\ \A k \in 1 .. 3 : c.cut[k] \in Nat /\ c.cut[k] <= LastOffset
         /\ c.cut[1] + 5 <= c.cut[2] /\ c.cut[2] + 3 <= c.cut[3]
<1>1. CutsOf("switchdefault") = {x \in Cuts(3) :
         x[1] + 5 <= x[2] /\ x[2] + 3 <= x[3]}
  BY DEF CutsOf
<1>2. c.cut \in Cuts(3) /\ c.cut[1] + 5 <= c.cut[2] /\ c.cut[2] + 3 <= c.cut[3]
  BY <1>1, StatementIs
<1>3. 3 \in Nat /\ c.cut \in [1 .. 3 -> AllOffsets]
  BY <1>2 DEF Cuts
<1>4. /\ Len(c.cut) = 3 /\ c.cut \in Seq(AllOffsets)
      /\ \A k \in 1 .. 3 : c.cut[k] \in Nat /\ c.cut[k] <= LastOffset
  BY <1>3, CutIs
<1> QED
  BY <1>2, <1>4

(* Where the cuts of a switch with a default first can be. *)
LEMMA DefaultSwitchCut ==
  ASSUME NEW c \in Statements, c.kind = "defaultswitch"
  PROVE  /\ Len(c.cut) = 3 /\ c.cut \in Seq(AllOffsets)
         /\ \A k \in 1 .. 3 : c.cut[k] \in Nat /\ c.cut[k] <= LastOffset
         /\ 0 < c.cut[1] /\ c.cut[1] + 2 <= c.cut[2] /\ c.cut[2] + 5 <= c.cut[3]
<1>1. CutsOf("defaultswitch") = {x \in Cuts(3) :
         0 < x[1] /\ x[1] + 2 <= x[2] /\ x[2] + 5 <= x[3]}
  BY DEF CutsOf
<1>2. c.cut \in Cuts(3) /\ 0 < c.cut[1] /\ c.cut[1] + 2 <= c.cut[2] /\ c.cut[2] + 5 <= c.cut[3]
  BY <1>1, StatementIs
<1>3. 3 \in Nat /\ c.cut \in [1 .. 3 -> AllOffsets]
  BY <1>2 DEF Cuts
<1>4. /\ Len(c.cut) = 3 /\ c.cut \in Seq(AllOffsets)
      /\ \A k \in 1 .. 3 : c.cut[k] \in Nat /\ c.cut[k] <= LastOffset
  BY <1>3, CutIs
<1> QED
  BY <1>2, <1>4

(* Where the cuts of a do can be. *)
LEMMA DoCut ==
  ASSUME NEW c \in Statements, c.kind = "do"
  PROVE  /\ Len(c.cut) = 2 /\ c.cut \in Seq(AllOffsets)
         /\ \A k \in 1 .. 2 : c.cut[k] \in Nat /\ c.cut[k] <= LastOffset
         /\ c.cut[1] < c.cut[2]
<1>1. CutsOf("do") = Cuts(2)
  BY DEF CutsOf
<1>2. c.cut \in Cuts(2)
  BY <1>1, StatementIs
<1>3. 2 \in Nat /\ c.cut \in [1 .. 2 -> AllOffsets] /\ c.cut[1] < c.cut[2]
  BY <1>2 DEF Cuts
<1>4. /\ Len(c.cut) = 2 /\ c.cut \in Seq(AllOffsets)
      /\ \A k \in 1 .. 2 : c.cut[k] \in Nat /\ c.cut[k] <= LastOffset
  BY <1>3, CutIs
<1> QED
  BY <1>3, <1>4

(* Where the cuts of a for can be. *)
LEMMA ForCut ==
  ASSUME NEW c \in Statements, c.kind \in {"for", "barefor"}
  PROVE  /\ Len(c.cut) = 4 /\ c.cut \in Seq(AllOffsets)
         /\ \A k \in 1 .. 4 : c.cut[k] \in Nat /\ c.cut[k] <= LastOffset
         /\ c.cut[1] <= c.cut[2] /\ c.cut[2] <= c.cut[1] + 1
         /\ c.cut[2] + 2 <= c.cut[3] /\ c.cut[3] + 2 <= c.cut[4]
         /\ c.kind = "for" => c.cut[1] > 0
<1> DEFINE Some == Cuts(4) \cup {<<s, s, x, e>> : s, x, e \in AllOffsets}
<1>1. CutsOf(c.kind) = {x \in Some :
           /\ x[2] <= x[1] + 1 /\ x[2] + 2 <= x[3] /\ x[3] + 2 <= x[4]
           /\ c.kind = "for" => x[1] > 0}
  BY DEF CutsOf
<1>2. /\ c.cut \in Some
      /\ c.cut[2] <= c.cut[1] + 1 /\ c.cut[2] + 2 <= c.cut[3]
      /\ c.cut[3] + 2 <= c.cut[4]
      /\ c.kind = "for" => c.cut[1] > 0
  BY <1>1, StatementIs
<1>3. 4 \in Nat /\ c.cut \in [1 .. 4 -> AllOffsets] /\ c.cut[1] <= c.cut[2]
  <2>1. CASE c.cut \in Cuts(4)
    <3>1. c.cut \in [1 .. 4 -> AllOffsets] /\ c.cut[1] < c.cut[2]
      BY <2>1 DEF Cuts
    <3>2. c.cut[1] \in AllOffsets /\ c.cut[2] \in AllOffsets
      BY <3>1
    <3> QED
      BY <3>1, <3>2 DEF AllOffsets
  <2>2. CASE c.cut \in {<<s, s, x, e>> : s, x, e \in AllOffsets}
    <3>1. PICK s \in AllOffsets, x \in AllOffsets, e \in AllOffsets : c.cut = <<s, s, x, e>>
      BY <2>2
    <3>2. s \in Int
      BY OpArrayAssumption DEF AllOffsets
    <3> QED
      BY <3>1, <3>2
  <2> QED
    BY <1>2, <2>1, <2>2
<1>4. /\ Len(c.cut) = 4 /\ c.cut \in Seq(AllOffsets)
      /\ \A k \in 1 .. 4 : c.cut[k] \in Nat /\ c.cut[k] <= LastOffset
  BY <1>3, CutIs
<1> QED
  BY <1>2, <1>3, <1>4

(* Where the cuts of an if can be. *)
LEMMA IfCut ==
  ASSUME NEW c \in Statements, c.kind = "if"
  PROVE  /\ Len(c.cut) \in {2, 3} /\ c.cut \in Seq(AllOffsets)
         /\ \A k \in 1 .. Len(c.cut) : c.cut[k] \in Nat /\ c.cut[k] <= LastOffset
         /\ \A j, k \in 1 .. Len(c.cut) : j < k => c.cut[j] + 3 <= c.cut[k]
<1>1. CutsOf("if") = {x \in Cuts(2) \cup Cuts(3) :
                        \A k \in 1 .. Len(x) - 1 : x[k] + 3 <= x[k + 1]}
  BY DEF CutsOf
<1>2. c.cut \in Cuts(2) \cup Cuts(3)
      /\ \A k \in 1 .. Len(c.cut) - 1 : c.cut[k] + 3 <= c.cut[k + 1]
  BY <1>1, StatementIs
<1>3. PICK n \in {2, 3} :
            c.cut \in [1 .. n -> AllOffsets] /\ \A k \in 1 .. n - 1 : c.cut[k] < c.cut[k + 1]
  BY <1>2 DEF Cuts
<1>4. /\ Len(c.cut) = n /\ c.cut \in Seq(AllOffsets)
      /\ \A k \in 1 .. n : c.cut[k] \in Nat /\ c.cut[k] <= LastOffset
  BY <1>3, CutIs
<1>5. CASE n = 2
  BY <1>2, <1>4, <1>5
<1>6. CASE n = 3
  BY <1>2, <1>4, <1>6
<1> QED
  BY <1>4, <1>5, <1>6

(* Where the cuts of a switch without default can be. *)
LEMMA SwitchCut ==
  ASSUME NEW c \in Statements, c.kind = "switch"
  PROVE  /\ Len(c.cut) \in {2, 3} /\ c.cut \in Seq(AllOffsets)
         /\ \A k \in 1 .. Len(c.cut) : c.cut[k] \in Nat /\ c.cut[k] <= LastOffset
         /\ \A j, k \in 1 .. Len(c.cut) : j < k => c.cut[j] + 4 <= c.cut[k]
<1>1. CutsOf("switch") = {x \in Cuts(2) \cup Cuts(3) :
                        \A k \in 1 .. Len(x) - 1 : x[k] + 4 <= x[k + 1]}
  BY DEF CutsOf
<1>2. c.cut \in Cuts(2) \cup Cuts(3)
      /\ \A k \in 1 .. Len(c.cut) - 1 : c.cut[k] + 4 <= c.cut[k + 1]
  BY <1>1, StatementIs
<1>3. PICK n \in {2, 3} :
            c.cut \in [1 .. n -> AllOffsets] /\ \A k \in 1 .. n - 1 : c.cut[k] < c.cut[k + 1]
  BY <1>2 DEF Cuts
<1>4. /\ Len(c.cut) = n /\ c.cut \in Seq(AllOffsets)
      /\ \A k \in 1 .. n : c.cut[k] \in Nat /\ c.cut[k] <= LastOffset
  BY <1>3, CutIs
<1>5. CASE n = 2
  BY <1>2, <1>4, <1>5
<1>6. CASE n = 3
  BY <1>2, <1>4, <1>6
<1> QED
  BY <1>4, <1>5, <1>6

(* Where the cuts of an if with an else can be. *)
LEMMA IfElseCut ==
  ASSUME NEW c \in Statements, c.kind = "ifelse"
  PROVE  /\ Len(c.cut) \in {3, 4} /\ c.cut \in Seq(AllOffsets)
         /\ \A k \in 1 .. Len(c.cut) : c.cut[k] \in Nat /\ c.cut[k] <= LastOffset
         /\ /\ \A j, k \in 1 .. Len(c.cut) - 1 : j < k => c.cut[j] + 3 <= c.cut[k]
         /\ c.cut[Len(c.cut) - 1] < c.cut[Len(c.cut)]
<1>1. CutsOf("ifelse") = {x \in Cuts(3) \cup Cuts(4) :
                        \A k \in 1 .. Len(x) - 2 : x[k] + 3 <= x[k + 1]}
  BY DEF CutsOf
<1>2. c.cut \in Cuts(3) \cup Cuts(4)
      /\ \A k \in 1 .. Len(c.cut) - 2 : c.cut[k] + 3 <= c.cut[k + 1]
  BY <1>1, StatementIs
<1>3. PICK n \in {3, 4} :
            c.cut \in [1 .. n -> AllOffsets] /\ \A k \in 1 .. n - 1 : c.cut[k] < c.cut[k + 1]
  BY <1>2 DEF Cuts
<1>4. /\ Len(c.cut) = n /\ c.cut \in Seq(AllOffsets)
      /\ \A k \in 1 .. n : c.cut[k] \in Nat /\ c.cut[k] <= LastOffset
  BY <1>3, CutIs
<1>5. CASE n = 3
  BY <1>2, <1>3, <1>4, <1>5
<1>6. CASE n = 4
  BY <1>2, <1>3, <1>4, <1>6
<1> QED
  BY <1>4, <1>5, <1>6

(* How the short sequences that plans are written with concatenate. *)
LEMMA OneAndOne ==
  ASSUME NEW x, NEW y
  PROVE  <<x>> \o <<y>> = <<x, y>>
<1> DEFINE S == {x, y}
           s == <<x>>
           t == <<y>>
           all == <<x, y>>
<1>1. /\ s \in Seq(S) /\ Len(s) = 1 /\ s[1] = x
      /\ t \in Seq(S) /\ Len(t) = 1 /\ t[1] = y
      /\ all \in Seq(S) /\ Len(all) = 2 /\ all[1] = x /\ all[2] = y
  OBVIOUS
<1> HIDE DEF S, s, t, all
<1>2. /\ s \o t \in Seq(S) /\ Len(s \o t) = 2
      /\ \A i \in 1 .. 2 : (s \o t)[i] = IF i <= 1 THEN s[i] ELSE t[i - 1]
  <2>1. /\ s \o t \in Seq(S) /\ Len(s \o t) = Len(s) + Len(t)
        /\ \A i \in 1 .. Len(s) + Len(t) :
             (s \o t)[i] = IF i <= Len(s) THEN s[i] ELSE t[i - Len(s)]
    BY <1>1, ConcatProperties
  <2>2. Len(s) + Len(t) = 2
    BY <1>1
  <2> QED
    BY <1>1, <2>1, <2>2
<1>3. \A i \in 1 .. 2 : (s \o t)[i] = all[i]
  BY <1>1, <1>2
<1>4. s \o t = all
  BY <1>1, <1>2, <1>3, SeqEqual
<1> QED
  BY <1>4 DEF s, t, all

(* The same for one and two elements. *)
LEMMA OneAndTwo ==
  ASSUME NEW x, NEW y, NEW z
  PROVE  <<x>> \o <<y, z>> = <<x, y, z>>
<1> DEFINE S == {x, y, z}
           s == <<x>>
           t == <<y, z>>
           all == <<x, y, z>>
<1>1. /\ s \in Seq(S) /\ Len(s) = 1 /\ s[1] = x
      /\ t \in Seq(S) /\ Len(t) = 2 /\ t[1] = y /\ t[2] = z
      /\ all \in Seq(S) /\ Len(all) = 3 /\ all[1] = x /\ all[2] = y /\ all[3] = z
  OBVIOUS
<1> HIDE DEF S, s, t, all
<1>2. /\ s \o t \in Seq(S) /\ Len(s \o t) = 3
      /\ \A i \in 1 .. 3 : (s \o t)[i] = IF i <= 1 THEN s[i] ELSE t[i - 1]
  <2>1. /\ s \o t \in Seq(S) /\ Len(s \o t) = Len(s) + Len(t)
        /\ \A i \in 1 .. Len(s) + Len(t) :
             (s \o t)[i] = IF i <= Len(s) THEN s[i] ELSE t[i - Len(s)]
    BY <1>1, ConcatProperties
  <2>2. Len(s) + Len(t) = 3
    BY <1>1
  <2> QED
    BY <1>1, <2>1, <2>2
<1>3. \A i \in 1 .. 3 : (s \o t)[i] = all[i]
  BY <1>1, <1>2
<1>4. s \o t = all
  BY <1>1, <1>2, <1>3, SeqEqual
<1> QED
  BY <1>4 DEF s, t, all

(* The same for one and three. *)
LEMMA OneAndThree ==
  ASSUME NEW x, NEW y, NEW z, NEW w
  PROVE  <<x>> \o <<y, z, w>> = <<x, y, z, w>>
<1> DEFINE S == {x, y, z, w}
           s == <<x>>
           t == <<y, z, w>>
           all == <<x, y, z, w>>
<1>1. /\ s \in Seq(S) /\ Len(s) = 1 /\ s[1] = x
      /\ t \in Seq(S) /\ Len(t) = 3 /\ t[1] = y /\ t[2] = z /\ t[3] = w
      /\ all \in Seq(S) /\ Len(all) = 4 /\ all[1] = x /\ all[2] = y /\ all[3] = z /\ all[4] = w
  OBVIOUS
<1> HIDE DEF S, s, t, all
<1>2. /\ s \o t \in Seq(S) /\ Len(s \o t) = 4
      /\ \A i \in 1 .. 4 : (s \o t)[i] = IF i <= 1 THEN s[i] ELSE t[i - 1]
  <2>1. /\ s \o t \in Seq(S) /\ Len(s \o t) = Len(s) + Len(t)
        /\ \A i \in 1 .. Len(s) + Len(t) :
             (s \o t)[i] = IF i <= Len(s) THEN s[i] ELSE t[i - Len(s)]
    BY <1>1, ConcatProperties
  <2>2. Len(s) + Len(t) = 4
    BY <1>1
  <2> QED
    BY <1>1, <2>1, <2>2
<1>3. \A i \in 1 .. 4 : (s \o t)[i] = all[i]
  BY <1>1, <1>2
<1>4. s \o t = all
  BY <1>1, <1>2, <1>3, SeqEqual
<1> QED
  BY <1>4 DEF s, t, all

(* A row and one element more. *)
LEMMA RowAndOne ==
  ASSUME NEW n \in Nat, n >= 1, NEW T, NEW row \in [1 .. n - 1 -> T], NEW x, NEW s,
         s = row \o <<x>>
  PROVE  /\ Len(s) = n /\ DOMAIN s = 1 .. n /\ s[n] = x
         /\ \A k \in 1 .. n - 1 : s[k] = row[k]
         /\ s = [k \in 1 .. n |-> s[k]]
<1> DEFINE S == T \cup {x}
           one == <<x>>
<1>1. row \in Seq(S) /\ Len(row) = n - 1 /\ one \in Seq(S) /\ Len(one) = 1 /\ one[1] = x
  <2>1. row \in [1 .. n - 1 -> S] /\ n - 1 \in Nat
    OBVIOUS
  <2> HIDE DEF S
  <2>2. row \in Seq(S) /\ Len(row) = n - 1
    BY <2>1
  <2>3. x \in S
    BY DEF S
  <2> QED
    BY <2>2, <2>3
<1> HIDE DEF S, one
<1>2. /\ s \in Seq(S) /\ Len(s) = n
      /\ \A i \in 1 .. n : s[i] = IF i <= n - 1 THEN row[i] ELSE one[i - (n - 1)]
  <2>1. /\ row \o one \in Seq(S) /\ Len(row \o one) = Len(row) + Len(one)
        /\ \A i \in 1 .. Len(row) + Len(one) :
             (row \o one)[i] = IF i <= Len(row) THEN row[i] ELSE one[i - Len(row)]
    BY <1>1, ConcatProperties
  <2>2. Len(row) + Len(one) = n /\ s = row \o one
    BY <1>1 DEF one
  <2> QED
    BY <1>1, <2>1, <2>2
<1>3. n \in 1 .. n /\ ~(n <= n - 1) /\ n - (n - 1) = 1
  OBVIOUS
<1>4. s[n] = x
  BY <1>1, <1>2, <1>3
<1>5. \A k \in 1 .. n - 1 : s[k] = row[k]
  BY <1>2
<1>6. s = [k \in 1 .. n |-> s[k]]
  BY <1>2
<1> QED
  BY <1>2, <1>4, <1>5, <1>6

(* One element and a row behind it. *)
LEMMA OneAndRow ==
  ASSUME NEW n \in Nat, n >= 1, NEW T, NEW row \in [1 .. n - 1 -> T], NEW x, NEW s,
         s = <<x>> \o row
  PROVE  /\ Len(s) = n /\ DOMAIN s = 1 .. n /\ s[1] = x
         /\ \A k \in 1 .. n - 1 : s[k + 1] = row[k]
<1> DEFINE S == T \cup {x}
           one == <<x>>
<1>1. row \in Seq(S) /\ Len(row) = n - 1 /\ one \in Seq(S) /\ Len(one) = 1 /\ one[1] = x
  <2>1. row \in [1 .. n - 1 -> S] /\ n - 1 \in Nat
    OBVIOUS
  <2> HIDE DEF S
  <2>2. row \in Seq(S) /\ Len(row) = n - 1
    BY <2>1
  <2>3. x \in S
    BY DEF S
  <2> QED
    BY <2>2, <2>3
<1> HIDE DEF S, one
<1>2. /\ s \in Seq(S) /\ Len(s) = n
      /\ \A i \in 1 .. n : s[i] = IF i <= 1 THEN one[i] ELSE row[i - 1]
  <2>1. /\ one \o row \in Seq(S) /\ Len(one \o row) = Len(one) + Len(row)
        /\ \A i \in 1 .. Len(one) + Len(row) :
             (one \o row)[i] = IF i <= Len(one) THEN one[i] ELSE row[i - Len(one)]
    BY <1>1, ConcatProperties
  <2>2. Len(one) + Len(row) = n /\ s = one \o row
    BY <1>1 DEF one
  <2> QED
    BY <1>1, <2>1, <2>2
<1>3. ASSUME NEW k \in 1 .. n - 1
      PROVE  s[k + 1] = row[k]
  <2>1. k + 1 \in 1 .. n /\ ~(k + 1 <= 1) /\ (k + 1) - 1 = k
    OBVIOUS
  <2> QED
    BY <1>2, <2>1
<1> QED
  BY <1>1, <1>2, <1>3

(* The extent, bodies and entries of a while, spelled out. *)
LEMMA WhileTable ==
  ASSUME NEW c \in Statements, c.kind = "while"
  PROVE  /\ First(c) = c.cut[1] /\ Beyond(c) = c.cut[2]
         /\ Bodies(c) = <<<<c.cut[1] + 1, c.cut[2] - 1>>>>
         /\ MarksOf(c) = <<Mark(c, c.cut[1], "WHILE", c.cut[1], c.cut[2], 1),
                    Mark(c, c.cut[2], "WHILE_END", c.cut[1], c.cut[2], 2)>>
<1>1. First(c) = c.cut[1] /\ Beyond(c) = c.cut[2]
  BY WhileCut DEF First, Beyond, Last
<1>2. Bodies(c) = <<<<c.cut[1] + 1, c.cut[2] - 1>>>>
  BY WhileCut DEF Bodies
<1>3. MarksOf(c) = <<Mark(c, c.cut[1], "WHILE", c.cut[1], c.cut[2], 1),
                    Mark(c, c.cut[2], "WHILE_END", c.cut[1], c.cut[2], 2)>>
  BY WhileCut DEF MarksOf, Marks, WhileMarks
<1> QED
  BY <1>1, <1>2, <1>3

(* The same for a do. *)
LEMMA DoTable ==
  ASSUME NEW c \in Statements, c.kind = "do"
  PROVE  /\ First(c) = c.cut[1] /\ Beyond(c) = c.cut[2] + 1
         /\ Bodies(c) = <<<<c.cut[1], c.cut[2]>>>>
         /\ MarksOf(c) = <<Mark(c, c.cut[1], "DO", c.cut[1], c.cut[2], 1),
                    Mark(c, c.cut[2], "DO_WHILE_END", c.cut[1], c.cut[2], 2)>>
<1>1. First(c) = c.cut[1] /\ Beyond(c) = c.cut[2] + 1
  BY DoCut DEF First, Beyond, Last
<1>2. Bodies(c) = <<<<c.cut[1], c.cut[2]>>>>
  BY DoCut DEF Bodies
<1>3. MarksOf(c) = <<Mark(c, c.cut[1], "DO", c.cut[1], c.cut[2], 1),
                    Mark(c, c.cut[2], "DO_WHILE_END", c.cut[1], c.cut[2], 2)>>
  BY DoCut DEF MarksOf, Marks
<1> QED
  BY <1>1, <1>2, <1>3

(* The same for a for. *)
LEMMA ForTable ==
  ASSUME NEW c \in Statements, c.kind \in {"for", "barefor"}
  PROVE  /\ First(c) = (IF c.kind = "for" THEN c.cut[1] - 1 ELSE c.cut[1]) /\ Beyond(c) = c.cut[4]
         /\ Bodies(c) = <<NoBody,
                 <<c.cut[3], c.cut[4] - 1>>>>
         /\ MarksOf(c) = <<Mark(c, c.cut[1], "FOR", c.cut[1], c.cut[4], 1),
                    Mark(c, c.cut[4], "FOR_END", c.cut[1], c.cut[4], 3),
                    Mark(c, c.cut[2], "FORBRACKET_IN", c.cut[2], c.cut[4], 1),
                    Mark(c, c.cut[3], "FORBRACKET_END", c.cut[3], c.cut[4], 2)>>
<1>1. First(c) = (IF c.kind = "for" THEN c.cut[1] - 1 ELSE c.cut[1]) /\ Beyond(c) = c.cut[4]
  BY ForCut DEF First, Beyond, Last
<1>2. Bodies(c) = <<NoBody,
                 <<c.cut[3], c.cut[4] - 1>>>>
  BY ForCut DEF Bodies
<1>3. MarksOf(c) = <<Mark(c, c.cut[1], "FOR", c.cut[1], c.cut[4], 1),
                    Mark(c, c.cut[4], "FOR_END", c.cut[1], c.cut[4], 3),
                    Mark(c, c.cut[2], "FORBRACKET_IN", c.cut[2], c.cut[4], 1),
                    Mark(c, c.cut[3], "FORBRACKET_END", c.cut[3], c.cut[4], 2)>>
  BY ForCut DEF MarksOf, Marks, ForMarks
<1> QED
  BY <1>1, <1>2, <1>3

(* The same for a foreach. *)
LEMMA ForeachTable ==
  ASSUME NEW c \in Statements, c.kind = "foreach"
  PROVE  /\ First(c) = c.cut[1] - 1 /\ Beyond(c) = c.cut[2] + 1
         /\ Bodies(c) = <<<<c.cut[1] + 2, c.cut[2] - 1>>>>
         /\ MarksOf(c) = <<Mark(c, c.cut[1], "FOREACH", c.cut[1], c.cut[2], 1),
                    Mark(c, c.cut[2], "FOREACH_END", c.cut[1], c.cut[2], 2)>>
<1>1. First(c) = c.cut[1] - 1 /\ Beyond(c) = c.cut[2] + 1
  BY ForeachCut DEF First, Beyond, Last
<1>2. Bodies(c) = <<<<c.cut[1] + 2, c.cut[2] - 1>>>>
  BY ForeachCut DEF Bodies
<1>3. MarksOf(c) = <<Mark(c, c.cut[1], "FOREACH", c.cut[1], c.cut[2], 1),
                    Mark(c, c.cut[2], "FOREACH_END", c.cut[1], c.cut[2], 2)>>
  BY ForeachCut DEF MarksOf, Marks, ForeachMarks
<1> QED
  BY <1>1, <1>2, <1>3

(* The same for a try. *)
LEMMA TryTable ==
  ASSUME NEW c \in Statements, c.kind = "try"
  PROVE  /\ First(c) = c.cut[1] /\ Beyond(c) = c.cut[3]
         /\ Bodies(c) = <<<<c.cut[1], c.cut[2] - 1>>,
                 <<c.cut[2] + 1, c.cut[3] - 1>>>>
         /\ MarksOf(c) = <<Mark(c, c.cut[1], "TRY", c.cut[1], c.cut[2], 1),
                    Mark(c, c.cut[2], "TRY_END", c.cut[1], c.cut[2], 2),
                    Mark(c, c.cut[2], "CATCH", c.cut[2], c.cut[3], 2),
                    Mark(c, c.cut[3], "CATCH_END", c.cut[2], c.cut[3], 3)>>
<1>1. First(c) = c.cut[1] /\ Beyond(c) = c.cut[3]
  BY TryCut DEF First, Beyond, Last
<1>2. Bodies(c) = <<<<c.cut[1], c.cut[2] - 1>>,
                 <<c.cut[2] + 1, c.cut[3] - 1>>>>
  BY TryCut DEF Bodies
<1>3. MarksOf(c) = <<Mark(c, c.cut[1], "TRY", c.cut[1], c.cut[2], 1),
                    Mark(c, c.cut[2], "TRY_END", c.cut[1], c.cut[2], 2),
                    Mark(c, c.cut[2], "CATCH", c.cut[2], c.cut[3], 2),
                    Mark(c, c.cut[3], "CATCH_END", c.cut[2], c.cut[3], 3)>>
  BY TryCut DEF MarksOf, Marks, TryMarks
<1> QED
  BY <1>1, <1>2, <1>3

(* The same for a switch with a default last. *)
LEMMA SwitchDefaultTable ==
  ASSUME NEW c \in Statements, c.kind = "switchdefault"
  PROVE  /\ First(c) = c.cut[1] /\ Beyond(c) = c.cut[3]
         /\ Bodies(c) = <<NoBody,
                 <<c.cut[1] + 2, c.cut[2] - 2>>,
                 <<c.cut[2], c.cut[3] - 2>>>>
         /\ MarksOf(c) = <<Mark(c, c.cut[2], "SWITCH_DEFAULT", c.cut[2], c.cut[3], 3),
                    Mark(c, c.cut[1], "SWITCH", c.cut[1], c.cut[3], 1),
                    Mark(c, c.cut[1], "SWITCH_CASE", c.cut[1], c.cut[2], 2),
                    Mark(c, c.cut[3], "SWITCH_END", c.cut[1], c.cut[2], 4)>>
<1>1. First(c) = c.cut[1] /\ Beyond(c) = c.cut[3]
  BY SwitchDefaultCut DEF First, Beyond, Last
<1>2. Bodies(c) = <<NoBody,
                 <<c.cut[1] + 2, c.cut[2] - 2>>,
                 <<c.cut[2], c.cut[3] - 2>>>>
  BY SwitchDefaultCut DEF Bodies
<1>3. MarksOf(c) = <<Mark(c, c.cut[2], "SWITCH_DEFAULT", c.cut[2], c.cut[3], 3),
                    Mark(c, c.cut[1], "SWITCH", c.cut[1], c.cut[3], 1),
                    Mark(c, c.cut[1], "SWITCH_CASE", c.cut[1], c.cut[2], 2),
                    Mark(c, c.cut[3], "SWITCH_END", c.cut[1], c.cut[2], 4)>>
  <2>1. MarksOf(c) = SwitchMarks(c)
    BY DEF MarksOf, Marks
  <2>2. SwitchMarks(c) = <<DefaultMark(c, 2)>> \o LastCaseMarks(c, 1, c.cut[2])
    BY DEF SwitchMarks
  <2>3. SwitchMarks(c) = <<DefaultMark(c, 2), SwitchMark(c), CaseMark(c, 1, c.cut[2]),
                          SwitchEndMark(c, 1, c.cut[2])>>
    BY <2>2, OneAndThree DEF LastCaseMarks
  <2>4. Len(c.cut) = 3 /\ Last(c.cut) = c.cut[3]
    BY SwitchDefaultCut DEF Last
  <2> QED
    BY <2>1, <2>3, <2>4 DEF DefaultMark, CaseMark, SwitchMark, SwitchEndMark
<1> QED
  BY <1>1, <1>2, <1>3

(* The same for a switch with a default first. *)
LEMMA DefaultSwitchTable ==
  ASSUME NEW c \in Statements, c.kind = "defaultswitch"
  PROVE  /\ First(c) = c.cut[1] - 1 /\ Beyond(c) = c.cut[3]
         /\ Bodies(c) = <<NoBody,
                 <<c.cut[1], c.cut[2] - 1>>,
                 <<c.cut[2] + 2, c.cut[3] - 2>>>>
         /\ MarksOf(c) = <<Mark(c, c.cut[1], "SWITCH_DEFAULT", c.cut[1], c.cut[3], 2),
                    Mark(c, c.cut[1], "SWITCH", c.cut[1], c.cut[3], 1),
                    Mark(c, c.cut[2], "SWITCH_CASE", c.cut[2], c.cut[1], 3),
                    Mark(c, c.cut[3], "SWITCH_END", c.cut[2], c.cut[1], 4)>>
<1>1. First(c) = c.cut[1] - 1 /\ Beyond(c) = c.cut[3]
  BY DefaultSwitchCut DEF First, Beyond, Last
<1>2. Bodies(c) = <<NoBody,
                 <<c.cut[1], c.cut[2] - 1>>,
                 <<c.cut[2] + 2, c.cut[3] - 2>>>>
  BY DefaultSwitchCut DEF Bodies
<1>3. MarksOf(c) = <<Mark(c, c.cut[1], "SWITCH_DEFAULT", c.cut[1], c.cut[3], 2),
                    Mark(c, c.cut[1], "SWITCH", c.cut[1], c.cut[3], 1),
                    Mark(c, c.cut[2], "SWITCH_CASE", c.cut[2], c.cut[1], 3),
                    Mark(c, c.cut[3], "SWITCH_END", c.cut[2], c.cut[1], 4)>>
  <2>1. MarksOf(c) = SwitchMarks(c)
    BY DEF MarksOf, Marks
  <2>2. SwitchMarks(c) = <<DefaultMark(c, 1)>> \o LastCaseMarks(c, 2, c.cut[1])
    BY DEF SwitchMarks
  <2>3. SwitchMarks(c) = <<DefaultMark(c, 1), SwitchMark(c), CaseMark(c, 2, c.cut[1]),
                          SwitchEndMark(c, 2, c.cut[1])>>
    BY <2>2, OneAndThree DEF LastCaseMarks
  <2>4. Len(c.cut) = 3 /\ Last(c.cut) = c.cut[3]
    BY DefaultSwitchCut DEF Last
  <2> QED
    BY <2>1, <2>3, <2>4 DEF DefaultMark, CaseMark, SwitchMark, SwitchEndMark
<1> QED
  BY <1>1, <1>2, <1>3

(* The marks of an if: its branches and its end. *)
LEMMA IfTable ==
  ASSUME NEW c \in Statements, c.kind \in {"if", "ifelse"}
  PROVE  LET n == Len(c.cut)  ms == MarksOf(c) IN
         /\ First(c) = c.cut[1] /\ Beyond(c) = c.cut[n]
         /\ DOMAIN Bodies(c) = 1 .. n - 1
         /\ \A k \in 1 .. n - 1 : Bodies(c)[k] =
              IF c.kind = "ifelse" /\ k = n - 1 THEN <<c.cut[k], c.cut[n]>>
              ELSE <<c.cut[k] + 1, c.cut[k + 1] - 1>>
         /\ Len(ms) = n /\ DOMAIN ms = 1 .. n /\ ms = [k \in 1 .. n |-> ms[k]]
         /\ \A k \in 1 .. n - 1 : ms[k] =
              Mark(c, c.cut[k], IF k = 1 THEN "IF"
                                ELSE IF k = n - 1 /\ c.kind = "ifelse" THEN "ELSE"
                                ELSE "ELSEIF", c.cut[k], c.cut[k + 1], k)
         /\ ms[n] = Mark(c, c.cut[n], "IF_END", c.cut[1], c.cut[n], n)
<1> DEFINE n == Len(c.cut)
           ms == MarksOf(c)
           Flag(k) == IF k = 1 THEN "IF"
                      ELSE IF k = n - 1 /\ c.kind = "ifelse" THEN "ELSE" ELSE "ELSEIF"
           Branch(k) == Mark(c, c.cut[k], Flag(k), c.cut[k], c.cut[k + 1], k)
           some == [k \in 1 .. n - 1 |-> Branch(k)]
           end == Mark(c, c.cut[n], "IF_END", c.cut[1], c.cut[n], n)
<1>1. n \in {2, 3, 4}
  BY IfCut, IfElseCut
<1>2. First(c) = c.cut[1] /\ Beyond(c) = c.cut[n]
  BY DEF First, Beyond, Last
<1>3. /\ DOMAIN Bodies(c) = 1 .. n - 1
      /\ \A k \in 1 .. n - 1 : Bodies(c)[k] =
           IF c.kind = "ifelse" /\ k = n - 1 THEN <<c.cut[k], c.cut[n]>>
           ELSE <<c.cut[k] + 1, c.cut[k + 1] - 1>>
  <2>1. CASE c.kind = "if"
    <3>1. Bodies(c) = [k \in 1 .. n - 1 |-> <<c.cut[k] + 1, c.cut[k + 1] - 1>>]
      BY <2>1 DEF Bodies
    <3> QED
      BY <2>1, <3>1
  <2>2. CASE c.kind = "ifelse"
    <3>1. Bodies(c) = [k \in 1 .. n - 1 |-> IF k < n - 1 THEN <<c.cut[k] + 1, c.cut[k + 1] - 1>>
                                                         ELSE <<c.cut[k], c.cut[n]>>]
      BY <2>2 DEF Bodies
    <3> QED
      BY <1>1, <2>2, <3>1
  <2> QED
    BY <2>1, <2>2
<1>4. ms = some \o <<end>>
  <2>1. ms = IfMarks(c)
    BY DEF MarksOf, Marks
  <2> QED
    BY <2>1 DEF IfMarks
<1>5. /\ Len(ms) = n /\ DOMAIN ms = 1 .. n /\ ms = [k \in 1 .. n |-> ms[k]]
      /\ \A k \in 1 .. n - 1 : ms[k] = some[k]
      /\ ms[n] = end
  <2> DEFINE T == {Branch(k) : k \in 1 .. n - 1}
  <2> HIDE DEF Branch
  <2>1. some \in [1 .. n - 1 -> T]
    OBVIOUS
  <2> HIDE DEF some, end, n, ms, T
  <2>2. n \in Nat /\ n >= 1
    BY <1>1
  <2> QED
    BY <1>4, <2>1, <2>2, RowAndOne
<1> HIDE DEF end, Flag
<1> QED
  BY <1>2, <1>3, <1>5 DEF end, Flag

(* The same for a switch without default. *)
LEMMA SwitchTable ==
  ASSUME NEW c \in Statements, c.kind = "switch"
  PROVE  LET n == Len(c.cut) IN
         /\ First(c) = c.cut[1] /\ Beyond(c) = c.cut[n]
         /\ Bodies(c) = <<NoBody>> \o [k \in 1 .. n - 1 |-> <<c.cut[k] + 2, c.cut[k + 1] - 1>>]
         /\ MarksOf(c) = [k \in 1 .. n - 2 |-> CaseMark(c, k, c.cut[k + 1] - 1)]
                           \o LastCaseMarks(c, n - 1, c.cut[n])
<1>1. MarksOf(c) = SwitchMarks(c)
  BY DEF MarksOf, Marks
<1> QED
  BY <1>1 DEF First, Beyond, Bodies, SwitchMarks, Last

(* The cuts of a switch with one case. *)
LEMMA OneCaseCut ==
  ASSUME NEW c \in Statements, c.kind = "switch", Len(c.cut) = 2
  PROVE  \A k \in 1 .. 2 : c.cut[k] \in Nat /\ c.cut[k] <= LastOffset /\ c.cut[1] + 4 <= c.cut[2]
<1>1. 1 \in 1 .. Len(c.cut) /\ 2 \in 1 .. Len(c.cut)
  OBVIOUS
<1> QED
  BY <1>1, SwitchCut

(* The cuts of a switch with two cases. *)
LEMMA TwoCasesCut ==
  ASSUME NEW c \in Statements, c.kind = "switch", Len(c.cut) = 3
  PROVE  /\ \A k \in 1 .. 3 : c.cut[k] \in Nat /\ c.cut[k] <= LastOffset
         /\ c.cut[1] + 4 <= c.cut[2] /\ c.cut[2] + 4 <= c.cut[3]
<1>1. 1 \in 1 .. Len(c.cut) /\ 2 \in 1 .. Len(c.cut) /\ 3 \in 1 .. Len(c.cut)
  OBVIOUS
<1> QED
  BY <1>1, SwitchCut

(* The extent, bodies and entries of a switch with one case. *)
LEMMA OneCaseTable ==
  ASSUME NEW c \in Statements, c.kind = "switch", Len(c.cut) = 2
  PROVE  /\ First(c) = c.cut[1] /\ Beyond(c) = c.cut[2]
         /\ Bodies(c) = <<NoBody, <<c.cut[1] + 2, c.cut[2] - 1>> >>
         /\ MarksOf(c) = <<Mark(c, c.cut[1], "SWITCH", c.cut[1], c.cut[2], 1),
                            Mark(c, c.cut[1], "SWITCH_CASE", c.cut[1], c.cut[2], 2),
                            Mark(c, c.cut[2], "SWITCH_END", c.cut[1], c.cut[2], 3)>>
<1> DEFINE n == Len(c.cut)
<1>1. /\ Bodies(c) = <<NoBody>> \o [k \in 1 .. n - 1 |-> <<c.cut[k] + 2, c.cut[k + 1] - 1>>]
      /\ MarksOf(c) = [k \in 1 .. n - 2 |-> CaseMark(c, k, c.cut[k + 1] - 1)]
                        \o LastCaseMarks(c, n - 1, c.cut[n])
  BY SwitchTable
<1>2. /\ [k \in 1 .. n - 1 |-> <<c.cut[k] + 2, c.cut[k + 1] - 1>>] = << <<c.cut[1] + 2, c.cut[2] - 1>> >>
      /\ [k \in 1 .. n - 2 |-> CaseMark(c, k, c.cut[k + 1] - 1)] = <<>>
      /\ n - 1 = 1 /\ n = 2
  OBVIOUS
<1>4. Bodies(c) = <<NoBody, <<c.cut[1] + 2, c.cut[2] - 1>> >>
  <2> DEFINE b == <<c.cut[1] + 2, c.cut[2] - 1>>
  <2>1. Bodies(c) = <<NoBody>> \o <<b>>
    BY <1>1, <1>2
  <2> HIDE DEF b
  <2>2. Bodies(c) = <<NoBody, b>>
    BY <2>1, OneAndOne
  <2> QED
    BY <2>2 DEF b
<1>5. MarksOf(c) = LastCaseMarks(c, 1, c.cut[2])
  BY <1>1, <1>2 DEF LastCaseMarks
<1>6. First(c) = c.cut[1] /\ Beyond(c) = c.cut[2]
  BY <1>2, SwitchTable
<1>7. MarksOf(c) = <<SwitchMark(c), CaseMark(c, 1, c.cut[2]), SwitchEndMark(c, 1, c.cut[2])>>
  BY <1>5 DEF LastCaseMarks
<1>8. Last(c.cut) = c.cut[2]
  BY DEF Last
<1> QED
  BY <1>4, <1>6, <1>7, <1>8 DEF CaseMark, SwitchMark, SwitchEndMark

(* The same with two cases. *)
LEMMA TwoCasesTable ==
  ASSUME NEW c \in Statements, c.kind = "switch", Len(c.cut) = 3
  PROVE  /\ First(c) = c.cut[1] /\ Beyond(c) = c.cut[3]
         /\ Bodies(c) = <<NoBody, <<c.cut[1] + 2, c.cut[2] - 1>>, <<c.cut[2] + 2, c.cut[3] - 1>> >>
         /\ MarksOf(c) = <<Mark(c, c.cut[1], "SWITCH_CASE", c.cut[1], c.cut[2] - 1, 2),
                            Mark(c, c.cut[1], "SWITCH", c.cut[1], c.cut[3], 1),
                            Mark(c, c.cut[2], "SWITCH_CASE", c.cut[2], c.cut[3], 3),
                            Mark(c, c.cut[3], "SWITCH_END", c.cut[2], c.cut[3], 4)>>
<1> DEFINE n == Len(c.cut)
<1>1. /\ Bodies(c) = <<NoBody>> \o [k \in 1 .. n - 1 |-> <<c.cut[k] + 2, c.cut[k + 1] - 1>>]
      /\ MarksOf(c) = [k \in 1 .. n - 2 |-> CaseMark(c, k, c.cut[k + 1] - 1)]
                        \o LastCaseMarks(c, n - 1, c.cut[n])
  BY SwitchTable
<1>2. /\ [k \in 1 .. n - 1 |-> <<c.cut[k] + 2, c.cut[k + 1] - 1>>] =
           << <<c.cut[1] + 2, c.cut[2] - 1>>, <<c.cut[2] + 2, c.cut[3] - 1>> >>
      /\ [k \in 1 .. n - 2 |-> CaseMark(c, k, c.cut[k + 1] - 1)] = <<CaseMark(c, 1, c.cut[2] - 1)>>
      /\ n - 1 = 2 /\ n = 3
  OBVIOUS
<1>4. Bodies(c) = <<NoBody, <<c.cut[1] + 2, c.cut[2] - 1>>, <<c.cut[2] + 2, c.cut[3] - 1>> >>
  <2> DEFINE b == <<c.cut[1] + 2, c.cut[2] - 1>>
             d == <<c.cut[2] + 2, c.cut[3] - 1>>
  <2>1. Bodies(c) = <<NoBody>> \o <<b, d>>
    BY <1>1, <1>2
  <2> HIDE DEF b, d
  <2>2. Bodies(c) = <<NoBody, b, d>>
    BY <2>1, OneAndTwo
  <2> QED
    BY <2>2 DEF b, d
<1>5. MarksOf(c) = <<CaseMark(c, 1, c.cut[2] - 1), SwitchMark(c), CaseMark(c, 2, c.cut[3]),
                     SwitchEndMark(c, 2, c.cut[3])>>
  BY <1>1, <1>2, OneAndThree DEF LastCaseMarks
<1> QED
  BY SMTT(30), <1>4, <1>5, SwitchTable DEF CaseMark, SwitchMark, SwitchEndMark, Last

-----------------------------------------------------------------------------

(* What the flags of an entry say of it. *)
LEMMA FlagIs ==
  ASSUME NEW e
  PROVE  /\ e.flags \in {"IF", "DO", "WHILE", "TRY", "CATCH", "SWITCH"}
              => ~IsEnd(e) /\ Opens(e) /\ ~Closes(e)
         /\ e.flags = "FOR" => IsEnd(e) /\ Opens(e) /\ ~Closes(e)
         /\ e.flags \in {"ELSE", "ELSEIF", "SWITCH_CASE", "SWITCH_DEFAULT"}
              => ~IsEnd(e) /\ Opens(e) /\ Closes(e)
         /\ e.flags = "FORBRACKET_END" => IsEnd(e) /\ Opens(e) /\ Closes(e)
         /\ e.flags \in {"IF_END", "DO_WHILE_END", "WHILE_END", "FOR_END", "FOREACH_END",
                         "TRY_END", "CATCH_END", "SWITCH_END"}
              => IsEnd(e) /\ ~Opens(e) /\ Closes(e)
         /\ e.flags \in {"FOREACH", "FORBRACKET_IN"} => ~IsEnd(e) /\ ~Opens(e) /\ ~Closes(e)
BY DEF IsEnd, Opens, Closes

(* The fields of an entry. *)
LEMMA MarkIs ==
  ASSUME NEW c \in Statements, NEW at \in AllOffsets, NEW flags \in Flags, NEW start \in AllOffsets,
         NEW end \in AllOffsets, NEW body \in 1 .. 5
  PROVE  LET m == Mark(c, at, flags, start, end, body) IN
         /\ m \in MarkTypes /\ m.at = at /\ m.entry.flags = flags
         /\ m.entry.start = start /\ m.entry.end = end
         /\ m.entry.of = c /\ m.entry.body = body /\ Size(m.entry) = end - start
BY DEF Mark, MarkTypes, ControlEntries, Size

(* Offsets are numbers. *)
LEMMA OffsetIs ==
  ASSUME NEW n
  PROVE  n \in AllOffsets <=> n \in Nat /\ n <= LastOffset
BY OpArrayAssumption DEF AllOffsets

(* The plan of a while: its entries are in place. *)
LEMMA WhilePlan ==
  ASSUME NEW c \in Statements, c.kind = "while"
  PROVE  /\ Typed(c) /\ Distinct(c) /\ Turned(c) /\ Spans(c)
         /\ InFront(c) /\ Edges(c) /\ Enclose(c) /\ Turns(c) /\ Inner(c)
<1> DEFINE s == c.cut[1]
           e == c.cut[2]
           ms == MarksOf(c)
           m1 == Mark(c, s, "WHILE", s, e, 1)
           m2 == Mark(c, e, "WHILE_END", s, e, 2)
           bs == Bodies(c)
           b1 == <<s + 1, e - 1>>
<1>1. /\ s \in Nat /\ s <= LastOffset /\ e \in Nat /\ e <= LastOffset /\ LastOffset \in Nat
      /\ s + 3 <= e
  BY WhileCut, OpArrayAssumption
<1>0. s \in AllOffsets /\ e \in AllOffsets
  BY <1>1, OffsetIs
<1>2. /\ First(c) = s /\ Beyond(c) = e
      /\ bs = <<b1>>
      /\ ms = <<m1, m2>>
  BY WhileTable
<1> HIDE DEF s, e
<1>3. /\ m1 \in MarkTypes /\ m1.at = s /\ m1.entry.flags = "WHILE"
      /\ m1.entry.start = s /\ m1.entry.end = e
      /\ m1.entry.of = c /\ m1.entry.body = 1 /\ Size(m1.entry) = e - s
  BY <1>0, MarkIs DEF Flags
<1>4. /\ m2 \in MarkTypes /\ m2.at = e /\ m2.entry.flags = "WHILE_END"
      /\ m2.entry.start = s /\ m2.entry.end = e
      /\ m2.entry.of = c /\ m2.entry.body = 2 /\ Size(m2.entry) = e - s
  BY <1>0, MarkIs DEF Flags
<1>5. /\ ~IsEnd(m1.entry) /\ Opens(m1.entry) /\ ~Closes(m1.entry)
      /\ IsEnd(m2.entry) /\ ~Opens(m2.entry) /\ Closes(m2.entry)
  BY <1>3, <1>4, FlagIs
<1>6. /\ DOMAIN bs = {1}
      /\ bs[1] = b1 /\ b1[1] = s + 1 /\ b1[2] = e - 1
      /\ Len(ms) = 2 /\ DOMAIN ms = {1, 2} /\ ms \in Seq(MarkTypes)
      /\ ms[1] = m1 /\ ms[2] = m2
  BY <1>2, <1>3, <1>4
<1>7. /\ EntryRank(m1.entry) = 6 * LastOffset + 3 - 2 * (e - s) + 0
      /\ EntryRank(m2.entry) = 2 * (e - s)
  BY <1>1, <1>2, <1>3, <1>4, <1>5 DEF EntryRank
<1>8. c.kind # "foreach"
  OBVIOUS
<1> HIDE DEF ms, bs, m1, m2, b1
<1> USE DEF ms, bs
<1>9. Typed(c)
  BY <1>3, <1>4, <1>6 DEF Typed
<1>10. Distinct(c)
  BY <1>1, <1>3, <1>4, <1>6 DEF Distinct
<1>11. Turned(c)
  BY <1>3, <1>4, <1>5, <1>6, <1>8 DEF Turned
<1>12. Spans(c)
  BY <1>1, <1>2, <1>3, <1>4, <1>6 DEF Spans
<1>13. InFront(c)
  BY <1>1, <1>3, <1>4, <1>5, <1>6, <1>7 DEF InFront
<1>14. Edges(c)
  BY <1>1, <1>2, <1>3, <1>4, <1>5, <1>6 DEF Edges
<1>15. Enclose(c)
  BY <1>1, <1>3, <1>4, <1>5, <1>6 DEF Enclose
<1>16. /\ Sooner(m1, m2)
  BY <1>1, <1>3, <1>4, <1>7 DEF Sooner
<1>17. Turns(c)
  BY <1>3, <1>4, <1>5, <1>6, <1>16 DEF Turns
<1>18. Inner(c)
  BY <1>1, <1>2, <1>6 DEF Inner
<1> QED
  BY <1>9, <1>10, <1>11, <1>12, <1>13, <1>14, <1>15, <1>17, <1>18

(* The plan of a do. *)
LEMMA DoPlan ==
  ASSUME NEW c \in Statements, c.kind = "do"
  PROVE  /\ Typed(c) /\ Distinct(c) /\ Turned(c) /\ Spans(c)
         /\ InFront(c) /\ Edges(c) /\ Enclose(c) /\ Turns(c) /\ Inner(c)
<1> DEFINE s == c.cut[1]
           e == c.cut[2]
           ms == MarksOf(c)
           m1 == Mark(c, s, "DO", s, e, 1)
           m2 == Mark(c, e, "DO_WHILE_END", s, e, 2)
           bs == Bodies(c)
           b1 == <<s, e>>
<1>1. /\ s \in Nat /\ s <= LastOffset /\ e \in Nat /\ e <= LastOffset /\ LastOffset \in Nat
      /\ s < e
  BY DoCut, OpArrayAssumption
<1>0. s \in AllOffsets /\ e \in AllOffsets
  BY <1>1, OffsetIs
<1>2. /\ First(c) = s /\ Beyond(c) = e + 1
      /\ bs = <<b1>>
      /\ ms = <<m1, m2>>
  BY DoTable
<1> HIDE DEF s, e
<1>3. /\ m1 \in MarkTypes /\ m1.at = s /\ m1.entry.flags = "DO"
      /\ m1.entry.start = s /\ m1.entry.end = e
      /\ m1.entry.of = c /\ m1.entry.body = 1 /\ Size(m1.entry) = e - s
  BY <1>0, MarkIs DEF Flags
<1>4. /\ m2 \in MarkTypes /\ m2.at = e /\ m2.entry.flags = "DO_WHILE_END"
      /\ m2.entry.start = s /\ m2.entry.end = e
      /\ m2.entry.of = c /\ m2.entry.body = 2 /\ Size(m2.entry) = e - s
  BY <1>0, MarkIs DEF Flags
<1>5. /\ ~IsEnd(m1.entry) /\ Opens(m1.entry) /\ ~Closes(m1.entry)
      /\ IsEnd(m2.entry) /\ ~Opens(m2.entry) /\ Closes(m2.entry)
  BY <1>3, <1>4, FlagIs
<1>6. /\ DOMAIN bs = {1}
      /\ bs[1] = b1 /\ b1[1] = s /\ b1[2] = e
      /\ Len(ms) = 2 /\ DOMAIN ms = {1, 2} /\ ms \in Seq(MarkTypes)
      /\ ms[1] = m1 /\ ms[2] = m2
  BY <1>2, <1>3, <1>4
<1>7. /\ EntryRank(m1.entry) = 6 * LastOffset + 3 - 2 * (e - s) + 0
      /\ EntryRank(m2.entry) = 2 * (e - s)
  BY <1>1, <1>2, <1>3, <1>4, <1>5 DEF EntryRank
<1>8. c.kind # "foreach"
  OBVIOUS
<1> HIDE DEF ms, bs, m1, m2, b1
<1> USE DEF ms, bs
<1>9. Typed(c)
  BY <1>3, <1>4, <1>6 DEF Typed
<1>10. Distinct(c)
  BY <1>1, <1>3, <1>4, <1>6 DEF Distinct
<1>11. Turned(c)
  BY <1>3, <1>4, <1>5, <1>6, <1>8 DEF Turned
<1>12. Spans(c)
  BY <1>1, <1>2, <1>3, <1>4, <1>6 DEF Spans
<1>13. InFront(c)
  BY <1>1, <1>3, <1>4, <1>5, <1>6, <1>7 DEF InFront
<1>14. Edges(c)
  BY <1>1, <1>2, <1>3, <1>4, <1>5, <1>6 DEF Edges
<1>15. Enclose(c)
  BY <1>1, <1>3, <1>4, <1>5, <1>6 DEF Enclose
<1>16. /\ Sooner(m1, m2)
  BY <1>1, <1>3, <1>4, <1>7 DEF Sooner
<1>17. Turns(c)
  BY <1>3, <1>4, <1>5, <1>6, <1>16 DEF Turns
<1>18. Inner(c)
  BY <1>1, <1>2, <1>6 DEF Inner
<1> QED
  BY <1>9, <1>10, <1>11, <1>12, <1>13, <1>14, <1>15, <1>17, <1>18

(* The plan of a for. *)
LEMMA ForPlan ==
  ASSUME NEW c \in Statements, c.kind \in {"for", "barefor"}
  PROVE  /\ Typed(c) /\ Distinct(c) /\ Turned(c) /\ Spans(c)
         /\ c.kind = "for" => InFront(c) /\ Edges(c) /\ Enclose(c) /\ Turns(c) /\ Inner(c)
<1> DEFINE s == c.cut[1]
           m == c.cut[2]
           b == c.cut[3]
           e == c.cut[4]
           ms == MarksOf(c)
           m1 == Mark(c, s, "FOR", s, e, 1)
           m2 == Mark(c, e, "FOR_END", s, e, 3)
           m3 == Mark(c, m, "FORBRACKET_IN", m, e, 1)
           m4 == Mark(c, b, "FORBRACKET_END", b, e, 2)
           bs == Bodies(c)
           b1 == NoBody
           b2 == <<b, e - 1>>
<1>1. /\ s \in Nat /\ s <= LastOffset /\ m \in Nat /\ m <= LastOffset /\ b \in Nat
      /\ b <= LastOffset /\ e \in Nat /\ e <= LastOffset /\ LastOffset \in Nat
      /\ s <= m /\ m <= s + 1 /\ m + 2 <= b /\ b + 2 <= e
      /\ (c.kind = "for" => s > 0)
  BY ForCut, OpArrayAssumption
<1>0. s \in AllOffsets /\ m \in AllOffsets /\ b \in AllOffsets /\ e \in AllOffsets
  BY <1>1, OffsetIs
<1>2. /\ First(c) = (IF c.kind = "for" THEN s - 1 ELSE s) /\ Beyond(c) = e
      /\ bs = <<b1, b2>>
      /\ ms = <<m1, m2, m3, m4>>
  BY ForTable
<1> HIDE DEF s, m, b, e
<1>3. /\ m1 \in MarkTypes /\ m1.at = s /\ m1.entry.flags = "FOR"
      /\ m1.entry.start = s /\ m1.entry.end = e
      /\ m1.entry.of = c /\ m1.entry.body = 1 /\ Size(m1.entry) = e - s
  BY <1>0, MarkIs DEF Flags
<1>4. /\ m2 \in MarkTypes /\ m2.at = e /\ m2.entry.flags = "FOR_END"
      /\ m2.entry.start = s /\ m2.entry.end = e
      /\ m2.entry.of = c /\ m2.entry.body = 3 /\ Size(m2.entry) = e - s
  BY <1>0, MarkIs DEF Flags
<1>5. /\ m3 \in MarkTypes /\ m3.at = m /\ m3.entry.flags = "FORBRACKET_IN"
      /\ m3.entry.start = m /\ m3.entry.end = e
      /\ m3.entry.of = c /\ m3.entry.body = 1 /\ Size(m3.entry) = e - m
  BY <1>0, MarkIs DEF Flags
<1>6. /\ m4 \in MarkTypes /\ m4.at = b /\ m4.entry.flags = "FORBRACKET_END"
      /\ m4.entry.start = b /\ m4.entry.end = e
      /\ m4.entry.of = c /\ m4.entry.body = 2 /\ Size(m4.entry) = e - b
  BY <1>0, MarkIs DEF Flags
<1>7. /\ IsEnd(m1.entry) /\ Opens(m1.entry) /\ ~Closes(m1.entry)
      /\ IsEnd(m2.entry) /\ ~Opens(m2.entry) /\ Closes(m2.entry)
      /\ ~IsEnd(m3.entry) /\ ~Opens(m3.entry) /\ ~Closes(m3.entry)
      /\ IsEnd(m4.entry) /\ Opens(m4.entry) /\ Closes(m4.entry)
  BY <1>3, <1>4, <1>5, <1>6, FlagIs
<1>8. /\ DOMAIN bs = {1, 2}
      /\ bs[1] = NoBody /\ NoBody[1] = LastOffset + 1 /\ NoBody[2] = 0
      /\ bs[2] = b2 /\ b2[1] = b /\ b2[2] = e - 1
      /\ Len(ms) = 4 /\ DOMAIN ms = {1, 2, 3, 4} /\ ms \in Seq(MarkTypes)
      /\ ms[1] = m1 /\ ms[2] = m2 /\ ms[3] = m3 /\ ms[4] = m4
  BY <1>2, <1>3, <1>4, <1>5, <1>6 DEF NoBody
<1>9. /\ EntryRank(m1.entry) = 2 * (e - s)
      /\ EntryRank(m2.entry) = 2 * (e - s)
      /\ EntryRank(m3.entry) = 6 * LastOffset + 3 - 2 * (e - m) + 0
      /\ EntryRank(m4.entry) = 2 * (e - b)
  BY <1>1, <1>2, <1>3, <1>4, <1>5, <1>6, <1>7 DEF EntryRank
<1>10. c.kind # "foreach"
  OBVIOUS
<1> HIDE DEF ms, bs, m1, m2, m3, m4, b1, b2
<1> USE DEF ms, bs
<1>11. Typed(c)
  BY <1>3, <1>4, <1>5, <1>6, <1>8 DEF Typed
<1>12. Distinct(c)
  BY <1>1, <1>3, <1>4, <1>5, <1>6, <1>8 DEF Distinct
<1>13. Turned(c)
  BY <1>3, <1>4, <1>5, <1>6, <1>7, <1>8, <1>10 DEF Turned
<1>14. Spans(c)
  BY <1>1, <1>2, <1>3, <1>4, <1>5, <1>6, <1>8 DEF Spans
<1>15. c.kind = "for" => InFront(c)
  BY SMTT(30), <1>1, <1>3, <1>4, <1>5, <1>6, <1>7, <1>8, <1>9 DEF InFront
<1>16. c.kind = "for" => Edges(c)
  BY <1>1, <1>2, <1>3, <1>4, <1>5, <1>6, <1>7, <1>8 DEF Edges
<1>17. c.kind = "for" => Enclose(c)
  BY SMTT(30), <1>1, <1>3, <1>4, <1>5, <1>6, <1>7, <1>8 DEF Enclose
<1>18. /\ Sooner(m1, m3)
      /\ Sooner(m1, m4)
      /\ Sooner(m1, m2)
      /\ Sooner(m3, m4)
      /\ Sooner(m3, m2)
      /\ Sooner(m4, m2)
  BY <1>1, <1>3, <1>4, <1>5, <1>6, <1>9 DEF Sooner
<1>19. c.kind = "for" => Turns(c)
  BY <1>3, <1>4, <1>5, <1>6, <1>7, <1>8, <1>18 DEF Turns
<1>20. c.kind = "for" => Inner(c)
  BY <1>1, <1>2, <1>8 DEF Inner
<1> QED
  BY <1>11, <1>12, <1>13, <1>14, <1>15, <1>16, <1>17, <1>19, <1>20

(* The plan of a foreach. *)
LEMMA ForeachPlan ==
  ASSUME NEW c \in Statements, c.kind = "foreach"
  PROVE  /\ Typed(c) /\ Distinct(c) /\ Turned(c) /\ Spans(c)
         /\ InFront(c) /\ Edges(c) /\ Enclose(c) /\ Turns(c) /\ Inner(c)
<1> DEFINE s == c.cut[1]
           e == c.cut[2]
           ms == MarksOf(c)
           m1 == Mark(c, s, "FOREACH", s, e, 1)
           m2 == Mark(c, e, "FOREACH_END", s, e, 2)
           bs == Bodies(c)
           b1 == <<s + 2, e - 1>>
<1>1. /\ s \in Nat /\ s <= LastOffset /\ e \in Nat /\ e <= LastOffset /\ LastOffset \in Nat
      /\ 0 < s /\ s + 4 <= e /\ e < LastOffset
  BY ForeachCut, OpArrayAssumption
<1>0. s \in AllOffsets /\ e \in AllOffsets
  BY <1>1, OffsetIs
<1>2. /\ First(c) = s - 1 /\ Beyond(c) = e + 1
      /\ bs = <<b1>>
      /\ ms = <<m1, m2>>
  BY ForeachTable
<1> HIDE DEF s, e
<1>3. /\ m1 \in MarkTypes /\ m1.at = s /\ m1.entry.flags = "FOREACH"
      /\ m1.entry.start = s /\ m1.entry.end = e
      /\ m1.entry.of = c /\ m1.entry.body = 1 /\ Size(m1.entry) = e - s
  BY <1>0, MarkIs DEF Flags
<1>4. /\ m2 \in MarkTypes /\ m2.at = e /\ m2.entry.flags = "FOREACH_END"
      /\ m2.entry.start = s /\ m2.entry.end = e
      /\ m2.entry.of = c /\ m2.entry.body = 2 /\ Size(m2.entry) = e - s
  BY <1>0, MarkIs DEF Flags
<1>5. /\ ~IsEnd(m1.entry) /\ ~Opens(m1.entry) /\ ~Closes(m1.entry)
      /\ IsEnd(m2.entry) /\ ~Opens(m2.entry) /\ Closes(m2.entry)
  BY <1>3, <1>4, FlagIs
<1>6. /\ DOMAIN bs = {1}
      /\ bs[1] = b1 /\ b1[1] = s + 2 /\ b1[2] = e - 1
      /\ Len(ms) = 2 /\ DOMAIN ms = {1, 2} /\ ms \in Seq(MarkTypes)
      /\ ms[1] = m1 /\ ms[2] = m2
  BY <1>2, <1>3, <1>4
<1>7. /\ EntryRank(m1.entry) = 6 * LastOffset + 3 - 2 * (e - s) + 0
      /\ EntryRank(m2.entry) = 2 * (e - s)
  BY <1>1, <1>2, <1>3, <1>4, <1>5 DEF EntryRank
<1>8. c.kind = "foreach"
  OBVIOUS
<1> HIDE DEF ms, bs, m1, m2, b1
<1> USE DEF ms, bs
<1>9. Typed(c)
  BY <1>3, <1>4, <1>6 DEF Typed
<1>10. Distinct(c)
  BY <1>1, <1>3, <1>4, <1>6 DEF Distinct
<1>11. Turned(c)
  BY <1>3, <1>4, <1>5, <1>6, <1>8 DEF Turned
<1>12. Spans(c)
  BY <1>1, <1>2, <1>3, <1>4, <1>6 DEF Spans
<1>13. InFront(c)
  BY <1>1, <1>3, <1>4, <1>5, <1>6, <1>7 DEF InFront
<1>14. Edges(c)
  BY <1>1, <1>2, <1>3, <1>4, <1>5, <1>6 DEF Edges
<1>15. Enclose(c)
  BY <1>1, <1>3, <1>4, <1>5, <1>6 DEF Enclose
<1>16. /\ Sooner(m1, m2)
  BY <1>1, <1>3, <1>4, <1>7 DEF Sooner
<1>17. Turns(c)
  BY <1>3, <1>4, <1>5, <1>6, <1>16 DEF Turns
<1>18. Inner(c)
  BY <1>1, <1>2, <1>6 DEF Inner
<1> QED
  BY <1>9, <1>10, <1>11, <1>12, <1>13, <1>14, <1>15, <1>17, <1>18

(* The plan of a try. *)
LEMMA TryPlan ==
  ASSUME NEW c \in Statements, c.kind = "try"
  PROVE  /\ Typed(c) /\ Distinct(c) /\ Turned(c) /\ Spans(c)
         /\ InFront(c) /\ Edges(c) /\ Enclose(c) /\ Turns(c) /\ Inner(c)
<1> DEFINE s == c.cut[1]
           m == c.cut[2]
           e == c.cut[3]
           ms == MarksOf(c)
           m1 == Mark(c, s, "TRY", s, m, 1)
           m2 == Mark(c, m, "TRY_END", s, m, 2)
           m3 == Mark(c, m, "CATCH", m, e, 2)
           m4 == Mark(c, e, "CATCH_END", m, e, 3)
           bs == Bodies(c)
           b1 == <<s, m - 1>>
           b2 == <<m + 1, e - 1>>
<1>1. /\ s \in Nat /\ s <= LastOffset /\ m \in Nat /\ m <= LastOffset /\ e \in Nat
      /\ e <= LastOffset /\ LastOffset \in Nat
      /\ s + 2 <= m /\ m + 3 <= e
  BY TryCut, OpArrayAssumption
<1>0. s \in AllOffsets /\ m \in AllOffsets /\ e \in AllOffsets
  BY <1>1, OffsetIs
<1>2. /\ First(c) = s /\ Beyond(c) = e
      /\ bs = <<b1, b2>>
      /\ ms = <<m1, m2, m3, m4>>
  BY TryTable
<1> HIDE DEF s, m, e
<1>3. /\ m1 \in MarkTypes /\ m1.at = s /\ m1.entry.flags = "TRY"
      /\ m1.entry.start = s /\ m1.entry.end = m
      /\ m1.entry.of = c /\ m1.entry.body = 1 /\ Size(m1.entry) = m - s
  BY <1>0, MarkIs DEF Flags
<1>4. /\ m2 \in MarkTypes /\ m2.at = m /\ m2.entry.flags = "TRY_END"
      /\ m2.entry.start = s /\ m2.entry.end = m
      /\ m2.entry.of = c /\ m2.entry.body = 2 /\ Size(m2.entry) = m - s
  BY <1>0, MarkIs DEF Flags
<1>5. /\ m3 \in MarkTypes /\ m3.at = m /\ m3.entry.flags = "CATCH"
      /\ m3.entry.start = m /\ m3.entry.end = e
      /\ m3.entry.of = c /\ m3.entry.body = 2 /\ Size(m3.entry) = e - m
  BY <1>0, MarkIs DEF Flags
<1>6. /\ m4 \in MarkTypes /\ m4.at = e /\ m4.entry.flags = "CATCH_END"
      /\ m4.entry.start = m /\ m4.entry.end = e
      /\ m4.entry.of = c /\ m4.entry.body = 3 /\ Size(m4.entry) = e - m
  BY <1>0, MarkIs DEF Flags
<1>7. /\ ~IsEnd(m1.entry) /\ Opens(m1.entry) /\ ~Closes(m1.entry)
      /\ IsEnd(m2.entry) /\ ~Opens(m2.entry) /\ Closes(m2.entry)
      /\ ~IsEnd(m3.entry) /\ Opens(m3.entry) /\ ~Closes(m3.entry)
      /\ IsEnd(m4.entry) /\ ~Opens(m4.entry) /\ Closes(m4.entry)
  BY <1>3, <1>4, <1>5, <1>6, FlagIs
<1>8. /\ DOMAIN bs = {1, 2}
      /\ bs[1] = b1 /\ b1[1] = s /\ b1[2] = m - 1
      /\ bs[2] = b2 /\ b2[1] = m + 1 /\ b2[2] = e - 1
      /\ Len(ms) = 4 /\ DOMAIN ms = {1, 2, 3, 4} /\ ms \in Seq(MarkTypes)
      /\ ms[1] = m1 /\ ms[2] = m2 /\ ms[3] = m3 /\ ms[4] = m4
  BY <1>2, <1>3, <1>4, <1>5, <1>6
<1>9. /\ EntryRank(m1.entry) = 6 * LastOffset + 3 - 2 * (m - s) + 0
      /\ EntryRank(m2.entry) = 2 * (m - s)
      /\ EntryRank(m3.entry) = 6 * LastOffset + 3 - 2 * (e - m) + 0
      /\ EntryRank(m4.entry) = 2 * (e - m)
  BY <1>1, <1>2, <1>3, <1>4, <1>5, <1>6, <1>7 DEF EntryRank
<1>10. c.kind # "foreach"
  OBVIOUS
<1> HIDE DEF ms, bs, m1, m2, m3, m4, b1, b2
<1> USE DEF ms, bs
<1>11. Typed(c)
  BY <1>3, <1>4, <1>5, <1>6, <1>8 DEF Typed
<1>12. Distinct(c)
  BY <1>1, <1>3, <1>4, <1>5, <1>6, <1>8 DEF Distinct
<1>13. Turned(c)
  BY <1>3, <1>4, <1>5, <1>6, <1>7, <1>8, <1>10 DEF Turned
<1>14. Spans(c)
  BY <1>1, <1>2, <1>3, <1>4, <1>5, <1>6, <1>8 DEF Spans
<1>15. InFront(c)
  BY SMTT(30), <1>1, <1>3, <1>4, <1>5, <1>6, <1>7, <1>8, <1>9 DEF InFront
<1>16. Edges(c)
  BY <1>1, <1>2, <1>3, <1>4, <1>5, <1>6, <1>7, <1>8 DEF Edges
<1>17. Enclose(c)
  BY <1>1, <1>3, <1>4, <1>5, <1>6, <1>7, <1>8 DEF Enclose
<1>18. /\ Sooner(m1, m2)
      /\ Sooner(m1, m3)
      /\ Sooner(m1, m4)
      /\ Sooner(m2, m3)
      /\ Sooner(m2, m4)
      /\ Sooner(m3, m4)
  BY <1>1, <1>3, <1>4, <1>5, <1>6, <1>9 DEF Sooner
<1>19. Turns(c)
  BY <1>3, <1>4, <1>5, <1>6, <1>7, <1>8, <1>18 DEF Turns
<1>20. Inner(c)
  BY <1>1, <1>2, <1>8 DEF Inner
<1> QED
  BY <1>11, <1>12, <1>13, <1>14, <1>15, <1>16, <1>17, <1>19, <1>20

(* The plan of a switch with a default last. *)
LEMMA SwitchDefaultPlan ==
  ASSUME NEW c \in Statements, c.kind = "switchdefault"
  PROVE  /\ Typed(c) /\ Distinct(c) /\ Turned(c) /\ Spans(c)
         /\ InFront(c) /\ Edges(c) /\ Enclose(c) /\ Turns(c) /\ Inner(c)
<1> DEFINE s == c.cut[1]
           m == c.cut[2]
           e == c.cut[3]
           ms == MarksOf(c)
           m1 == Mark(c, m, "SWITCH_DEFAULT", m, e, 3)
           m2 == Mark(c, s, "SWITCH", s, e, 1)
           m3 == Mark(c, s, "SWITCH_CASE", s, m, 2)
           m4 == Mark(c, e, "SWITCH_END", s, m, 4)
           bs == Bodies(c)
           b1 == NoBody
           b2 == <<s + 2, m - 2>>
           b3 == <<m, e - 2>>
<1>1. /\ s \in Nat /\ s <= LastOffset /\ m \in Nat /\ m <= LastOffset /\ e \in Nat
      /\ e <= LastOffset /\ LastOffset \in Nat
      /\ s + 5 <= m /\ m + 3 <= e
  BY SwitchDefaultCut, OpArrayAssumption
<1>0. s \in AllOffsets /\ m \in AllOffsets /\ e \in AllOffsets
  BY <1>1, OffsetIs
<1>2. /\ First(c) = s /\ Beyond(c) = e
      /\ bs = <<b1, b2, b3>>
      /\ ms = <<m1, m2, m3, m4>>
  BY SwitchDefaultTable
<1> HIDE DEF s, m, e
<1>3. /\ m1 \in MarkTypes /\ m1.at = m /\ m1.entry.flags = "SWITCH_DEFAULT"
      /\ m1.entry.start = m /\ m1.entry.end = e
      /\ m1.entry.of = c /\ m1.entry.body = 3 /\ Size(m1.entry) = e - m
  BY <1>0, MarkIs DEF Flags
<1>4. /\ m2 \in MarkTypes /\ m2.at = s /\ m2.entry.flags = "SWITCH"
      /\ m2.entry.start = s /\ m2.entry.end = e
      /\ m2.entry.of = c /\ m2.entry.body = 1 /\ Size(m2.entry) = e - s
  BY <1>0, MarkIs DEF Flags
<1>5. /\ m3 \in MarkTypes /\ m3.at = s /\ m3.entry.flags = "SWITCH_CASE"
      /\ m3.entry.start = s /\ m3.entry.end = m
      /\ m3.entry.of = c /\ m3.entry.body = 2 /\ Size(m3.entry) = m - s
  BY <1>0, MarkIs DEF Flags
<1>6. /\ m4 \in MarkTypes /\ m4.at = e /\ m4.entry.flags = "SWITCH_END"
      /\ m4.entry.start = s /\ m4.entry.end = m
      /\ m4.entry.of = c /\ m4.entry.body = 4 /\ Size(m4.entry) = m - s
  BY <1>0, MarkIs DEF Flags
<1>7. /\ ~IsEnd(m1.entry) /\ Opens(m1.entry) /\ Closes(m1.entry)
      /\ ~IsEnd(m2.entry) /\ Opens(m2.entry) /\ ~Closes(m2.entry)
      /\ ~IsEnd(m3.entry) /\ Opens(m3.entry) /\ Closes(m3.entry)
      /\ IsEnd(m4.entry) /\ ~Opens(m4.entry) /\ Closes(m4.entry)
  BY <1>3, <1>4, <1>5, <1>6, FlagIs
<1>8. /\ DOMAIN bs = {1, 2, 3}
      /\ bs[1] = NoBody /\ NoBody[1] = LastOffset + 1 /\ NoBody[2] = 0
      /\ bs[2] = b2 /\ b2[1] = s + 2 /\ b2[2] = m - 2
      /\ bs[3] = b3 /\ b3[1] = m /\ b3[2] = e - 2
      /\ Len(ms) = 4 /\ DOMAIN ms = {1, 2, 3, 4} /\ ms \in Seq(MarkTypes)
      /\ ms[1] = m1 /\ ms[2] = m2 /\ ms[3] = m3 /\ ms[4] = m4
  BY <1>2, <1>3, <1>4, <1>5, <1>6 DEF NoBody
<1>9. /\ EntryRank(m1.entry) = 6 * LastOffset + 3 - 2 * (e - m) + 0
      /\ EntryRank(m2.entry) = 6 * LastOffset + 3 - 2 * (e - s) + 0
      /\ EntryRank(m3.entry) = 6 * LastOffset + 3 - 2 * (m - s) + 1
      /\ EntryRank(m4.entry) = 2 * (m - s)
  BY <1>1, <1>2, <1>3, <1>4, <1>5, <1>6, <1>7 DEF EntryRank
<1>10. c.kind # "foreach"
  OBVIOUS
<1> HIDE DEF ms, bs, m1, m2, m3, m4, b1, b2, b3
<1> USE DEF ms, bs
<1>11. Typed(c)
  BY <1>3, <1>4, <1>5, <1>6, <1>8 DEF Typed
<1>12. Distinct(c)
  BY <1>1, <1>3, <1>4, <1>5, <1>6, <1>8 DEF Distinct
<1>13. Turned(c)
  BY <1>3, <1>4, <1>5, <1>6, <1>7, <1>8, <1>10 DEF Turned
<1>14. Spans(c)
  BY <1>1, <1>2, <1>3, <1>4, <1>5, <1>6, <1>8 DEF Spans
<1>15. InFront(c)
  BY SMTT(30), <1>1, <1>3, <1>4, <1>5, <1>6, <1>7, <1>8, <1>9 DEF InFront
<1>16. Edges(c)
  BY <1>1, <1>2, <1>3, <1>4, <1>5, <1>6, <1>7, <1>8 DEF Edges
<1>17. Enclose(c)
  BY SMTT(30), <1>1, <1>3, <1>4, <1>5, <1>6, <1>7, <1>8 DEF Enclose
<1>18. /\ Sooner(m2, m3)
      /\ Sooner(m2, m1)
      /\ Sooner(m2, m4)
      /\ Sooner(m3, m1)
      /\ Sooner(m3, m4)
      /\ Sooner(m1, m4)
  BY <1>1, <1>3, <1>4, <1>5, <1>6, <1>9 DEF Sooner
<1>19. Turns(c)
  BY <1>3, <1>4, <1>5, <1>6, <1>7, <1>8, <1>18 DEF Turns
<1>20. Inner(c)
  BY <1>1, <1>2, <1>8 DEF Inner
<1> QED
  BY <1>11, <1>12, <1>13, <1>14, <1>15, <1>16, <1>17, <1>19, <1>20

(* The plan of a switch with a default first. *)
LEMMA DefaultSwitchPlan ==
  ASSUME NEW c \in Statements, c.kind = "defaultswitch"
  PROVE  /\ Typed(c) /\ Distinct(c) /\ Turned(c) /\ Spans(c)
<1> DEFINE s == c.cut[1]
           m == c.cut[2]
           e == c.cut[3]
           ms == MarksOf(c)
           m1 == Mark(c, s, "SWITCH_DEFAULT", s, e, 2)
           m2 == Mark(c, s, "SWITCH", s, e, 1)
           m3 == Mark(c, m, "SWITCH_CASE", m, s, 3)
           m4 == Mark(c, e, "SWITCH_END", m, s, 4)
           bs == Bodies(c)
           b1 == NoBody
           b2 == <<s, m - 1>>
           b3 == <<m + 2, e - 2>>
<1>1. /\ s \in Nat /\ s <= LastOffset /\ m \in Nat /\ m <= LastOffset /\ e \in Nat
      /\ e <= LastOffset /\ LastOffset \in Nat
      /\ 0 < s /\ s + 2 <= m /\ m + 5 <= e
  BY DefaultSwitchCut, OpArrayAssumption
<1>0. s \in AllOffsets /\ m \in AllOffsets /\ e \in AllOffsets
  BY <1>1, OffsetIs
<1>2. /\ First(c) = s - 1 /\ Beyond(c) = e
      /\ bs = <<b1, b2, b3>>
      /\ ms = <<m1, m2, m3, m4>>
  BY DefaultSwitchTable
<1> HIDE DEF s, m, e
<1>3. /\ m1 \in MarkTypes /\ m1.at = s /\ m1.entry.flags = "SWITCH_DEFAULT"
      /\ m1.entry.start = s /\ m1.entry.end = e
      /\ m1.entry.of = c /\ m1.entry.body = 2 /\ Size(m1.entry) = e - s
  BY <1>0, MarkIs DEF Flags
<1>4. /\ m2 \in MarkTypes /\ m2.at = s /\ m2.entry.flags = "SWITCH"
      /\ m2.entry.start = s /\ m2.entry.end = e
      /\ m2.entry.of = c /\ m2.entry.body = 1 /\ Size(m2.entry) = e - s
  BY <1>0, MarkIs DEF Flags
<1>5. /\ m3 \in MarkTypes /\ m3.at = m /\ m3.entry.flags = "SWITCH_CASE"
      /\ m3.entry.start = m /\ m3.entry.end = s
      /\ m3.entry.of = c /\ m3.entry.body = 3 /\ Size(m3.entry) = s - m
  BY <1>0, MarkIs DEF Flags
<1>6. /\ m4 \in MarkTypes /\ m4.at = e /\ m4.entry.flags = "SWITCH_END"
      /\ m4.entry.start = m /\ m4.entry.end = s
      /\ m4.entry.of = c /\ m4.entry.body = 4 /\ Size(m4.entry) = s - m
  BY <1>0, MarkIs DEF Flags
<1>7. /\ ~IsEnd(m1.entry) /\ Opens(m1.entry) /\ Closes(m1.entry)
      /\ ~IsEnd(m2.entry) /\ Opens(m2.entry) /\ ~Closes(m2.entry)
      /\ ~IsEnd(m3.entry) /\ Opens(m3.entry) /\ Closes(m3.entry)
      /\ IsEnd(m4.entry) /\ ~Opens(m4.entry) /\ Closes(m4.entry)
  BY <1>3, <1>4, <1>5, <1>6, FlagIs
<1>8. /\ DOMAIN bs = {1, 2, 3}
      /\ bs[1] = NoBody /\ NoBody[1] = LastOffset + 1 /\ NoBody[2] = 0
      /\ bs[2] = b2 /\ b2[1] = s /\ b2[2] = m - 1
      /\ bs[3] = b3 /\ b3[1] = m + 2 /\ b3[2] = e - 2
      /\ Len(ms) = 4 /\ DOMAIN ms = {1, 2, 3, 4} /\ ms \in Seq(MarkTypes)
      /\ ms[1] = m1 /\ ms[2] = m2 /\ ms[3] = m3 /\ ms[4] = m4
  BY <1>2, <1>3, <1>4, <1>5, <1>6 DEF NoBody
<1>9. /\ EntryRank(m1.entry) = 6 * LastOffset + 3 - 2 * (e - s) + 0
      /\ EntryRank(m2.entry) = 6 * LastOffset + 3 - 2 * (e - s) + 0
      /\ EntryRank(m3.entry) = 6 * LastOffset + 3 - 2 * (s - m) + 1
      /\ EntryRank(m4.entry) = 2 * (s - m)
  BY <1>1, <1>2, <1>3, <1>4, <1>5, <1>6, <1>7 DEF EntryRank
<1>10. c.kind # "foreach"
  OBVIOUS
<1> HIDE DEF ms, bs, m1, m2, m3, m4, b1, b2, b3
<1> USE DEF ms, bs
<1>11. Typed(c)
  BY <1>3, <1>4, <1>5, <1>6, <1>8 DEF Typed
<1>12. Distinct(c)
  BY <1>1, <1>3, <1>4, <1>5, <1>6, <1>8 DEF Distinct
<1>13. Turned(c)
  BY <1>3, <1>4, <1>5, <1>6, <1>7, <1>8, <1>10 DEF Turned
<1>14. Spans(c)
  BY <1>1, <1>2, <1>3, <1>4, <1>5, <1>6, <1>8 DEF Spans
<1> QED
  BY <1>11, <1>12, <1>13, <1>14

(* The plan of a switch with one case. *)
LEMMA OneCasePlan ==
  ASSUME NEW c \in Statements, c.kind = "switch", Len(c.cut) = 2
  PROVE  /\ Typed(c) /\ Distinct(c) /\ Turned(c) /\ Spans(c)
         /\ InFront(c) /\ Edges(c) /\ Enclose(c) /\ Turns(c) /\ Inner(c)
<1> DEFINE s == c.cut[1]
           e == c.cut[2]
           ms == MarksOf(c)
           m1 == Mark(c, s, "SWITCH", s, e, 1)
           m2 == Mark(c, s, "SWITCH_CASE", s, e, 2)
           m3 == Mark(c, e, "SWITCH_END", s, e, 3)
           bs == Bodies(c)
           b1 == NoBody
           b2 == <<s + 2, e - 1>>
<1>1. /\ s \in Nat /\ s <= LastOffset /\ e \in Nat /\ e <= LastOffset /\ LastOffset \in Nat
      /\ s + 4 <= e
  BY OneCaseCut, OpArrayAssumption
<1>0. s \in AllOffsets /\ e \in AllOffsets
  BY <1>1, OffsetIs
<1>2. /\ First(c) = s /\ Beyond(c) = e
      /\ bs = <<b1, b2>>
      /\ ms = <<m1, m2, m3>>
  BY OneCaseTable
<1> HIDE DEF s, e
<1>3. /\ m1 \in MarkTypes /\ m1.at = s /\ m1.entry.flags = "SWITCH"
      /\ m1.entry.start = s /\ m1.entry.end = e
      /\ m1.entry.of = c /\ m1.entry.body = 1 /\ Size(m1.entry) = e - s
  BY <1>0, MarkIs DEF Flags
<1>4. /\ m2 \in MarkTypes /\ m2.at = s /\ m2.entry.flags = "SWITCH_CASE"
      /\ m2.entry.start = s /\ m2.entry.end = e
      /\ m2.entry.of = c /\ m2.entry.body = 2 /\ Size(m2.entry) = e - s
  BY <1>0, MarkIs DEF Flags
<1>5. /\ m3 \in MarkTypes /\ m3.at = e /\ m3.entry.flags = "SWITCH_END"
      /\ m3.entry.start = s /\ m3.entry.end = e
      /\ m3.entry.of = c /\ m3.entry.body = 3 /\ Size(m3.entry) = e - s
  BY <1>0, MarkIs DEF Flags
<1>6. /\ ~IsEnd(m1.entry) /\ Opens(m1.entry) /\ ~Closes(m1.entry)
      /\ ~IsEnd(m2.entry) /\ Opens(m2.entry) /\ Closes(m2.entry)
      /\ IsEnd(m3.entry) /\ ~Opens(m3.entry) /\ Closes(m3.entry)
  BY <1>3, <1>4, <1>5, FlagIs
<1>7. /\ DOMAIN bs = {1, 2}
      /\ bs[1] = NoBody /\ NoBody[1] = LastOffset + 1 /\ NoBody[2] = 0
      /\ bs[2] = b2 /\ b2[1] = s + 2 /\ b2[2] = e - 1
      /\ Len(ms) = 3 /\ DOMAIN ms = {1, 2, 3} /\ ms \in Seq(MarkTypes)
      /\ ms[1] = m1 /\ ms[2] = m2 /\ ms[3] = m3
  BY <1>2, <1>3, <1>4, <1>5 DEF NoBody
<1>8. /\ EntryRank(m1.entry) = 6 * LastOffset + 3 - 2 * (e - s) + 0
      /\ EntryRank(m2.entry) = 6 * LastOffset + 3 - 2 * (e - s) + 1
      /\ EntryRank(m3.entry) = 2 * (e - s)
  BY <1>1, <1>2, <1>3, <1>4, <1>5, <1>6 DEF EntryRank
<1>9. c.kind # "foreach"
  OBVIOUS
<1> HIDE DEF ms, bs, m1, m2, m3, b1, b2
<1> USE DEF ms, bs
<1>10. Typed(c)
  BY <1>3, <1>4, <1>5, <1>7 DEF Typed
<1>11. Distinct(c)
  BY <1>1, <1>3, <1>4, <1>5, <1>7 DEF Distinct
<1>12. Turned(c)
  BY <1>3, <1>4, <1>5, <1>6, <1>7, <1>9 DEF Turned
<1>13. Spans(c)
  BY <1>1, <1>2, <1>3, <1>4, <1>5, <1>7 DEF Spans
<1>14. InFront(c)
  BY <1>1, <1>3, <1>4, <1>5, <1>6, <1>7, <1>8 DEF InFront
<1>15. Edges(c)
  BY <1>1, <1>2, <1>3, <1>4, <1>5, <1>6, <1>7 DEF Edges
<1>16. Enclose(c)
  BY <1>1, <1>3, <1>4, <1>5, <1>6, <1>7 DEF Enclose
<1>17. /\ Sooner(m1, m2)
      /\ Sooner(m1, m3)
      /\ Sooner(m2, m3)
  BY <1>1, <1>3, <1>4, <1>5, <1>8 DEF Sooner
<1>18. Turns(c)
  BY <1>3, <1>4, <1>5, <1>6, <1>7, <1>17 DEF Turns
<1>19. Inner(c)
  BY <1>1, <1>2, <1>7 DEF Inner
<1> QED
  BY <1>10, <1>11, <1>12, <1>13, <1>14, <1>15, <1>16, <1>18, <1>19

(* The plan of a switch with two cases. *)
LEMMA TwoCasesPlan ==
  ASSUME NEW c \in Statements, c.kind = "switch", Len(c.cut) = 3
  PROVE  /\ Typed(c) /\ Distinct(c) /\ Turned(c) /\ Spans(c)
         /\ InFront(c) /\ Edges(c) /\ Enclose(c) /\ Turns(c) /\ Inner(c)
<1> DEFINE s == c.cut[1]
           m == c.cut[2]
           e == c.cut[3]
           p == m - 1
           ms == MarksOf(c)
           m1 == Mark(c, s, "SWITCH_CASE", s, p, 2)
           m2 == Mark(c, s, "SWITCH", s, e, 1)
           m3 == Mark(c, m, "SWITCH_CASE", m, e, 3)
           m4 == Mark(c, e, "SWITCH_END", m, e, 4)
           bs == Bodies(c)
           b1 == NoBody
           b2 == <<s + 2, p>>
           b3 == <<m + 2, e - 1>>
<1>1. /\ s \in Nat /\ s <= LastOffset /\ m \in Nat /\ m <= LastOffset /\ e \in Nat
      /\ e <= LastOffset /\ p \in Nat /\ p <= LastOffset /\ LastOffset \in Nat
      /\ s + 4 <= m /\ m + 4 <= e
      /\ p = m - 1
  BY TwoCasesCut, OpArrayAssumption
<1>0. s \in AllOffsets /\ m \in AllOffsets /\ e \in AllOffsets /\ p \in AllOffsets
  BY <1>1, OffsetIs
<1>2. /\ First(c) = s /\ Beyond(c) = e
      /\ bs = <<b1, b2, b3>>
      /\ ms = <<m1, m2, m3, m4>>
  BY TwoCasesTable
<1> HIDE DEF s, m, e, p
<1>3. /\ m1 \in MarkTypes /\ m1.at = s /\ m1.entry.flags = "SWITCH_CASE"
      /\ m1.entry.start = s /\ m1.entry.end = p
      /\ m1.entry.of = c /\ m1.entry.body = 2 /\ Size(m1.entry) = p - s
  BY <1>0, MarkIs DEF Flags
<1>4. /\ m2 \in MarkTypes /\ m2.at = s /\ m2.entry.flags = "SWITCH"
      /\ m2.entry.start = s /\ m2.entry.end = e
      /\ m2.entry.of = c /\ m2.entry.body = 1 /\ Size(m2.entry) = e - s
  BY <1>0, MarkIs DEF Flags
<1>5. /\ m3 \in MarkTypes /\ m3.at = m /\ m3.entry.flags = "SWITCH_CASE"
      /\ m3.entry.start = m /\ m3.entry.end = e
      /\ m3.entry.of = c /\ m3.entry.body = 3 /\ Size(m3.entry) = e - m
  BY <1>0, MarkIs DEF Flags
<1>6. /\ m4 \in MarkTypes /\ m4.at = e /\ m4.entry.flags = "SWITCH_END"
      /\ m4.entry.start = m /\ m4.entry.end = e
      /\ m4.entry.of = c /\ m4.entry.body = 4 /\ Size(m4.entry) = e - m
  BY <1>0, MarkIs DEF Flags
<1>7. /\ ~IsEnd(m1.entry) /\ Opens(m1.entry) /\ Closes(m1.entry)
      /\ ~IsEnd(m2.entry) /\ Opens(m2.entry) /\ ~Closes(m2.entry)
      /\ ~IsEnd(m3.entry) /\ Opens(m3.entry) /\ Closes(m3.entry)
      /\ IsEnd(m4.entry) /\ ~Opens(m4.entry) /\ Closes(m4.entry)
  BY <1>3, <1>4, <1>5, <1>6, FlagIs
<1>8. /\ DOMAIN bs = {1, 2, 3}
      /\ bs[1] = NoBody /\ NoBody[1] = LastOffset + 1 /\ NoBody[2] = 0
      /\ bs[2] = b2 /\ b2[1] = s + 2 /\ b2[2] = p
      /\ bs[3] = b3 /\ b3[1] = m + 2 /\ b3[2] = e - 1
      /\ Len(ms) = 4 /\ DOMAIN ms = {1, 2, 3, 4} /\ ms \in Seq(MarkTypes)
      /\ ms[1] = m1 /\ ms[2] = m2 /\ ms[3] = m3 /\ ms[4] = m4
  BY <1>2, <1>3, <1>4, <1>5, <1>6 DEF NoBody
<1>9. /\ EntryRank(m1.entry) = 6 * LastOffset + 3 - 2 * (p - s) + 1
      /\ EntryRank(m2.entry) = 6 * LastOffset + 3 - 2 * (e - s) + 0
      /\ EntryRank(m3.entry) = 6 * LastOffset + 3 - 2 * (e - m) + 1
      /\ EntryRank(m4.entry) = 2 * (e - m)
  BY <1>1, <1>2, <1>3, <1>4, <1>5, <1>6, <1>7 DEF EntryRank
<1>10. c.kind # "foreach"
  OBVIOUS
<1> HIDE DEF ms, bs, m1, m2, m3, m4, b1, b2, b3
<1> USE DEF ms, bs
<1>11. Typed(c)
  BY <1>3, <1>4, <1>5, <1>6, <1>8 DEF Typed
<1>12. Distinct(c)
  BY SMTT(30), <1>1, <1>3, <1>4, <1>5, <1>6, <1>8 DEF Distinct
<1>13. Turned(c)
  BY <1>3, <1>4, <1>5, <1>6, <1>7, <1>8, <1>10 DEF Turned
<1>14. Spans(c)
  BY <1>1, <1>2, <1>3, <1>4, <1>5, <1>6, <1>8 DEF Spans
<1>15. InFront(c)
  BY SMTT(30), <1>1, <1>3, <1>4, <1>5, <1>6, <1>7, <1>8, <1>9 DEF InFront
<1>16. Edges(c)
  BY <1>1, <1>2, <1>3, <1>4, <1>5, <1>6, <1>7, <1>8 DEF Edges
<1>17. Enclose(c)
  BY SMTT(30), <1>1, <1>3, <1>4, <1>5, <1>6, <1>7, <1>8 DEF Enclose
<1>18. /\ Sooner(m2, m1)
      /\ Sooner(m2, m3)
      /\ Sooner(m2, m4)
      /\ Sooner(m1, m3)
      /\ Sooner(m1, m4)
      /\ Sooner(m3, m4)
  BY <1>1, <1>3, <1>4, <1>5, <1>6, <1>9 DEF Sooner
<1>19. Turns(c)
  BY <1>3, <1>4, <1>5, <1>6, <1>7, <1>8, <1>18 DEF Turns
<1>20. Inner(c)
  BY <1>1, <1>2, <1>8 DEF Inner
<1> QED
  BY <1>11, <1>12, <1>13, <1>14, <1>15, <1>16, <1>17, <1>19, <1>20

(* The plan of an if, with an else or without. *)
LEMMA IfPlan ==
  ASSUME NEW c \in Statements, c.kind \in {"if", "ifelse"}
  PROVE  /\ Typed(c) /\ Distinct(c) /\ Turned(c) /\ Spans(c)
         /\ InFront(c) /\ Edges(c) /\ Enclose(c) /\ Turns(c) /\ Inner(c)
<1> DEFINE n == Len(c.cut)
           a == c.cut
           ms == MarksOf(c)
           bs == Bodies(c)
<1>1. /\ n \in 2 .. 4 /\ LastOffset \in Nat
      /\ c.kind = "ifelse" => n \in 3 .. 4
      /\ \A k \in 1 .. n : a[k] \in Nat /\ a[k] <= LastOffset /\ a[k] \in AllOffsets
      /\ \A j, k \in 1 .. n : j < k => a[j] < a[k]
      /\ \A j, k \in 1 .. n : j <= k => a[j] <= a[k]
  <2>1. /\ n \in 2 .. 4 /\ LastOffset \in Nat
        /\ c.kind = "ifelse" => n \in 3 .. 4
        /\ \A k \in 1 .. n : a[k] \in Nat /\ a[k] <= LastOffset
    BY IfCut, IfElseCut, OpArrayAssumption
  <2>2. \A k \in 1 .. n : a[k] \in AllOffsets
    BY <2>1, OffsetIs
  <2>3. ASSUME NEW j \in 1 .. n, NEW k \in 1 .. n, j < k
        PROVE  a[j] < a[k]
    <3>1. CASE c.kind = "if"
      BY <2>1, <2>3, <3>1, IfCut
    <3>2. CASE c.kind = "ifelse" /\ k = n
      <4>1. n - 1 \in 1 .. n /\ n - 1 \in 1 .. n - 1 /\ n \in 1 .. n /\ j \in 1 .. n - 1
        BY <2>1, <2>3, <3>2
      <4>2. a[n - 1] < a[n] /\ (j < n - 1 => a[j] + 3 <= a[n - 1])
        BY <3>2, <4>1, IfElseCut
      <4>3. a[j] \in Nat /\ a[n - 1] \in Nat /\ a[n] \in Nat
        BY <2>1, <4>1
      <4>4. j = n - 1 \/ j < n - 1
        BY <2>1, <4>1
      <4> HIDE DEF n, a
      <4> QED
        BY <3>2, <4>2, <4>3, <4>4
    <3>3. CASE c.kind = "ifelse" /\ k # n
      <4>1. j \in 1 .. n - 1 /\ k \in 1 .. n - 1
        BY <2>1, <2>3, <3>3
      <4>2. a[j] + 3 <= a[k]
        BY <2>3, <3>3, <4>1, IfElseCut
      <4>3. a[j] \in Nat /\ a[k] \in Nat
        BY <2>1
      <4> QED
        BY <4>2, <4>3
    <3> QED
      BY <3>1, <3>2, <3>3
  <2>4. ASSUME NEW j \in 1 .. n, NEW k \in 1 .. n, j <= k
        PROVE  a[j] <= a[k]
    <3> HIDE DEF n, a
    <3>1. j = k \/ j < k
      BY <2>1, <2>4
    <3>2. a[j] \in Nat /\ a[k] \in Nat
      BY <2>1
    <3> QED
      BY <2>3, <3>1, <3>2
  <2> QED
    BY <2>1, <2>2, <2>3, <2>4
<1>2. /\ First(c) = a[1] /\ Beyond(c) = a[n] /\ DOMAIN bs = 1 .. n - 1
      /\ Len(ms) = n /\ DOMAIN ms = 1 .. n /\ ms = [k \in 1 .. n |-> ms[k]]
      /\ \A k \in 1 .. n - 1 : bs[k] =
           IF c.kind = "ifelse" /\ k = n - 1 THEN <<a[k], a[n]>>
           ELSE <<a[k] + 1, a[k + 1] - 1>>
      /\ \A k \in 1 .. n - 1 : ms[k] =
           Mark(c, a[k], IF k = 1 THEN "IF"
                         ELSE IF k = n - 1 /\ c.kind = "ifelse" THEN "ELSE"
                         ELSE "ELSEIF", a[k], a[k + 1], k)
      /\ ms[n] = Mark(c, a[n], "IF_END", a[1], a[n], n)
  BY IfTable
<1>7. c.kind # "foreach" /\ c.kind \in {"if", "ifelse"}
  OBVIOUS
<1> HIDE DEF n, a, ms, bs
<1>0. ASSUME NEW k \in 1 .. n - 1
      PROVE  /\ k \in 1 .. n /\ k + 1 \in 1 .. n /\ k \in 1 .. 5
             /\ 1 \in 1 .. n /\ n \in 1 .. n /\ n \in 1 .. 5
  BY <1>1
<1>3. ASSUME NEW k \in 1 .. n - 1
      PROVE  /\ bs[k][1] \in {a[k], a[k] + 1} /\ bs[k][2] \in {a[k + 1] - 1, a[k + 1]}
             /\ k = 1 => bs[k][1] = a[k] + 1
  <2>1. bs[k] = IF c.kind = "ifelse" /\ k = n - 1 THEN <<a[k], a[n]>>
                ELSE <<a[k] + 1, a[k + 1] - 1>>
    BY <1>2
  <2>2. CASE c.kind = "ifelse" /\ k = n - 1
    <3>1. bs[k][1] = a[k] /\ bs[k][2] = a[n]
      BY <2>1, <2>2
    <3>2. k + 1 = n /\ k # 1
      BY <1>1, <2>2
    <3> QED
      BY <3>1, <3>2
  <2>3. CASE ~(c.kind = "ifelse" /\ k = n - 1)
    <3>1. bs[k][1] = a[k] + 1 /\ bs[k][2] = a[k + 1] - 1
      BY <2>1, <2>3
    <3> QED
      BY <3>1
  <2> QED
    BY <2>2, <2>3
<1>4. ASSUME NEW k \in 1 .. n - 1
      PROVE  /\ ms[k] \in MarkTypes /\ ms[k].at = a[k]
             /\ ms[k].entry.start = a[k] /\ ms[k].entry.end = a[k + 1]
             /\ ms[k].entry.of = c /\ ms[k].entry.body = k
             /\ Size(ms[k].entry) = a[k + 1] - a[k]
             /\ ~IsEnd(ms[k].entry) /\ Opens(ms[k].entry)
             /\ Closes(ms[k].entry) => k > 1
             /\ k > 1 => Closes(ms[k].entry)
             /\ EntryRank(ms[k].entry) = 6 * LastOffset + 3 - 2 * (a[k + 1] - a[k])
  <2> DEFINE flag == IF k = 1 THEN "IF"
                     ELSE IF k = n - 1 /\ c.kind = "ifelse" THEN "ELSE" ELSE "ELSEIF"
             start == a[k]
             end == a[k + 1]
             m == Mark(c, start, flag, start, end, k)
  <2>1. ms[k] = m
    BY <1>2
  <2>2. start \in AllOffsets /\ end \in AllOffsets /\ start \in Nat /\ end \in Nat
    BY <1>0, <1>1
  <2>3. flag \in Flags /\ flag \in {"IF", "ELSE", "ELSEIF"} /\ (flag = "IF" <=> k = 1)
    BY DEF Flags
  <2>4. k \in 1 .. 5
    BY <1>0
  <2> HIDE DEF start, end, flag
  <2>5. /\ m \in MarkTypes /\ m.at = start /\ m.entry.flags = flag
        /\ m.entry.start = start /\ m.entry.end = end
        /\ m.entry.of = c /\ m.entry.body = k /\ Size(m.entry) = end - start
    BY <2>2, <2>3, <2>4, MarkIs
  <2> HIDE DEF m
  <2>6. /\ ~IsEnd(m.entry) /\ Opens(m.entry) /\ (Closes(m.entry) <=> k > 1)
    <3>1. CASE k = 1
      BY <2>3, <2>5, <3>1, FlagIs
    <3>2. CASE k # 1
      <4>1. flag \in {"ELSE", "ELSEIF"} /\ k > 1
        BY <2>3, <2>4, <3>2
      <4> QED
        BY <2>5, <4>1, FlagIs
    <3> QED
      BY <3>1, <3>2
  <2>7. EntryRank(m.entry) = 6 * LastOffset + 3 - 2 * (end - start)
    BY <1>1, <2>2, <2>3, <2>5, <2>6 DEF EntryRank
  <2> QED
    BY <2>1, <2>5, <2>6, <2>7 DEF start, end
<1>5. /\ ms[n] \in MarkTypes /\ ms[n].at = a[n]
      /\ ms[n].entry.start = a[1] /\ ms[n].entry.end = a[n]
      /\ ms[n].entry.of = c /\ ms[n].entry.body = n
      /\ Size(ms[n].entry) = a[n] - a[1]
      /\ IsEnd(ms[n].entry) /\ ~Opens(ms[n].entry) /\ Closes(ms[n].entry)
      /\ EntryRank(ms[n].entry) = 2 * (a[n] - a[1])
  <2> DEFINE start == a[1]
             end == a[n]
             m == Mark(c, end, "IF_END", start, end, n)
  <2>1. ms[n] = m
    BY <1>2
  <2>2. 1 \in 1 .. n - 1
    BY <1>1
  <2>3. start \in AllOffsets /\ end \in AllOffsets /\ n \in 1 .. 5
    BY <1>0, <1>1, <2>2
  <2>4. "IF_END" \in Flags
    BY DEF Flags
  <2> HIDE DEF start, end
  <2>5. /\ m \in MarkTypes /\ m.at = end /\ m.entry.flags = "IF_END"
        /\ m.entry.start = start /\ m.entry.end = end
        /\ m.entry.of = c /\ m.entry.body = n /\ Size(m.entry) = end - start
    BY <2>3, <2>4, MarkIs
  <2> HIDE DEF m
  <2>6. IsEnd(m.entry) /\ ~Opens(m.entry) /\ Closes(m.entry)
    BY <2>5, FlagIs
  <2>7. EntryRank(m.entry) = 2 * (end - start)
    BY <2>5, <2>6 DEF EntryRank
  <2> QED
    BY <2>1, <2>5, <2>6, <2>7 DEF start, end
<1>6. ASSUME NEW k \in 1 .. n
      PROVE  /\ k = n \/ k \in 1 .. n - 1
             /\ ms[k] \in MarkTypes /\ ms[k].entry.of = c /\ ms[k].entry.body = k
             /\ ms[k].at = a[k]
             /\ a[k] \in Nat
             /\ IsEnd(ms[k].entry) <=> k = n
             /\ Opens(ms[k].entry) <=> k # n
             /\ Closes(ms[k].entry) <=> k # 1
  <2>1. CASE k = n
    <3>1. n # 1
      BY <1>1
    <3> QED
      BY <1>1, <1>5, <2>1, <3>1
  <2>2. CASE k # n
    <3>1. k \in 1 .. n - 1 /\ (k > 1 <=> k # 1)
      BY <1>1, <2>2
    <3> QED
      BY <1>1, <1>4, <2>2, <3>1
  <2> QED
    BY <2>1, <2>2
<1>8. Typed(c)
  <2>1. ms \in Seq(MarkTypes)
    BY SMTT(30), <1>1, <1>2, <1>6
  <2> QED
    BY <1>1, <1>2, <1>6, <2>1 DEF Typed, ms
<1>9. Distinct(c)
  BY <1>2, <1>6 DEF Distinct, ms
<1>10. Turned(c)
  <2>1. ASSUME NEW i \in DOMAIN ms
        PROVE  /\ Opens(ms[i].entry) => ms[i].entry.body \in DOMAIN bs
               /\ Closes(ms[i].entry) => ms[i].entry.body - 1 \in DOMAIN bs
    <3>1. i \in 1 .. n /\ (i # 1 => i - 1 \in 1 .. n - 1)
      BY <1>1, <1>2
    <3> QED
      BY <1>2, <1>6, <3>1
  <2>2. ASSUME NEW b \in DOMAIN bs
        PROVE  /\ \E i \in DOMAIN ms : Opens(ms[i].entry) /\ ms[i].entry.body = b
               /\ \E i \in DOMAIN ms : Closes(ms[i].entry) /\ ms[i].entry.body - 1 = b
    <3>1. /\ b \in 1 .. n /\ b # n /\ b + 1 \in 1 .. n /\ b + 1 # 1 /\ (b + 1) - 1 = b
      BY <1>1, <1>2
    <3>2. Opens(ms[b].entry) /\ ms[b].entry.body = b
      BY <1>6, <3>1
    <3>3. Closes(ms[b + 1].entry) /\ ms[b + 1].entry.body = b + 1
      BY <1>6, <3>1
    <3> QED
      BY <1>2, <3>1, <3>2, <3>3
  <2>3. \A i, j \in DOMAIN ms : i = j \/ ms[i].entry.body # ms[j].entry.body
    BY <1>2, <1>6
  <2> QED
    BY <1>7, <2>1, <2>2, <2>3 DEF Turned, ms, bs
<1>11. Spans(c)
  <2> SUFFICES ASSUME NEW i \in 1 .. n, NEW b \in 1 .. n - 1
               PROVE  LET e == ms[i].entry IN
                      /\ a[1] <= e.start /\ e.end <= a[n]
                      /\ \/ e.end <= bs[b][1] \/ e.start >= bs[b][2]
                         \/ e.start <= bs[b][1] /\ e.end >= bs[b][2]
    <3>1. 1 \in 1 .. n - 1
      BY <1>1
    <3> QED
      BY <1>2, <3>1 DEF Spans, ms, bs
  <2>1. /\ 1 \in 1 .. n - 1 /\ b \in 1 .. n /\ b + 1 \in 1 .. n /\ 1 \in 1 .. n /\ n \in 1 .. n
        /\ 1 <= b /\ b + 1 <= n /\ b \in Int /\ i \in Int
    BY <1>1
  <2>2. /\ a[b] \in Nat /\ a[b + 1] \in Nat /\ a[1] \in Nat /\ a[n] \in Nat
        /\ a[1] <= a[b] /\ a[b + 1] <= a[n] /\ a[1] <= a[n]
    BY <1>1, <2>1
  <2>3. CASE i = n
    BY <1>3, <1>5, <2>2, <2>3
  <2>4. CASE i # n
    <3>1. i \in 1 .. n - 1 /\ i + 1 \in 1 .. n /\ 1 <= i /\ i + 1 <= n
      BY <1>1, <2>4
    <3>2. /\ a[i] \in Nat /\ a[i + 1] \in Nat /\ a[1] <= a[i] /\ a[i + 1] <= a[n]
          /\ i + 1 <= b => a[i + 1] <= a[b]
          /\ b + 1 <= i => a[b + 1] <= a[i]
      BY <1>1, <2>1, <3>1
    <3>3. i + 1 <= b \/ b + 1 <= i \/ i = b
      BY <2>1, <3>1
    <3>4. ms[i].entry.start = a[i] /\ ms[i].entry.end = a[i + 1]
      BY <1>4, <3>1
    <3>5. bs[b][1] \in {a[b], a[b] + 1} /\ bs[b][2] \in {a[b + 1] - 1, a[b + 1]}
      BY <1>3
    <3> QED
      BY <2>2, <3>2, <3>3, <3>4, <3>5
  <2> QED
    BY <2>3, <2>4
<1>12. InFront(c)
  <2>1. \A i, j \in 1 .. n : i < j => ms[i].at # ms[j].at
    BY <1>1, <1>6
  <2> QED
    BY <1>2, <2>1 DEF InFront, ms
<1>13. Edges(c)
  <2>1. 1 \in 1 .. n - 1 /\ 1 \in 1 .. n /\ n \in 1 .. n /\ 1 < n
    BY <1>1
  <2>2. a[1] \in Nat /\ a[n] \in Nat /\ a[1] < a[n] /\ a[1] <= LastOffset
    BY <1>1, <2>1
  <2>3. ASSUME NEW i \in 1 .. n
        PROVE  /\ 0 < Size(ms[i].entry) /\ Size(ms[i].entry) <= a[n] - a[1]
               /\ a[1] <= ms[i].at /\ ms[i].at <= a[n]
               /\ ms[i].at = a[1] => ~IsEnd(ms[i].entry)
               /\ ms[i].at = a[n] => IsEnd(ms[i].entry)
    <3>1. CASE i = n
      BY <1>5, <2>2, <3>1
    <3>2. CASE i # n
      <4>1. i \in 1 .. n - 1 /\ i + 1 \in 1 .. n /\ 1 <= i /\ i < i + 1 /\ i + 1 <= n /\ i < n
        BY <1>1, <3>2
      <4>2. /\ a[i] \in Nat /\ a[i + 1] \in Nat /\ a[1] <= a[i] /\ a[i] < a[i + 1]
            /\ a[i + 1] <= a[n]
        BY <1>1, <2>1, <4>1
      <4>3. ms[i].at = a[i] /\ Size(ms[i].entry) = a[i + 1] - a[i] /\ ~IsEnd(ms[i].entry)
        BY <1>4, <4>1
      <4> QED
        BY <2>2, <4>2, <4>3
    <3> QED
      BY <3>1, <3>2
  <2> QED
    BY <1>2, <2>2, <2>3 DEF Edges, ms
<1>14. Enclose(c)
  <2> SUFFICES ASSUME NEW i \in 1 .. n
               PROVE  LET e == ms[i].entry IN
                      /\ Opens(e) =>
                           LET lo == bs[e.body][1]  hi == bs[e.body][2] IN
                           \/ ms[i].at < lo
                           \/ ms[i].at = lo /\ (IsEnd(e) \/ Size(e) >= hi - lo)
                      /\ Closes(e) =>
                           LET lo == bs[e.body - 1][1]  hi == bs[e.body - 1][2] IN
                           \/ ms[i].at > hi
                           \/ ms[i].at = hi /\ IsEnd(e) /\ Size(e) >= hi - lo
    BY <1>2 DEF Enclose, ms, bs
  <2>1. CASE i = n
    <3>1. /\ n - 1 \in 1 .. n - 1 /\ n - 1 \in 1 .. n /\ (n - 1) + 1 = n
          /\ 1 \in 1 .. n /\ 1 <= n - 1 /\ n \in 1 .. n
      BY <1>1
    <3>2. a[1] \in Nat /\ a[n] \in Nat /\ a[n - 1] \in Nat /\ a[1] <= a[n - 1] /\ a[1] <= a[n]
      BY <1>1, <3>1
    <3>3. bs[n - 1][1] \in {a[n - 1], a[n - 1] + 1} /\ bs[n - 1][2] \in {a[n] - 1, a[n]}
      BY <1>3, <3>1
    <3> QED
      BY <1>5, <2>1, <3>2, <3>3
  <2>2. CASE i # n
    <3>1. i \in 1 .. n - 1 /\ i + 1 \in 1 .. n
      BY <1>1, <2>2
    <3>2. a[i] \in Nat /\ a[i + 1] \in Nat
      BY <1>1, <3>1
    <3>3. /\ ms[i].at = a[i] /\ ms[i].entry.body = i /\ Size(ms[i].entry) = a[i + 1] - a[i]
          /\ (Closes(ms[i].entry) <=> i # 1)
      BY <1>4, <1>6, <3>1
    <3>4. bs[i][1] \in {a[i], a[i] + 1} /\ bs[i][2] \in {a[i + 1] - 1, a[i + 1]}
      BY <1>3, <3>1
    <3>5. \/ ms[i].at < bs[i][1]
          \/ ms[i].at = bs[i][1] /\ Size(ms[i].entry) >= bs[i][2] - bs[i][1]
      BY <3>2, <3>3, <3>4
    <3>6. ASSUME i # 1
          PROVE  ms[i].at > bs[i - 1][2]
      <4>1. i - 1 \in 1 .. n - 1 /\ (i - 1) + 1 = i /\ ~(i - 1 = n - 1)
        BY <1>1, <2>2, <3>6
      <4>2. bs[i - 1] = <<a[i - 1] + 1, a[(i - 1) + 1] - 1>>
        BY <1>2, <4>1
      <4>3. bs[i - 1][2] = a[i] - 1
        BY <4>1, <4>2
      <4> QED
        BY <3>2, <3>3, <4>3
    <3> QED
      BY <3>3, <3>5, <3>6
  <2> QED
    BY <2>1, <2>2
<1>15. Turns(c)
  <2>1. \A i, j \in 1 .. n : i < j => Sooner(ms[i], ms[j])
    BY <1>1, <1>6 DEF Sooner
  <2>2. \A i, j \in 1 .. n : i <= j => i = j \/ i < j
    BY <1>1
  <2> QED
    BY <1>2, <1>6, <2>1, <2>2 DEF Turns, ms
<1>16. Inner(c)
  <2> SUFFICES ASSUME NEW b \in 1 .. n - 1
               PROVE  a[1] <= bs[b][1] /\ bs[b][2] <= a[n] /\ a[1] < bs[b][1]
    BY <1>2 DEF Inner, bs
  <2>1. /\ b \in 1 .. n /\ b + 1 \in 1 .. n /\ 1 \in 1 .. n /\ n \in 1 .. n
        /\ b + 1 <= n /\ b \in Int /\ (1 < b \/ b = 1)
    BY <1>1
  <2>2. /\ a[b] \in Nat /\ a[b + 1] \in Nat /\ a[1] \in Nat /\ a[n] \in Nat
        /\ (b # 1 => a[1] < a[b]) /\ a[b + 1] <= a[n]
    BY <1>1, <2>1
  <2>3. /\ bs[b][1] \in {a[b], a[b] + 1} /\ bs[b][2] \in {a[b + 1] - 1, a[b + 1]}
        /\ b = 1 => bs[b][1] = a[b] + 1
    BY <1>3
  <2> QED
    BY <2>2, <2>3
<1> QED
  BY <1>8, <1>9, <1>10, <1>11, <1>12, <1>13, <1>14, <1>15, <1>16

(* Whatever its kind, a statement has its marks, each turn of its text is made
   by one of them, and none of them ends inside one of its bodies. *)
LEMMA PlanHolds ==
  ASSUME NEW c \in Statements
  PROVE  Typed(c) /\ Distinct(c) /\ Turned(c) /\ Spans(c)
<1>1. CASE c.kind = "switch"
  BY <1>1, SwitchCut, OneCasePlan, TwoCasesPlan
<1>2. CASE c.kind # "switch"
  BY <1>2, StatementIs, IfPlan, WhilePlan, DoPlan, ForPlan, ForeachPlan, TryPlan,
     SwitchDefaultPlan, DefaultSwitchPlan
<1> QED
  BY <1>1, <1>2

(* The kinds of statement whose openings are opened like any other. *)
Straight(c) == c.kind \notin {"barefor", "defaultswitch"}

(* The entries of a straight statement are in place. *)
LEMMA OrderHolds ==
  ASSUME NEW c \in Statements, Straight(c)
  PROVE  InFront(c) /\ Edges(c) /\ Enclose(c) /\ Turns(c) /\ Inner(c)
<1>1. CASE c.kind = "switch"
  BY <1>1, SwitchCut, OneCasePlan, TwoCasesPlan
<1>2. CASE c.kind # "switch"
  BY <1>2, StatementIs, IfPlan, WhilePlan, DoPlan, ForPlan, ForeachPlan, TryPlan,
     SwitchDefaultPlan DEF Straight
<1> QED
  BY <1>1, <1>2

-----------------------------------------------------------------------------
(* An element that goes down from the top of a stack comes to rest on the
   highest one that stops it. *)
LEMMA HighestStop ==
  ASSUME NEW n \in Nat, NEW T, T \subseteq 1 .. n
  PROVE  /\ Max({0} \cup T) \in 0 .. n
         /\ Max({0} \cup T) = 0 \/ Max({0} \cup T) \in T
         /\ \A k \in T : k <= Max({0} \cup T)
<1> DEFINE U == {0} \cup T
           V == {d \in Nat : d <= n /\ n - d \in U}
<1>1. n \in V /\ V \subseteq Nat
  OBVIOUS
<1>2. PICK d \in V : \A x \in V : d <= x
  <2> HIDE DEF V
  <2> QED
    BY <1>1, LeastNumber
<1>3. n - d \in U /\ \A t \in U : t <= n - d
  <2>1. d \in Nat /\ d <= n /\ n - d \in U
    BY <1>2
  <2>2. ASSUME NEW t \in U
        PROVE  t <= n - d
    <3>1. t \in 0 .. n
      OBVIOUS
    <3>2. n - t \in Nat /\ n - t <= n /\ n - (n - t) = t
      BY <3>1
    <3>3. n - t \in V
      BY <3>2
    <3> QED
      BY <1>2, <2>1, <3>1, <3>3
  <2> QED
    BY <2>1, <2>2
<1>4. \A t \in U : t \in Int
  OBVIOUS
<1>5. Max(U) \in U /\ \A t \in U : t <= Max(U)
  <2>1. \E x \in U : \A t \in U : x >= t
    BY <1>3, <1>4
  <2> HIDE DEF U
  <2> QED
    BY <1>4, <2>1 DEF Max
<1>6. /\ U \subseteq 0 .. n /\ T \subseteq U /\ \A t \in U : t = 0 \/ t \in T
      /\ {0} \cup T = U
  OBVIOUS
<1> HIDE DEF U
<1> QED
  BY <1>5, <1>6

Pushed(S, s, v, T, r) ==
  /\ r \in Seq(S) /\ Len(r) = Len(s) + 1 /\ DOMAIN r = 1 .. Len(s) + 1
  /\ \E p \in 0 .. Len(s) :
       /\ p = 0 \/ p \in T
       /\ \A k \in T : k <= p
       /\ \A i \in 1 .. Len(s) + 1 :
            r[i] = IF i <= p THEN s[i] ELSE IF i = p + 1 THEN v ELSE s[i - 1]

(* A push puts the new element behind the highest stop. *)
LEMMA StackPushIs ==
  ASSUME NEW S, NEW s \in Seq(S), NEW v \in S, NEW T, T \subseteq 1 .. Len(s),
         NEW r, r = StackPushDscT(s, v, T)
  PROVE  Pushed(S, s, v, T, r)
<1> DEFINE n == Len(s)
           p == Max({0} \cup T)
<1>1. n \in Nat
  BY LenProperties
<1>2. p \in 0 .. n /\ (p = 0 \/ p \in T) /\ \A k \in T : k <= p
  BY <1>1, HighestStop
<1>3. r = Inserted(s, p + 1, v)
  BY DEF StackPushDscT, InsertAt, Inserted
<1> HIDE DEF p
<1>4. p + 1 \in 1 .. n + 1
  BY <1>1, <1>2
<1>5. /\ r \in Seq(S) /\ Len(r) = n + 1
      /\ \A i \in 1 .. n + 1 :
           r[i] = IF i < p + 1 THEN s[i] ELSE IF i = p + 1 THEN v ELSE s[i - 1]
  <2> DEFINE at == p + 1
  <2>1. at \in 1 .. Len(s) + 1
    BY <1>4
  <2>2. r = Inserted(s, at, v)
    BY <1>3
  <2> HIDE DEF at
  <2> DEFINE q == Inserted(s, at, v)
  <2>4. /\ q \in Seq(S) /\ Len(q) = Len(s) + 1
        /\ \A i \in 1 .. Len(s) + 1 :
             q[i] = IF i < at THEN s[i] ELSE IF i = at THEN v ELSE s[i - 1]
    BY ONLY <2>1, s \in Seq(S), v \in S, InsertedIs
  <2>5. r = q
    BY <2>2
  <2> HIDE DEF q
  <2>3. /\ r \in Seq(S) /\ Len(r) = Len(s) + 1
        /\ \A i \in 1 .. Len(s) + 1 :
             r[i] = IF i < at THEN s[i] ELSE IF i = at THEN v ELSE s[i - 1]
    BY <2>4, <2>5
  <2> QED
    BY <2>3 DEF at
<1> HIDE DEF n
<1>6. ASSUME NEW i \in 1 .. n + 1
      PROVE  r[i] = IF i <= p THEN s[i] ELSE IF i = p + 1 THEN v ELSE s[i - 1]
  BY <1>1, <1>2, <1>5
<1>7. DOMAIN r = 1 .. n + 1
  BY <1>5, LenProperties
<1> QED
  BY <1>2, <1>5, <1>6, <1>7 DEF n, Pushed

(* The two lists of an element, "up" for the ends, are in the order of the
   size of their ranges, and hold no entry twice. *)
Fits(e, f, up) == IF up THEN Size(e) <= Size(f) ELSE Size(e) >= Size(f)

SideOK(s, up) ==
  /\ \A x \in DOMAIN s : IsEnd(s[x]) <=> up
  /\ \A y \in DOMAIN s : \A x \in 1 .. y - 1 : Fits(s[x], s[y], up) /\ s[x] # s[y]

SideStrict(s) == \A y \in DOMAIN s : \A x \in 1 .. y - 1 : EntryRank(s[x]) < EntryRank(s[y])

PushSide(s, e, up) == IF up THEN PushEnd(s, e) ELSE PushOpen(s, e)

(* Sizes and ranks are numbers, and a rank follows the size. *)
LEMMA SizeIs ==
  ASSUME NEW e \in ControlEntries
  PROVE  /\ Size(e) \in Int /\ EntryRank(e) \in Int /\ LastOffset \in Int
         /\ \A f \in ControlEntries :
              /\ IsEnd(e) /\ IsEnd(f) /\ Size(e) < Size(f) => EntryRank(e) < EntryRank(f)
              /\ ~IsEnd(e) /\ ~IsEnd(f) /\ Size(e) > Size(f) => EntryRank(e) < EntryRank(f)
<1>1. LastOffset \in Int
  BY OpArrayAssumption
<1>2. ASSUME NEW f \in ControlEntries
      PROVE  Size(f) \in Int
  <2>1. f.start \in AllOffsets /\ f.end \in AllOffsets
    BY DEF ControlEntries
  <2>2. f.start \in Int /\ f.end \in Int
    BY <2>1, OffsetIs
  <2> QED
    BY <2>2 DEF Size
<1>3. EntryRank(e) \in Int
  BY <1>1, <1>2 DEF EntryRank
<1>4. ASSUME NEW f \in ControlEntries
      PROVE  /\ IsEnd(e) /\ IsEnd(f) /\ Size(e) < Size(f) => EntryRank(e) < EntryRank(f)
             /\ ~IsEnd(e) /\ ~IsEnd(f) /\ Size(e) > Size(f) => EntryRank(e) < EntryRank(f)
  <2>1. Size(e) \in Int /\ Size(f) \in Int
    BY <1>2
  <2> QED
    BY <1>1, <2>1 DEF EntryRank
<1> QED
  BY <1>1, <1>2, <1>3, <1>4

(* A push keeps a side sorted, and strictly so where nothing ties. *)
LEMMA PushSideIs ==
  ASSUME NEW s \in Seq(ControlEntries), NEW e \in ControlEntries, NEW up \in BOOLEAN, IsEnd(e) <=> up,
         SideOK(s, up), \A x \in DOMAIN s : s[x] # e
  PROVE  LET r == PushSide(s, e, up) IN
         /\ r \in Seq(ControlEntries) /\ SideOK(r, up) /\ r # <<>>
         /\ Range(r) = Range(s) \cup {e}
         /\ /\ SideStrict(s)
            /\ \A x \in DOMAIN s : Size(s[x]) # Size(e) \/ EntryRank(s[x]) < EntryRank(e)
            => SideStrict(r)
<1> DEFINE n == Len(s)
           T == {k \in DOMAIN s : Fits(s[k], e, up)}
           r == PushSide(s, e, up)
<1>1. /\ n \in Nat /\ DOMAIN s = 1 .. n
      /\ \A k \in 1 .. n : s[k] \in ControlEntries /\ Size(s[k]) \in Int /\ EntryRank(s[k]) \in Int
      /\ Size(e) \in Int /\ EntryRank(e) \in Int
  BY LenProperties, ElementOfSeq, SizeIs
<1>2. r = StackPushDscT(s, e, T)
  <2>1. ASSUME up
        PROVE  {k \in DOMAIN s : ~ControlListComparePostfix(e, s[k])} = T
    BY <1>1, <2>1 DEF ControlListComparePostfix, Fits
  <2>2. ASSUME ~up
        PROVE  {k \in DOMAIN s : ~ControlListComparePrefix(e, s[k])} = T
    BY <1>1, <2>2 DEF ControlListComparePrefix, Fits
  <2> QED
    BY <2>1, <2>2 DEF PushSide, PushEnd, PushOpen
<1>3. T \subseteq 1 .. n
  BY <1>1
<1> HIDE DEF T
<1>4. /\ r \in Seq(ControlEntries) /\ Len(r) = n + 1 /\ DOMAIN r = 1 .. n + 1
      /\ \E p \in 0 .. n :
           /\ p = 0 \/ p \in T
           /\ \A k \in T : k <= p
           /\ \A i \in 1 .. n + 1 :
                r[i] = IF i <= p THEN s[i] ELSE IF i = p + 1 THEN e ELSE s[i - 1]
  <2> HIDE DEF r
  <2>1. T \subseteq 1 .. Len(s)
    BY <1>3
  <2>2. Pushed(ControlEntries, s, e, T, r)
    BY <1>2, <2>1, StackPushIs
  <2> QED
    BY <2>2 DEF Pushed
<1>5. PICK p \in 0 .. n :
        /\ p = 0 \/ p \in T
        /\ \A k \in T : k <= p
        /\ \A i \in 1 .. n + 1 :
             r[i] = IF i <= p THEN s[i] ELSE IF i = p + 1 THEN e ELSE s[i - 1]
  BY <1>4
<1> HIDE DEF r, n
<1>6. ASSUME NEW k \in 1 .. n
      PROVE  /\ k <= p => Fits(s[k], e, up)
             /\ k > p => Fits(e, s[k], up) /\ Size(s[k]) # Size(e)
  <2>1. ASSUME k <= p
        PROVE  Fits(s[k], e, up)
    <3>1. p \in 1 .. n /\ Fits(s[p], e, up)
      BY <1>1, <1>5, <2>1 DEF T
    <3>2. k = p \/ k \in 1 .. p - 1
      BY <1>1, <2>1
    <3>3. CASE k = p
      BY <3>1, <3>3
    <3>4. CASE k \in 1 .. p - 1
      <4>1. p \in DOMAIN s
        BY <1>1, <3>1
      <4>2. Fits(s[k], s[p], up)
        BY <3>4, <4>1 DEF SideOK
      <4> QED
        BY <1>1, <3>1, <4>2 DEF Fits
    <3> QED
      BY <3>2, <3>3, <3>4
  <2>2. ASSUME k > p
        PROVE  Fits(e, s[k], up) /\ Size(s[k]) # Size(e)
    <3>0. k \notin T
      BY <1>1, <1>5, <2>2
    <3>1. ~Fits(s[k], e, up)
      BY <1>1, <3>0 DEF T
    <3> QED
      BY <1>1, <3>1 DEF Fits
  <2> QED
    BY <2>1, <2>2
<1>7. ASSUME NEW i \in 1 .. n + 1
      PROVE  \/ i <= p /\ i \in 1 .. n /\ r[i] = s[i]
             \/ i = p + 1 /\ r[i] = e
             \/ i > p + 1 /\ i - 1 \in 1 .. n /\ i - 1 > p /\ r[i] = s[i - 1]
  BY <1>1, <1>5
<1>8. ASSUME NEW j \in 1 .. n + 1, NEW i \in 1 .. j - 1
      PROVE  \/ \E y \in 1 .. n : \E x \in 1 .. y - 1 : r[i] = s[x] /\ r[j] = s[y]
             \/ \E x \in 1 .. n : x <= p /\ r[i] = s[x] /\ r[j] = e
             \/ \E x \in 1 .. n : x > p /\ r[i] = e /\ r[j] = s[x]
  <2>1. i \in 1 .. n + 1 /\ i < j
    BY <1>1
  <2>2. CASE j <= p
    <3>0. j \in Nat /\ p \in Nat /\ n \in Nat
      BY <1>1
    <3>2. j \in 1 .. n /\ r[j] = s[j]
      <4>1. ~(j = p + 1) /\ ~(j > p + 1)
        BY <2>2, <3>0
      <4> QED
        BY <1>7, <4>1
    <3>3. r[i] = s[i]
      <4>1. i \in 1 .. n + 1 /\ i < j
        BY <2>1
      <4>2. ~(i = p + 1) /\ ~(i > p + 1)
        BY <2>2, <3>0, <4>1
      <4> QED
        BY <1>7, <4>1, <4>2
    <3>1. j \in 1 .. n /\ r[i] = s[i] /\ r[j] = s[j]
      BY <3>2, <3>3
    <3> QED
      BY <3>1
  <2>3. CASE j = p + 1
    <3>1. i <= p /\ i \in 1 .. n /\ r[i] = s[i] /\ r[j] = e
      BY <1>1, <1>7, <2>1, <2>3
    <3> QED
      BY <3>1
  <2>4. CASE j > p + 1
    <3>1. j - 1 \in 1 .. n /\ j - 1 > p /\ r[j] = s[j - 1]
      BY <1>1, <1>7, <2>4
    <3>2. CASE i <= p
      <4>0. r[i] = s[i]
        BY <1>1, <1>5, <2>1, <3>2
      <4>1. i \in 1 .. (j - 1) - 1 /\ r[i] = s[i]
        BY <1>1, <2>1, <3>1, <3>2, <4>0
      <4> QED
        BY <3>1, <4>1
    <3>3. CASE i = p + 1
      <4>1. r[i] = e
        BY <1>7, <2>1, <3>3
      <4> QED
        BY <3>1, <4>1
    <3>4. CASE i > p + 1
      <4>0. r[i] = s[i - 1]
        BY <1>1, <1>5, <2>1, <3>4
      <4>1. i - 1 \in 1 .. (j - 1) - 1 /\ r[i] = s[i - 1]
        BY <1>1, <2>1, <3>1, <3>4, <4>0
      <4> QED
        BY <3>1, <4>1
    <3> QED
      BY <1>1, <2>1, <3>2, <3>3, <3>4
  <2> QED
    BY <1>1, <2>2, <2>3, <2>4
<1>9. SideOK(r, up)
  <2>1. \A i \in 1 .. n + 1 : IsEnd(r[i]) <=> up
    BY <1>1, <1>7 DEF SideOK
  <2>2. ASSUME NEW j \in 1 .. n + 1, NEW i \in 1 .. j - 1
        PROVE  Fits(r[i], r[j], up) /\ r[i] # r[j]
    <3>1. CASE \E y \in 1 .. n : \E x \in 1 .. y - 1 : r[i] = s[x] /\ r[j] = s[y]
      BY <1>1, <3>1 DEF SideOK
    <3>2. CASE \E x \in 1 .. n : x <= p /\ r[i] = s[x] /\ r[j] = e
      BY <1>1, <1>6, <3>2
    <3>3. CASE \E x \in 1 .. n : x > p /\ r[i] = e /\ r[j] = s[x]
      BY <1>1, <1>6, <3>3
    <3> QED
      BY <1>8, <3>1, <3>2, <3>3
  <2> QED
    BY <1>4, <2>1, <2>2 DEF SideOK
<1>10. Range(r) = Range(s) \cup {e}
  <2>1. \A i \in 1 .. n + 1 : r[i] \in Range(s) \cup {e}
    BY <1>1, <1>7 DEF Range
  <2>2. p + 1 \in 1 .. n + 1 /\ r[p + 1] = e
    BY <1>1, <1>5
  <2>3. ASSUME NEW k \in 1 .. n
        PROVE  s[k] \in Range(r)
    <3>1. CASE k <= p
      <4>1. k \in 1 .. n + 1 /\ r[k] = s[k]
        BY <1>1, <1>5, <3>1
      <4> QED
        BY <1>4, <4>1 DEF Range
    <3>2. CASE k > p
      <4>1. k + 1 \in 1 .. n + 1 /\ ~(k + 1 <= p) /\ k + 1 # p + 1 /\ (k + 1) - 1 = k
        BY <1>1, <3>2
      <4>2. r[k + 1] = s[k]
        BY <1>5, <4>1
      <4> QED
        BY <1>4, <4>1, <4>2 DEF Range
    <3> QED
      BY <1>1, <3>1, <3>2
  <2>4. Range(r) \subseteq Range(s) \cup {e}
    BY <1>4, <2>1 DEF Range
  <2>5. e \in Range(r)
    BY <1>4, <2>2 DEF Range
  <2>6. Range(s) \subseteq Range(r)
    BY <1>1, <2>3 DEF Range
  <2> QED
    BY <2>4, <2>5, <2>6
<1>11. ASSUME SideStrict(s),
              \A x \in DOMAIN s : Size(s[x]) # Size(e) \/ EntryRank(s[x]) < EntryRank(e)
       PROVE  SideStrict(r)
  <2>1. ASSUME NEW x \in 1 .. n, x <= p
        PROVE  EntryRank(s[x]) < EntryRank(e)
    <3>1. Fits(s[x], e, up) /\ (IsEnd(s[x]) <=> up) /\ s[x] \in ControlEntries
      BY <1>1, <1>6, <2>1 DEF SideOK
    <3>2. CASE Size(s[x]) = Size(e)
      BY <1>1, <1>11, <3>2
    <3>3. CASE Size(s[x]) # Size(e)
      BY <1>1, <3>1, <3>3, SizeIs DEF Fits
    <3> QED
      BY <3>2, <3>3
  <2>2. ASSUME NEW x \in 1 .. n, x > p
        PROVE  EntryRank(e) < EntryRank(s[x])
    <3>1. Fits(e, s[x], up) /\ Size(s[x]) # Size(e) /\ (IsEnd(s[x]) <=> up) /\ s[x] \in ControlEntries
      BY <1>1, <1>6, <2>2 DEF SideOK
    <3> QED
      BY <1>1, <3>1, SizeIs DEF Fits
  <2>3. ASSUME NEW j \in 1 .. n + 1, NEW i \in 1 .. j - 1
        PROVE  EntryRank(r[i]) < EntryRank(r[j])
    BY <1>1, <1>8, <1>11, <2>1, <2>2 DEF SideStrict
  <2> QED
    BY <1>4, <2>3 DEF SideStrict
<1>12. r # <<>>
  BY <1>1, <1>4
<1> QED
  BY <1>4, <1>9, <1>10, <1>11, <1>12 DEF r

-----------------------------------------------------------------------------
(* An element of Stack->ControlList and the list, its elements in the order of
   their offsets and each with an entry. *)
ListElements == [offset : AllOffsets, ends : Seq(ControlEntries), opens : Seq(ControlEntries)]

EntriesOf(l) == Range(l.ends) \cup Range(l.opens)

Laid(list) ==
  /\ list \in Seq(ListElements)
  /\ \A k \in DOMAIN list :
       /\ SideOK(list[k].ends, TRUE) /\ SideOK(list[k].opens, FALSE)
       /\ \A j \in 1 .. k - 1 : list[j].offset < list[k].offset

ListOK(list) == Laid(list) /\ \A k \in DOMAIN list : EntriesOf(list[k]) # {}

ListStrict(list) ==
  \A k \in DOMAIN list : SideStrict(list[k].ends) /\ SideStrict(list[k].opens)

Holds(list, at, e) ==
  \E k \in DOMAIN list : list[k].offset = at /\ e \in EntriesOf(list[k])

(* The list with an element for an offset. *)
WithElement(list, at) ==
  IF \E k \in DOMAIN list : list[k].offset = at THEN list
  ELSE StackPushAscT(list, [offset |-> at, ends |-> <<>>, opens |-> <<>>])

(* The element with one more entry. *)
WithEntry(l, e) ==
  IF IsEnd(e) THEN [l EXCEPT !.ends = PushEnd(@, e)] ELSE [l EXCEPT !.opens = PushOpen(@, e)]

(* A push keeps the types. *)
LEMMA PushTyped ==
  ASSUME NEW s \in Seq(ControlEntries), NEW e \in ControlEntries
  PROVE  PushEnd(s, e) \in Seq(ControlEntries) /\ PushOpen(s, e) \in Seq(ControlEntries)
<1> DEFINE T == {k \in DOMAIN s : ~ControlListComparePostfix(e, s[k])}
           U == {k \in DOMAIN s : ~ControlListComparePrefix(e, s[k])}
           p == PushEnd(s, e)
           q == PushOpen(s, e)
<1>1. T \subseteq 1 .. Len(s) /\ U \subseteq 1 .. Len(s)
  BY LenProperties
<1>2. p = StackPushDscT(s, e, T) /\ q = StackPushDscT(s, e, U)
  BY DEF PushEnd, PushOpen
<1> HIDE DEF T, U, p, q
<1>3. Pushed(ControlEntries, s, e, T, p)
  BY <1>1, <1>2, StackPushIs
<1>4. Pushed(ControlEntries, s, e, U, q)
  BY <1>1, <1>2, StackPushIs
<1>5. p \in Seq(ControlEntries) /\ q \in Seq(ControlEntries)
  BY <1>3, <1>4 DEF Pushed
<1> QED
  BY <1>5 DEF p, q

(* An element starts out with two empty sides. *)
LEMMA EmptySide ==
  ASSUME NEW up
  PROVE  SideOK(<<>>, up) /\ SideStrict(<<>>) /\ Range(<<>>) = {} /\ <<>> \in Seq(ControlEntries)
BY DEF SideOK, SideStrict, Range

(* Inserting an element for an offset that has none. *)
LEMMA ElementPushed ==
  ASSUME NEW list \in Seq(ListElements), NEW at \in AllOffsets,
         NEW el, el = [offset |-> at, ends |-> <<>>, opens |-> <<>>],
         NEW T, T = {k \in DOMAIN list : list[k].offset <= at},
         NEW all, all = StackPushAscT(list, el)
  PROVE  el \in ListElements /\ Pushed(ListElements, list, el, T, all)
<1>1. el \in ListElements
  BY EmptySide DEF ListElements
<1>2. el.offset = at
  OBVIOUS
<1>3. T \subseteq 1 .. Len(list)
  BY LenProperties
<1>4. all = StackPushDscT(list, el, T)
  BY <1>2 DEF StackPushAscT
<1>5. Pushed(ListElements, list, el, T, all)
  BY <1>1, <1>3, <1>4, StackPushIs
<1> QED
  BY <1>1, <1>5

(* An element for an offset keeps the types. *)
LEMMA WithElementTyped ==
  ASSUME NEW list \in Seq(ListElements), NEW at \in AllOffsets, NEW all, all = WithElement(list, at)
  PROVE  all \in Seq(ListElements) /\ \E k \in DOMAIN all : all[k].offset = at
<1>1. CASE \E k \in DOMAIN list : list[k].offset = at
  BY <1>1 DEF WithElement
<1>2. CASE ~ \E k \in DOMAIN list : list[k].offset = at
  <2> DEFINE el == [offset |-> at, ends |-> <<>>, opens |-> <<>>]
             T == {k \in DOMAIN list : list[k].offset <= at}
             n == Len(list)
  <2>1. all = StackPushAscT(list, el)
    BY <1>2 DEF WithElement
  <2>2. el.offset = at /\ n \in Nat
    BY LenProperties
  <2> HIDE DEF el, T
  <2>3. Pushed(ListElements, list, el, T, all)
    BY <2>1, ElementPushed DEF el, T
  <2>4. PICK p \in 0 .. n : \A i \in 1 .. n + 1 :
          all[i] = IF i <= p THEN list[i] ELSE IF i = p + 1 THEN el ELSE list[i - 1]
    BY <2>3 DEF Pushed
  <2>5. all \in Seq(ListElements) /\ DOMAIN all = 1 .. n + 1
    BY <2>3 DEF Pushed
  <2> HIDE DEF n
  <2>6. p + 1 \in 1 .. n + 1 /\ ~(p + 1 <= p)
    BY <2>2
  <2>7. all[p + 1] = el
    BY <2>4, <2>6
  <2> QED
    BY <2>2, <2>5, <2>6, <2>7
<1> QED
  BY <1>1, <1>2

(* The list with an element for an offset holds what it held. *)
Ready(list, at, all, k) ==
  /\ Laid(all) /\ k \in DOMAIN all /\ all[k].offset = at
  /\ \A x, e : Holds(all, x, e) <=> Holds(list, x, e)
  /\ \A i \in DOMAIN all : i # k => EntriesOf(all[i]) # {}
  /\ ListStrict(list) => ListStrict(all)

(* The list has one element for the offset, where the order wants it. *)
LEMMA ReadyIs ==
  ASSUME NEW list, ListOK(list), NEW at \in AllOffsets, NEW all, all = WithElement(list, at)
  PROVE  \E k : Ready(list, at, all, k)
<1>1. CASE \E k \in DOMAIN list : list[k].offset = at
  <2>1. all = list
    BY <1>1 DEF WithElement
  <2>2. PICK k \in DOMAIN list : list[k].offset = at
    BY <1>1
  <2>3. Ready(list, at, all, k)
    BY <2>1, <2>2 DEF Ready, ListOK
  <2> QED
    BY <2>3
<1>2. CASE ~ \E k \in DOMAIN list : list[k].offset = at
  <2> DEFINE el == [offset |-> at, ends |-> <<>>, opens |-> <<>>]
             T == {k \in DOMAIN list : list[k].offset <= at}
             n == Len(list)
  <2>0. list \in Seq(ListElements)
    BY DEF ListOK, Laid
  <2>1. all = StackPushAscT(list, el)
    BY <1>2 DEF WithElement
  <2>2. /\ n \in Nat /\ DOMAIN list = 1 .. n
        /\ \A i \in 1 .. n : list[i] \in ListElements /\ list[i].offset \in Int
    <3>1. \A i \in 1 .. n : list[i] \in ListElements
      BY <2>0, ElementOfSeq
    <3>2. \A i \in 1 .. n : list[i].offset \in AllOffsets
      BY <3>1 DEF ListElements
    <3> QED
      BY <2>0, <3>1, <3>2, LenProperties, OffsetIs
  <2>3. el.offset = at /\ el.ends = <<>> /\ el.opens = <<>>
    OBVIOUS
  <2> HIDE DEF el, T
  <2>4. Pushed(ListElements, list, el, T, all)
    BY <2>0, <2>1, ElementPushed DEF el, T
  <2>5. PICK p \in 0 .. n :
          /\ p = 0 \/ p \in T
          /\ \A k \in T : k <= p
          /\ \A i \in 1 .. n + 1 :
               all[i] = IF i <= p THEN list[i] ELSE IF i = p + 1 THEN el ELSE list[i - 1]
    BY <2>4 DEF Pushed
  <2>6. all \in Seq(ListElements) /\ DOMAIN all = 1 .. n + 1
    BY <2>4 DEF Pushed
  <2> HIDE DEF n
  <2>7. at \in Int
    BY OffsetIs
  <2>8. ASSUME NEW i \in 1 .. n + 1
        PROVE  \/ i <= p /\ i \in 1 .. n /\ all[i] = list[i]
               \/ i = p + 1 /\ all[i] = el
               \/ i > p + 1 /\ i - 1 \in 1 .. n /\ i - 1 > p /\ all[i] = list[i - 1]
    BY <2>2, <2>5
  <2>9. ASSUME NEW j, NEW k \in 1 .. n, j \in 1 .. k - 1
        PROVE  list[j].offset < list[k].offset
    BY <2>2, <2>9 DEF ListOK, Laid
  <2>10. ASSUME NEW k \in 1 .. n
         PROVE  (k <= p => list[k].offset < at) /\ (k > p => at < list[k].offset)
    <3>1. list[k].offset # at /\ list[k].offset \in Int
      BY <1>2, <2>2
    <3>2. ASSUME k <= p
          PROVE  list[k].offset < at
      <4>1. p \in 1 .. n /\ list[p].offset <= at /\ list[p].offset \in Int
        BY <2>2, <2>5, <3>2 DEF T
      <4>2. k = p \/ k \in 1 .. p - 1
        BY <2>2, <3>2
      <4>3. k \in 1 .. p - 1 => list[k].offset < list[p].offset
        BY <2>9, <4>1
      <4> QED
        BY <2>7, <3>1, <4>1, <4>2, <4>3
    <3>3. ASSUME k > p
          PROVE  at < list[k].offset
      <4>1. k \notin T
        BY <2>2, <2>5, <3>3
      <4> QED
        BY <2>2, <2>7, <3>1, <4>1 DEF T
    <3> QED
      BY <3>2, <3>3
  <2>11. ASSUME NEW i \in 1 .. n + 1, NEW j \in 1 .. i - 1
         PROVE  all[j].offset < all[i].offset
    <3>1. j \in 1 .. n + 1 /\ j < i
      BY <2>2
    <3>2. CASE i <= p
      <4>1. i \in 1 .. n /\ all[i] = list[i] /\ all[j] = list[j]
        BY <2>2, <2>5, <3>1, <3>2
      <4> QED
        BY <2>9, <4>1
    <3>3. CASE i = p + 1
      <4>1. j \in 1 .. n /\ j <= p /\ all[i] = el /\ all[j] = list[j]
        BY <2>2, <2>5, <3>1, <3>3
      <4> QED
        BY <2>3, <2>10, <4>1
    <3>4. CASE i > p + 1
      <4>1. i - 1 \in 1 .. n /\ i - 1 > p /\ all[i] = list[i - 1]
        BY <2>8, <3>4
      <4>2. CASE j <= p
        <5>1. j \in 1 .. (i - 1) - 1 /\ all[j] = list[j]
          BY <2>2, <2>5, <3>1, <4>1, <4>2
        <5> QED
          BY <2>9, <4>1, <5>1
      <4>3. CASE j = p + 1
        <5>1. all[j] = el
          BY <2>8, <3>1, <4>3
        <5> QED
          BY <2>3, <2>10, <4>1, <5>1
      <4>4. CASE j > p + 1
        <5>1. j - 1 \in 1 .. (i - 1) - 1
          BY <2>2, <3>1, <4>1, <4>4
        <5>2. all[j] = list[j - 1]
          BY <2>8, <3>1, <4>4
        <5> QED
          BY <2>9, <4>1, <5>1, <5>2
      <4> QED
        BY <2>2, <3>1, <4>2, <4>3, <4>4
    <3> QED
      BY <2>2, <3>2, <3>3, <3>4
  <2>12. ASSUME NEW i \in 1 .. n + 1
         PROVE  \/ \E k \in 1 .. n : all[i] = list[k]
                \/ i = p + 1 /\ all[i] = el
    BY <2>8
  <2>13. ASSUME NEW k \in 1 .. n
         PROVE  \E i \in 1 .. n + 1 : i # p + 1 /\ all[i] = list[k]
    <3>1. CASE k <= p
      <4>1. k \in 1 .. n + 1 /\ k # p + 1 /\ all[k] = list[k]
        BY <2>2, <2>5, <3>1
      <4> QED
        BY <4>1
    <3>2. CASE k > p
      <4>1. k + 1 \in 1 .. n + 1 /\ ~(k + 1 <= p) /\ k + 1 # p + 1 /\ (k + 1) - 1 = k
        BY <2>2, <3>2
      <4>2. all[k + 1] = list[k]
        BY <2>5, <4>1
      <4> QED
        BY <4>1, <4>2
    <3> QED
      BY <2>2, <3>1, <3>2
  <2>14. p + 1 \in 1 .. n + 1 /\ all[p + 1] = el
    BY <2>2, <2>5
  <2>15. EntriesOf(el) = {} /\ SideOK(el.ends, TRUE) /\ SideOK(el.opens, FALSE)
         /\ SideStrict(el.ends) /\ SideStrict(el.opens)
    BY <2>3, EmptySide DEF EntriesOf
  <2>16. ASSUME NEW k \in 1 .. n
         PROVE  /\ SideOK(list[k].ends, TRUE) /\ SideOK(list[k].opens, FALSE)
                /\ EntriesOf(list[k]) # {}
    BY <2>2 DEF ListOK, Laid
  <2>17. Laid(all)
    BY <2>6, <2>11, <2>12, <2>15, <2>16 DEF Laid
  <2>18. \A i \in DOMAIN all : i # p + 1 => EntriesOf(all[i]) # {}
    BY <2>6, <2>12, <2>16
  <2>19. ASSUME NEW x, NEW e
         PROVE  Holds(all, x, e) <=> Holds(list, x, e)
    BY <2>2, <2>6, <2>12, <2>13, <2>15 DEF Holds
  <2>20. ListStrict(list) => ListStrict(all)
    BY <2>2, <2>6, <2>12, <2>15 DEF ListStrict
  <2>21. p + 1 \in DOMAIN all /\ all[p + 1].offset = at
    BY <2>3, <2>6, <2>14
  <2>22. Ready(list, at, all, p + 1)
    BY <2>17, <2>18, <2>19, <2>20, <2>21 DEF Ready
  <2> QED
    BY <2>22
<1> QED
  BY <1>1, <1>2

(* An entry more keeps the types of an element. *)
LEMMA WithEntryTyped ==
  ASSUME NEW l \in ListElements, NEW e \in ControlEntries
  PROVE  WithEntry(l, e) \in ListElements /\ WithEntry(l, e).offset = l.offset
<1>1. /\ l.offset \in AllOffsets /\ l.ends \in Seq(ControlEntries)
      /\ l.opens \in Seq(ControlEntries)
      /\ l = [offset |-> l.offset, ends |-> l.ends, opens |-> l.opens]
  BY DEF ListElements
<1>2. PushEnd(l.ends, e) \in Seq(ControlEntries) /\ PushOpen(l.opens, e) \in Seq(ControlEntries)
  BY <1>1, PushTyped
<1> QED
  BY <1>1, <1>2 DEF WithEntry, ListElements

(* An element with a new entry is in order, and in strict order if the entry
   ties with none or comes behind those it ties with. *)
Grown(l, e, r) ==
  /\ SideOK(r.ends, TRUE) /\ SideOK(r.opens, FALSE)
  /\ EntriesOf(r) = EntriesOf(l) \cup {e}
  /\ /\ SideStrict(l.ends) /\ SideStrict(l.opens)
     /\ \A x \in EntriesOf(l) : (IsEnd(x) <=> IsEnd(e)) =>
          Size(x) # Size(e) \/ EntryRank(x) < EntryRank(e)
     => SideStrict(r.ends) /\ SideStrict(r.opens)

(* An entry more keeps an element sorted. *)
LEMMA WithEntryIs ==
  ASSUME NEW l \in ListElements, NEW e \in ControlEntries, NEW r, r = WithEntry(l, e),
         SideOK(l.ends, TRUE), SideOK(l.opens, FALSE), e \notin EntriesOf(l)
  PROVE  Grown(l, e, r)
<1>1. /\ l.ends \in Seq(ControlEntries) /\ l.opens \in Seq(ControlEntries)
      /\ l = [offset |-> l.offset, ends |-> l.ends, opens |-> l.opens]
  BY DEF ListElements
<1>2. /\ \A x \in DOMAIN l.ends : l.ends[x] # e /\ l.ends[x] \in EntriesOf(l)
      /\ \A x \in DOMAIN l.opens : l.opens[x] # e /\ l.opens[x] \in EntriesOf(l)
  BY DEF EntriesOf, Range
<1>3. CASE IsEnd(e)
  <2> DEFINE q == PushSide(l.ends, e, TRUE)
  <2>1. r.ends = q /\ r.opens = l.opens
    BY <1>1, <1>3 DEF WithEntry, PushSide
  <2>2. /\ SideOK(q, TRUE) /\ Range(q) = Range(l.ends) \cup {e}
        /\ /\ SideStrict(l.ends)
           /\ \A x \in DOMAIN l.ends :
                Size(l.ends[x]) # Size(e) \/ EntryRank(l.ends[x]) < EntryRank(e)
           => SideStrict(q)
    BY <1>1, <1>2, <1>3, PushSideIs
  <2> HIDE DEF q
  <2>3. \A x \in DOMAIN l.ends : IsEnd(l.ends[x])
    BY DEF SideOK
  <2>4. EntriesOf(r) = EntriesOf(l) \cup {e}
    BY <2>1, <2>2 DEF EntriesOf
  <2>5. ASSUME SideStrict(l.ends), \A x \in EntriesOf(l) : (IsEnd(x) <=> IsEnd(e)) =>
                 Size(x) # Size(e) \/ EntryRank(x) < EntryRank(e)
        PROVE  SideStrict(q)
    BY <1>2, <1>3, <2>2, <2>3, <2>5
  <2> QED
    BY <2>1, <2>2, <2>4, <2>5 DEF Grown
<1>4. CASE ~IsEnd(e)
  <2> DEFINE q == PushSide(l.opens, e, FALSE)
  <2>1. r.opens = q /\ r.ends = l.ends
    BY <1>1, <1>4 DEF WithEntry, PushSide
  <2>2. /\ SideOK(q, FALSE) /\ Range(q) = Range(l.opens) \cup {e}
        /\ /\ SideStrict(l.opens)
           /\ \A x \in DOMAIN l.opens :
                Size(l.opens[x]) # Size(e) \/ EntryRank(l.opens[x]) < EntryRank(e)
           => SideStrict(q)
    BY <1>1, <1>2, <1>4, PushSideIs
  <2> HIDE DEF q
  <2>3. \A x \in DOMAIN l.opens : ~IsEnd(l.opens[x])
    BY DEF SideOK
  <2>4. EntriesOf(r) = EntriesOf(l) \cup {e}
    BY <2>1, <2>2 DEF EntriesOf
  <2>5. ASSUME SideStrict(l.opens), \A x \in EntriesOf(l) : (IsEnd(x) <=> IsEnd(e)) =>
                 Size(x) # Size(e) \/ EntryRank(x) < EntryRank(e)
        PROVE  SideStrict(q)
    BY <1>2, <1>4, <2>2, <2>3, <2>5
  <2> QED
    BY <2>1, <2>2, <2>4, <2>5 DEF Grown
<1> QED
  BY <1>3, <1>4

(* insert_control_list puts the entry into the element for its offset. *)
LEMMA InsertIs ==
  ASSUME NEW list \in Seq(ListElements), NEW at \in AllOffsets, NEW e \in ControlEntries,
         NEW all, all = WithElement(list, at), NEW r, r = insert_control_list(list, at, e)
  PROVE  \E k \in DOMAIN all : all[k].offset = at /\ r = [all EXCEPT ![k] = WithEntry(all[k], e)]
<1> DEFINE k == CHOOSE i \in DOMAIN all : all[i].offset = at
<1>1. all \in Seq(ListElements) /\ \E i \in DOMAIN all : all[i].offset = at
  BY WithElementTyped
<1>2. k \in DOMAIN all /\ all[k].offset = at
  BY <1>1
<1>3. r = IF IsEnd(e) THEN [all EXCEPT ![k].ends = PushEnd(@, e)]
                      ELSE [all EXCEPT ![k].opens = PushOpen(@, e)]
  BY DEF insert_control_list, WithElement
<1> HIDE DEF k
<1>4. r = [all EXCEPT ![k] = WithEntry(all[k], e)]
  BY <1>3 DEF WithEntry
<1> QED
  BY <1>2, <1>4

(* insert_control_list keeps the types. *)
LEMMA InsertTyped ==
  ASSUME NEW list \in Seq(ListElements), NEW at \in AllOffsets, NEW e \in ControlEntries
  PROVE  insert_control_list(list, at, e) \in Seq(ListElements)
<1> DEFINE all == WithElement(list, at)
           r == insert_control_list(list, at, e)
<1>1. all \in Seq(ListElements)
  BY WithElementTyped
<1>2. PICK k \in DOMAIN all : all[k].offset = at /\ r = [all EXCEPT ![k] = WithEntry(all[k], e)]
  BY InsertIs
<1> DEFINE w == WithEntry(all[k], e)
<1> HIDE DEF all
<1>3. w \in ListElements
  BY <1>1, WithEntryTyped
<1> HIDE DEF w
<1>4. [all EXCEPT ![k] = w] \in Seq(ListElements)
  BY <1>1, <1>3, ExceptSeq
<1> QED
  BY <1>2, <1>4 DEF w

(* What insert_control_list leaves: the list with one entry more, in strict
   order if the entry ties with none or comes behind those it ties with. *)
NoTie(list, at, e) ==
  \A x : Holds(list, at, x) /\ (IsEnd(x) <=> IsEnd(e)) =>
    Size(x) # Size(e) \/ EntryRank(x) < EntryRank(e)

(* insert_control_list adds its entry at its offset and keeps both levels sorted. *)
LEMMA InsertHolds ==
  ASSUME NEW list, ListOK(list), NEW at \in AllOffsets, NEW e \in ControlEntries,
         ~Holds(list, at, e), NEW r, r = insert_control_list(list, at, e)
  PROVE  /\ ListOK(r)
         /\ \A y, x : Holds(r, y, x) <=> Holds(list, y, x) \/ (y = at /\ x = e)
         /\ ListStrict(list) /\ NoTie(list, at, e) => ListStrict(r)
<1> DEFINE all == WithElement(list, at)
<1>0. list \in Seq(ListElements)
  BY DEF ListOK, Laid
<1>1. PICK k : Ready(list, at, all, k)
  BY ReadyIs
<1>2. PICK i \in DOMAIN all : all[i].offset = at /\ r = [all EXCEPT ![i] = WithEntry(all[i], e)]
  BY <1>0, InsertIs
<1> HIDE DEF all
<1>3. /\ Laid(all) /\ k \in DOMAIN all /\ all[k].offset = at
      /\ \A y, x : Holds(all, y, x) <=> Holds(list, y, x)
      /\ \A j \in DOMAIN all : j # k => EntriesOf(all[j]) # {}
      /\ ListStrict(list) => ListStrict(all)
  BY <1>1 DEF Ready
<1>4. all \in Seq(ListElements) /\ DOMAIN all = 1 .. Len(all) /\ Len(all) \in Nat
  BY <1>3, LenProperties DEF Laid
<1>5. i = k
  <2>1. ASSUME NEW x \in DOMAIN all, NEW y \in DOMAIN all, x < y
        PROVE  all[x].offset # all[y].offset
    <3>1. x \in 1 .. y - 1
      BY <1>4, <2>1
    <3>2. all[x].offset < all[y].offset
      BY <1>3, <3>1 DEF Laid
    <3>3. all[x] \in ListElements /\ all[y] \in ListElements
      BY <1>4, ElementOfSeq
    <3>4. all[x].offset \in Int /\ all[y].offset \in Int
      BY <3>3, OffsetIs DEF ListElements
    <3> QED
      BY <3>2, <3>4
  <2> QED
    BY <1>2, <1>3, <1>4, <2>1
<1> DEFINE w == WithEntry(all[k], e)
<1>6. all[k] \in ListElements
  BY <1>3, <1>4, ElementOfSeq
<1>7. w \in ListElements /\ w.offset = at
  BY <1>3, <1>6, WithEntryTyped
<1>8. e \notin EntriesOf(all[k])
  BY <1>3 DEF Holds
<1>9. SideOK(all[k].ends, TRUE) /\ SideOK(all[k].opens, FALSE)
  BY <1>3 DEF Laid
<1>10. Grown(all[k], e, w)
  BY <1>6, <1>8, <1>9, WithEntryIs
<1> HIDE DEF w
<1>11. /\ r \in Seq(ListElements) /\ DOMAIN r = DOMAIN all
       /\ \A j \in DOMAIN all : r[j] = IF j = k THEN w ELSE all[j]
  <2>1. r = [all EXCEPT ![k] = w]
    BY <1>2, <1>5 DEF w
  <2>2. [all EXCEPT ![k] = w] \in Seq(ListElements)
    BY <1>3, <1>4, <1>7, ExceptSeq
  <2> QED
    BY <1>3, <2>1, <2>2
<1>12. \A j \in DOMAIN all : r[j].offset = all[j].offset
  BY <1>3, <1>7, <1>11
<1>13. EntriesOf(w) = EntriesOf(all[k]) \cup {e} /\ SideOK(w.ends, TRUE) /\ SideOK(w.opens, FALSE)
  BY <1>10 DEF Grown
<1>14. Laid(r)
  <2>1. \A j \in DOMAIN all : SideOK(r[j].ends, TRUE) /\ SideOK(r[j].opens, FALSE)
    BY <1>3, <1>11, <1>13 DEF Laid
  <2>2. ASSUME NEW j \in DOMAIN all, NEW i1 \in 1 .. j - 1
        PROVE  r[i1].offset < r[j].offset
    <3>1. i1 \in DOMAIN all
      BY <1>4
    <3>2. all[i1].offset < all[j].offset
      BY <1>3 DEF Laid
    <3> QED
      BY <1>12, <3>1, <3>2
  <2> QED
    BY <1>11, <2>1, <2>2 DEF Laid
<1>15. ListOK(r)
  BY <1>3, <1>11, <1>13, <1>14 DEF ListOK
<1>16. ASSUME NEW y, NEW x
       PROVE  Holds(r, y, x) <=> Holds(list, y, x) \/ (y = at /\ x = e)
  <2>1. Holds(r, y, x) <=> Holds(all, y, x) \/ (y = at /\ x = e)
    BY <1>3, <1>11, <1>12, <1>13 DEF Holds
  <2> QED
    BY <1>3, <2>1
<1>17. ASSUME ListStrict(list), NoTie(list, at, e)
       PROVE  ListStrict(r)
  <2>1. ListStrict(all)
    BY <1>3, <1>17
  <2>2. \A x \in EntriesOf(all[k]) : Holds(list, at, x)
    BY <1>3 DEF Holds
  <2>3. \A x \in EntriesOf(all[k]) : (IsEnd(x) <=> IsEnd(e)) =>
          Size(x) # Size(e) \/ EntryRank(x) < EntryRank(e)
    BY <1>17, <2>2 DEF NoTie
  <2>4. SideStrict(w.ends) /\ SideStrict(w.opens)
    BY <1>3, <1>10, <2>1, <2>3 DEF Grown, ListStrict
  <2> QED
    BY <1>11, <2>1, <2>4 DEF ListStrict
<1> QED
  BY <1>15, <1>16, <1>17

(* InsertAll is the insertion of the entries one after the other. *)
Inserting(list, marks, h) ==
  /\ h[0] = list
  /\ \A n \in 1 .. Len(marks) :
       h[n] = insert_control_list(h[n - 1], marks[n].at, marks[n].entry)

(* The entries are inserted one after the other. *)
LEMMA InsertAllUnfolds ==
  ASSUME NEW list \in Seq(ListElements), NEW marks \in Seq(MarkTypes)
  PROVE  \E h : Inserting(list, marks, h) /\ InsertAll(list, marks) = h[Len(marks)]
<1> DEFINE N == Len(marks)
           D == Seq(ListElements)
           Step(n, x) == insert_control_list(x, marks[n].at, marks[n].entry)
           Is(f) == f = [n \in 0 .. N |-> IF n = 0 THEN list ELSE Step(n, f[n - 1])]
           h == CHOOSE f : Is(f)
           steps == [z \in (1 .. N) \X D |-> Step(z[1], z[2])]
<1>1. N \in Nat /\ DOMAIN marks = 1 .. N
  BY LenProperties
<1>2. ASSUME NEW n \in 1 .. N, NEW x \in D
      PROVE  Step(n, x) \in D
  <2>1. marks[n] \in MarkTypes
    BY ElementOfSeq
  <2>2. marks[n].at \in AllOffsets /\ marks[n].entry \in ControlEntries
    BY <2>1 DEF MarkTypes
  <2> QED
    BY <2>2, InsertTyped
<1>3. \E f \in [0 .. N -> D] : Recursion(f, N, list, steps)
  <2>1. steps \in [(1 .. N) \X D -> D]
    <3> HIDE DEF D, Step, N
    <3> QED
      BY <1>2
  <2>2. list \in D
    OBVIOUS
  <2> HIDE DEF N, D, steps
  <2> QED
    BY <1>1, <2>1, <2>2, PrimitiveRecursion
<1>4. PICK g \in [0 .. N -> D] :
        g[0] = list /\ \A n \in 1 .. N : g[n] = steps[<<n, g[n - 1]>>]
  <2> HIDE DEF N, D, steps
  <2> QED
    BY <1>3 DEF Recursion
<1>5. Is(g)
  <2>1. ASSUME NEW n \in 0 .. N
        PROVE  g[n] = IF n = 0 THEN list ELSE Step(n, g[n - 1])
    <3>1. CASE n = 0
      BY <1>4, <3>1
    <3>2. CASE n # 0
      <4>1. n \in 1 .. N /\ n - 1 \in 0 .. N
        BY <1>1, <3>2
      <4>2. g[n - 1] \in D
        BY <4>1
      <4>3. steps[<<n, g[n - 1]>>] = Step(n, g[n - 1])
        <5> HIDE DEF D, Step
        <5> QED
          BY <4>1, <4>2
      <4>4. g[n] = Step(n, g[n - 1])
        BY <1>4, <4>1, <4>3, Zenon
      <4> QED
        BY <3>2, <4>4
    <3> QED
      BY <3>1, <3>2
  <2> HIDE DEF N, D, Step
  <2> QED
    BY <2>1
<1>6. Is(h)
  BY <1>5, Zenon
<1>7. InsertAll(list, marks) = h[N]
  BY DEF InsertAll
<1> HIDE DEF h
<1>8. ASSUME NEW n \in 0 .. N
      PROVE  h[n] = IF n = 0 THEN list ELSE Step(n, h[n - 1])
  <2> HIDE DEF N, Step
  <2> QED
    BY <1>6
<1>9. Inserting(list, marks, h)
  <2>1. h[0] = list
    BY <1>1, <1>8
  <2>2. ASSUME NEW n \in 1 .. N
        PROVE  h[n] = Step(n, h[n - 1])
    <3>1. n \in 0 .. N /\ n # 0
      BY <1>1
    <3> HIDE DEF N, Step
    <3> QED
      BY <1>8, <3>1
  <2> QED
    BY <2>1, <2>2 DEF Inserting
<1> QED
  BY <1>7, <1>9

(* The marks that are put in are new to the list, differ, and, in the strict
   case, come behind those of their place with a range of the same size. *)
AllNew(list, marks) ==
  /\ \A i \in DOMAIN marks : ~Holds(list, marks[i].at, marks[i].entry)
  /\ \A i, j \in DOMAIN marks : i # j => marks[i] # marks[j]

AllBehind(list, marks) ==
  /\ ListStrict(list)
  /\ \A i \in DOMAIN marks : NoTie(list, marks[i].at, marks[i].entry)
  /\ \A i, j \in DOMAIN marks :
       i < j /\ marks[i].at = marks[j].at /\ (IsEnd(marks[i].entry) <=> IsEnd(marks[j].entry)) =>
         Size(marks[i].entry) # Size(marks[j].entry)
           \/ EntryRank(marks[i].entry) < EntryRank(marks[j].entry)

(* All entries of a statement are added. *)
LEMMA InsertAllHolds ==
  ASSUME NEW list, ListOK(list), NEW marks \in Seq(MarkTypes), AllNew(list, marks),
         NEW r, r = InsertAll(list, marks)
  PROVE  /\ ListOK(r)
         /\ \A y, x : Holds(r, y, x) <=>
              Holds(list, y, x) \/ \E i \in DOMAIN marks : marks[i].at = y /\ marks[i].entry = x
         /\ AllBehind(list, marks) => ListStrict(r)
<1> DEFINE N == Len(marks)
<1>0. list \in Seq(ListElements)
  BY DEF ListOK, Laid
<1>1. PICK h : Inserting(list, marks, h) /\ r = h[N]
  BY <1>0, InsertAllUnfolds
<1>2. N \in Nat /\ DOMAIN marks = 1 .. N
  BY LenProperties
<1>3. ASSUME NEW n \in 1 .. N
      PROVE  /\ marks[n] \in MarkTypes /\ marks[n].at \in AllOffsets
             /\ marks[n].entry \in ControlEntries
             /\ marks[n] = [at |-> marks[n].at, entry |-> marks[n].entry]
             /\ h[n] = insert_control_list(h[n - 1], marks[n].at, marks[n].entry)
  <2>1. marks[n] \in MarkTypes
    BY ElementOfSeq
  <2>2. h[n] = insert_control_list(h[n - 1], marks[n].at, marks[n].entry)
    BY <1>1 DEF Inserting
  <2> QED
    BY <2>1, <2>2 DEF MarkTypes
<1>4. h[0] = list
  BY <1>1 DEF Inserting
<1> HIDE DEF N
<1> DEFINE Had(n, y, x) == Holds(list, y, x) \/ \E i \in 1 .. n : marks[i].at = y /\ marks[i].entry = x
           Good(n) == /\ ListOK(h[n])
                      /\ \A y, x : Holds(h[n], y, x) <=> Had(n, y, x)
                      /\ AllBehind(list, marks) => ListStrict(h[n])
           T == {n \in 0 .. N : Good(n)}
<1>5. 0 \in T
  <2>1. \A y, x : Holds(h[0], y, x) <=> Had(0, y, x)
    BY <1>4
  <2>2. AllBehind(list, marks) => ListStrict(h[0])
    BY <1>4 DEF AllBehind
  <2>3. 0 \in 0 .. N
    BY <1>2
  <2> QED
    BY <1>4, <2>1, <2>2, <2>3
<1>6. ASSUME NEW n \in 1 .. N, n - 1 \in T
      PROVE  n \in T
  <2> DEFINE m == marks[n]
             p == h[n - 1]
             q == h[n]
  <2>1. /\ n - 1 \in 0 .. N /\ n \in 0 .. N
        /\ \A i \in 1 .. n - 1 : i \in 1 .. N /\ i < n
        /\ \A i \in 1 .. n : i \in 1 .. n - 1 \/ i = n
        /\ \A i \in 1 .. n - 1 : i \in 1 .. n
        /\ n \in 1 .. n
    BY <1>2
  <2>2. /\ ListOK(p)
        /\ \A y, x : Holds(p, y, x) <=> Had(n - 1, y, x)
        /\ AllBehind(list, marks) => ListStrict(p)
    BY <1>6
  <2>3. /\ m.at \in AllOffsets /\ m.entry \in ControlEntries
        /\ q = insert_control_list(p, m.at, m.entry)
    BY <1>3
  <2>4. \A i \in 1 .. n - 1 : marks[i].at # m.at \/ marks[i].entry # m.entry
    <3> SUFFICES ASSUME NEW i \in 1 .. n - 1, marks[i].at = m.at, marks[i].entry = m.entry
                 PROVE  FALSE
      OBVIOUS
    <3>1. i \in 1 .. N /\ i # n
      BY <2>1
    <3>2. marks[i] = marks[n]
      BY <1>3, <3>1
    <3> QED
      BY <1>2, <3>1, <3>2 DEF AllNew
  <2>5. ~Holds(p, m.at, m.entry)
    <3>1. ~Holds(list, m.at, m.entry)
      BY <1>2 DEF AllNew
    <3> QED
      BY <2>2, <2>4, <3>1
  <2> HIDE DEF m, p, q
  <2>6. /\ ListOK(q)
        /\ \A y, x : Holds(q, y, x) <=> Holds(p, y, x) \/ (y = m.at /\ x = m.entry)
        /\ ListStrict(p) /\ NoTie(p, m.at, m.entry) => ListStrict(q)
    BY <2>2, <2>3, <2>5, InsertHolds
  <2>7. ASSUME NEW y, NEW x
        PROVE  Holds(q, y, x) <=> Had(n, y, x)
    <3>1. Had(n, y, x) <=> Had(n - 1, y, x) \/ (y = m.at /\ x = m.entry)
      BY <2>1 DEF m
    <3> HIDE DEF Had
    <3> QED
      BY <2>2, <2>6, <3>1
  <2>8. ASSUME AllBehind(list, marks)
        PROVE  ListStrict(q)
    <3>1. ASSUME NEW x, Holds(p, m.at, x), IsEnd(x) <=> IsEnd(m.entry)
          PROVE  Size(x) # Size(m.entry) \/ EntryRank(x) < EntryRank(m.entry)
      <4>1. CASE Holds(list, m.at, x)
        <5>1. NoTie(list, m.at, m.entry)
          BY <1>2, <2>8 DEF AllBehind, m
        <5> QED
          BY <3>1, <4>1, <5>1 DEF NoTie
      <4>2. CASE \E i \in 1 .. n - 1 : marks[i].at = m.at /\ marks[i].entry = x
        BY <1>2, <2>1, <2>8, <3>1, <4>2 DEF AllBehind, m
      <4> QED
        BY <2>2, <3>1, <4>1, <4>2
    <3>2. NoTie(p, m.at, m.entry)
      BY <3>1 DEF NoTie
    <3> QED
      BY <2>2, <2>6, <2>8, <3>2
  <2>9. Good(n)
    BY <2>6, <2>7, <2>8 DEF q
  <2> QED
    BY <2>1, <2>9
<1>7. T = 0 .. N
  <2> HIDE DEF Good
  <2> QED
    BY <1>2, <1>5, <1>6, Climb
<1>8. Good(N)
  BY <1>2, <1>7
<1> QED
  BY <1>1, <1>2, <1>8

(* The limits of a statement and of its bodies are numbers. *)
Limits(c) ==
  /\ First(c) \in Int /\ Beyond(c) \in Int
  /\ \A b \in DOMAIN Bodies(c) : b \in 1 .. 4 /\ Bodies(c)[b][1] \in Int /\ Bodies(c)[b][2] \in Int

(* The limits of a statement and of its bodies are offsets, for each kind. *)
LEMMA LimitsHold ==
  ASSUME NEW c \in Statements
  PROVE  Limits(c)
<1>0. LastOffset \in Nat
  BY OpArrayAssumption
<1>1. NoBody[1] \in Int /\ NoBody[2] \in Int
  BY <1>0 DEF NoBody
<1>2. CASE c.kind = "while"
  BY <1>2, WhileCut, WhileTable DEF Limits
<1>3. CASE c.kind = "do"
  BY <1>3, DoCut, DoTable DEF Limits
<1>4. CASE c.kind \in {"for", "barefor"}
  <2>1. /\ \A k \in 1 .. 4 : c.cut[k] \in Nat
        /\ First(c) = (IF c.kind = "for" THEN c.cut[1] - 1 ELSE c.cut[1]) /\ Beyond(c) = c.cut[4]
        /\ Bodies(c) = <<NoBody, <<c.cut[3], c.cut[4] - 1>> >>
    BY <1>4, ForCut, ForTable
  <2>2. DOMAIN Bodies(c) = {1, 2} /\ Bodies(c)[1] = NoBody /\ Bodies(c)[2] = <<c.cut[3], c.cut[4] - 1>>
    BY <2>1
  <2> QED
    BY <1>1, <2>1, <2>2 DEF Limits
<1>5. CASE c.kind = "foreach"
  BY <1>5, ForeachCut, ForeachTable DEF Limits
<1>6. CASE c.kind = "try"
  BY SMTT(30), <1>6, TryCut, TryTable DEF Limits
<1>7. CASE c.kind = "switchdefault"
  <2>1. /\ \A k \in 1 .. 3 : c.cut[k] \in Nat
        /\ First(c) = c.cut[1] /\ Beyond(c) = c.cut[3]
        /\ Bodies(c) = <<NoBody, <<c.cut[1] + 2, c.cut[2] - 2>>, <<c.cut[2], c.cut[3] - 2>> >>
    BY <1>7, SwitchDefaultCut, SwitchDefaultTable
  <2>2. DOMAIN Bodies(c) = {1, 2, 3} /\ Bodies(c)[1] = NoBody
        /\ Bodies(c)[2] = <<c.cut[1] + 2, c.cut[2] - 2>>
        /\ Bodies(c)[3] = <<c.cut[2], c.cut[3] - 2>>
    BY <2>1
  <2> QED
    BY <1>1, <2>1, <2>2 DEF Limits
<1>8. CASE c.kind = "defaultswitch"
  <2>1. /\ \A k \in 1 .. 3 : c.cut[k] \in Nat
        /\ First(c) = c.cut[1] - 1 /\ Beyond(c) = c.cut[3]
        /\ Bodies(c) = <<NoBody, <<c.cut[1], c.cut[2] - 1>>, <<c.cut[2] + 2, c.cut[3] - 2>> >>
    BY <1>8, DefaultSwitchCut, DefaultSwitchTable
  <2>2. DOMAIN Bodies(c) = {1, 2, 3} /\ Bodies(c)[1] = NoBody
        /\ Bodies(c)[2] = <<c.cut[1], c.cut[2] - 1>>
        /\ Bodies(c)[3] = <<c.cut[2] + 2, c.cut[3] - 2>>
    BY <2>1
  <2> QED
    BY <1>1, <2>1, <2>2 DEF Limits
<1>9. CASE c.kind = "switch" /\ Len(c.cut) = 2
  <2>1. /\ \A k \in 1 .. 2 : c.cut[k] \in Nat
        /\ First(c) = c.cut[1] /\ Beyond(c) = c.cut[2]
        /\ Bodies(c) = <<NoBody, <<c.cut[1] + 2, c.cut[2] - 1>> >>
    BY <1>9, OneCaseCut, OneCaseTable
  <2>2. DOMAIN Bodies(c) = {1, 2} /\ Bodies(c)[1] = NoBody
        /\ Bodies(c)[2] = <<c.cut[1] + 2, c.cut[2] - 1>>
    BY <2>1
  <2> QED
    BY <1>1, <2>1, <2>2 DEF Limits
<1>10. CASE c.kind = "switch" /\ Len(c.cut) = 3
  <2>1. /\ \A k \in 1 .. 3 : c.cut[k] \in Nat
        /\ First(c) = c.cut[1] /\ Beyond(c) = c.cut[3]
        /\ Bodies(c) = <<NoBody, <<c.cut[1] + 2, c.cut[2] - 1>>, <<c.cut[2] + 2, c.cut[3] - 1>> >>
    BY <1>10, TwoCasesCut, TwoCasesTable
  <2>2. DOMAIN Bodies(c) = {1, 2, 3} /\ Bodies(c)[1] = NoBody
        /\ Bodies(c)[2] = <<c.cut[1] + 2, c.cut[2] - 1>>
        /\ Bodies(c)[3] = <<c.cut[2] + 2, c.cut[3] - 1>>
    BY <2>1
  <2> QED
    BY <1>1, <2>1, <2>2 DEF Limits
<1>11. CASE c.kind \in {"if", "ifelse"}
  <2> DEFINE n == Len(c.cut)
  <2>1. n \in {2, 3, 4} /\ \A k \in 1 .. n : c.cut[k] \in Nat
    BY <1>11, IfCut, IfElseCut
  <2>2. /\ First(c) = c.cut[1] /\ Beyond(c) = c.cut[n]
        /\ DOMAIN Bodies(c) = 1 .. n - 1
        /\ \A k \in 1 .. n - 1 : Bodies(c)[k] =
             IF c.kind = "ifelse" /\ k = n - 1 THEN <<c.cut[k], c.cut[n]>>
             ELSE <<c.cut[k] + 1, c.cut[k + 1] - 1>>
    BY <1>11, IfTable
  <2> HIDE DEF n
  <2>3. First(c) \in Int /\ Beyond(c) \in Int
    BY <2>1, <2>2
  <2>4. ASSUME NEW k \in 1 .. n - 1
        PROVE  k \in 1 .. 4 /\ Bodies(c)[k][1] \in Int /\ Bodies(c)[k][2] \in Int
    <3>1. k \in 1 .. 4 /\ k \in 1 .. n /\ k + 1 \in 1 .. n /\ n \in 1 .. n
      BY <2>1
    <3>2. c.cut[k] \in Nat /\ c.cut[k + 1] \in Nat /\ c.cut[n] \in Nat
      BY <2>1, <3>1
    <3>3. CASE c.kind = "ifelse" /\ k = n - 1
      <4>1. Bodies(c)[k] = <<c.cut[k], c.cut[n]>>
        BY <2>2, <3>3
      <4> QED
        BY <3>1, <3>2, <4>1
    <3>4. CASE ~(c.kind = "ifelse" /\ k = n - 1)
      <4>1. Bodies(c)[k] = <<c.cut[k] + 1, c.cut[k + 1] - 1>>
        BY <2>2, <3>4
      <4> QED
        BY <3>1, <3>2, <4>1
    <3> QED
      BY <3>3, <3>4
  <2> QED
    BY <2>2, <2>3, <2>4 DEF Limits
<1> QED
  BY <1>2, <1>3, <1>4, <1>5, <1>6, <1>7, <1>8, <1>9, <1>10, <1>11, StatementIs, SwitchCut

(* The limits of a statement and of its bodies. *)
LEMMA LimitsAre ==
  ASSUME NEW c \in Statements
  PROVE  /\ First(c) \in Int /\ Beyond(c) \in Int
         /\ \A b \in DOMAIN Bodies(c) :
              b \in 1 .. 4 /\ Bodies(c)[b][1] \in Int /\ Bodies(c)[b][2] \in Int
BY LimitsHold DEF Limits

-----------------------------------------------------------------------------
(* adjust_control_list_start leaves a start that no range of the list crosses. *)
LEMMA MovedByNone ==
  ASSUME NEW entries, Len(entries) \in Nat, NEW start, NEW end,
         \A n \in 1 .. Len(entries) : ~Crosses(entries[n], start, end)
  PROVE  MovedBy(entries, start, end) = start
<1> DEFINE N == Len(entries)
           Step(n, x) == IF Crosses(entries[n], x, end) THEN entries[n].start ELSE x
           Is(f) == f = [n \in 0 .. N |-> IF n = 0 THEN start ELSE Step(n, f[n - 1])]
           h == CHOOSE f : Is(f)
           g == [n \in 0 .. N |-> start]
<1>1. MovedBy(entries, start, end) = h[N]
  BY DEF MovedBy
<1>2. ASSUME NEW n \in 1 .. N
      PROVE  Step(n, start) = start
  OBVIOUS
<1>3. Is(g)
  <2> HIDE DEF Step
  <2>1. ASSUME NEW n \in 0 .. N
        PROVE  start = IF n = 0 THEN start ELSE Step(n, g[n - 1])
    <3>1. CASE n # 0
      <4>1. n \in 1 .. N /\ n - 1 \in 0 .. N
        BY <3>1
      <4> QED
        BY <1>2, <3>1, <4>1
    <3> QED
      BY <3>1
  <2> QED
    BY <2>1
<1>4. Is(h)
  BY <1>3, Zenon
<1> HIDE DEF h, g
<1>5. ASSUME NEW n \in 0 .. N
      PROVE  h[n] = IF n = 0 THEN start ELSE Step(n, h[n - 1])
  <2> HIDE DEF N, Step
  <2> QED
    BY <1>4
<1> DEFINE T == {n \in 0 .. N : h[n] = start}
<1> HIDE DEF Step
<1>6. 0 \in T
  BY <1>5
<1>7. ASSUME NEW n \in 1 .. N, n - 1 \in T
      PROVE  n \in T
  <2>1. n \in 0 .. N /\ n # 0
    OBVIOUS
  <2>2. h[n] = Step(n, start)
    BY <1>5, <1>7, <2>1
  <2> QED
    BY <1>2, <2>1, <2>2
<1> HIDE DEF N
<1>8. N \in Nat
  BY DEF N
<1>9. T = 0 .. N
  BY <1>6, <1>7, <1>8, Climb
<1>10. h[N] = start
  BY <1>8, <1>9
<1> QED
  BY <1>1, <1>10

(* adjust_control_list_start leaves a start that nothing crosses. *)
LEMMA AdjustNone ==
  ASSUME NEW list \in Seq(ListElements), NEW start, NEW end,
         \A at, e : Holds(list, at, e) => ~Crosses(e, start, end)
  PROVE  adjust_control_list_start(list, start, end) = start
<1> DEFINE N == Len(list)
           Step(n, x) == MovedBy(list[n].opens \o list[n].ends, x, end)
           Is(f) == f = [n \in 0 .. N |-> IF n = 0 THEN start ELSE Step(n, f[n - 1])]
           h == CHOOSE f : Is(f)
           g == [n \in 0 .. N |-> start]
<1>1. adjust_control_list_start(list, start, end) = h[N]
  BY DEF adjust_control_list_start
<1>2. ASSUME NEW n \in 1 .. N
      PROVE  Step(n, start) = start
  <2> DEFINE o == list[n].opens
             p == list[n].ends
             w == o \o p
  <2>1. list[n] \in ListElements
    BY ElementOfSeq
  <2>2. o \in Seq(ControlEntries) /\ p \in Seq(ControlEntries)
    BY <2>1 DEF ListElements
  <2>3. n \in DOMAIN list
    BY LenProperties
  <2> HIDE DEF N
  <2>4. ASSUME NEW e, e \in Range(o) \/ e \in Range(p)
        PROVE  ~Crosses(e, start, end)
    <3>1. e \in EntriesOf(list[n])
      BY <2>4 DEF EntriesOf
    <3>2. Holds(list, list[n].offset, e)
      BY <2>3, <3>1 DEF Holds
    <3> QED
      BY <3>2
  <2> HIDE DEF o, p
  <2>5. /\ w \in Seq(ControlEntries) /\ Len(w) = Len(o) + Len(p)
        /\ Len(o) \in Nat /\ Len(p) \in Nat
        /\ DOMAIN o = 1 .. Len(o) /\ DOMAIN p = 1 .. Len(p)
        /\ \A i \in 1 .. Len(o) + Len(p) :
             w[i] = IF i <= Len(o) THEN o[i] ELSE p[i - Len(o)]
    BY <2>2, ConcatProperties, LenProperties
  <2> HIDE DEF w
  <2>6. Len(w) \in Nat
    BY <2>5
  <2>7. ASSUME NEW i \in 1 .. Len(w)
        PROVE  ~Crosses(w[i], start, end)
    <3>1. CASE i <= Len(o)
      <4>1. w[i] = o[i] /\ i \in 1 .. Len(o)
        BY <2>5, <3>1
      <4>2. w[i] \in Range(o)
        BY <2>5, <4>1 DEF Range
      <4> QED
        BY <2>4, <4>2
    <3>2. CASE i > Len(o)
      <4>1. w[i] = p[i - Len(o)] /\ i - Len(o) \in 1 .. Len(p)
        BY <2>5, <3>2
      <4>2. w[i] \in Range(p)
        BY <2>5, <4>1 DEF Range
      <4> QED
        BY <2>4, <4>2
    <3> QED
      BY <2>5, <3>1, <3>2
  <2>8. MovedBy(w, start, end) = start
    BY <2>6, <2>7, MovedByNone
  <2> QED
    BY <2>8 DEF o, p, w
<1>3. Is(g)
  <2> HIDE DEF Step
  <2>1. ASSUME NEW n \in 0 .. N
        PROVE  start = IF n = 0 THEN start ELSE Step(n, g[n - 1])
    <3>1. CASE n # 0
      <4>1. n \in 1 .. N /\ n - 1 \in 0 .. N
        BY <3>1, LenProperties
      <4> QED
        BY <1>2, <3>1, <4>1
    <3> QED
      BY <3>1
  <2> QED
    BY <2>1
<1>4. Is(h)
  BY <1>3, Zenon
<1> HIDE DEF h, g
<1>5. ASSUME NEW n \in 0 .. N
      PROVE  h[n] = IF n = 0 THEN start ELSE Step(n, h[n - 1])
  <2> HIDE DEF N, Step
  <2> QED
    BY <1>4
<1> DEFINE T == {n \in 0 .. N : h[n] = start}
<1> HIDE DEF Step
<1>6. N \in Nat
  BY LenProperties
<1> HIDE DEF N
<1>7. 0 \in T
  BY <1>5, <1>6
<1>8. ASSUME NEW n \in 1 .. N, n - 1 \in T
      PROVE  n \in T
  <2>1. n \in 0 .. N /\ n # 0
    BY <1>6
  <2>2. h[n] = Step(n, start)
    BY <1>5, <1>8, <2>1
  <2> QED
    BY <1>2, <2>1, <2>2
<1>9. T = 0 .. N
  BY <1>6, <1>7, <1>8, Climb
<1>10. h[N] = start
  BY <1>6, <1>9
<1> QED
  BY <1>1, <1>10

(* The range of no entry of another statement crosses that of a do statement. *)
LEMMA NoneCrosses ==
  ASSUME NEW c \in Statements, c.kind = "do", NEW d \in Statements, Apart(c, d),
         NEW i \in DOMAIN MarksOf(d)
  PROVE  ~Crosses(MarksOf(d)[i].entry, c.cut[1], c.cut[2])
<1> DEFINE s == c.cut[1]
           t == c.cut[2]
           e == MarksOf(d)[i].entry
<1>1. s \in Nat /\ t \in Nat /\ s < t
  BY DoCut
<1>2. First(c) = s /\ Beyond(c) = t + 1 /\ Bodies(c) = << <<s, t>> >>
  BY DoTable
<1>3. e.start \in Int /\ e.end \in Int
  <2>1. MarksOf(d) \in Seq(MarkTypes)
    BY PlanHolds DEF Typed
  <2>2. MarksOf(d)[i] \in MarkTypes
    BY <2>1, LenProperties, ElementOfSeq
  <2>3. e.start \in AllOffsets /\ e.end \in AllOffsets
    BY <2>2 DEF MarkTypes, ControlEntries
  <2> QED
    BY <2>3, OffsetIs
<1>4. /\ First(d) <= e.start /\ e.end <= Beyond(d)
      /\ \A b \in DOMAIN Bodies(d) :
           \/ e.end <= Bodies(d)[b][1] \/ e.start >= Bodies(d)[b][2]
           \/ e.start <= Bodies(d)[b][1] /\ e.end >= Bodies(d)[b][2]
  BY PlanHolds DEF Spans
<1> HIDE DEF s, t, e
<1>5. First(d) \in Int /\ Beyond(d) \in Int
  BY LimitsAre
<1>6. CASE Beyond(c) <= First(d)
  <2>1. t + 1 <= e.start
    BY <1>1, <1>2, <1>3, <1>4, <1>5, <1>6
  <2> QED
    BY <1>1, <1>3, <2>1 DEF Crosses, s, t, e
<1>7. CASE Beyond(d) <= First(c)
  <2>1. e.end <= s
    BY <1>1, <1>2, <1>3, <1>4, <1>5, <1>7
  <2> QED
    BY <1>1, <1>3, <2>1 DEF Crosses, s, t, e
<1>8. CASE \E b \in DOMAIN Bodies(d) : Inside(c, d, b)
  <2>1. PICK b \in DOMAIN Bodies(d) : Inside(c, d, b)
    BY <1>8
  <2> DEFINE lo == Bodies(d)[b][1]
             hi == Bodies(d)[b][2]
  <2>2. lo \in Int /\ hi \in Int
    BY LimitsAre
  <2>3. lo <= s /\ t + 1 <= hi
    BY <1>2, <2>1 DEF Inside
  <2>4. e.end <= lo \/ e.start >= hi \/ (e.start <= lo /\ e.end >= hi)
    BY <1>4
  <2> HIDE DEF lo, hi
  <2> QED
    BY <1>1, <1>3, <2>2, <2>3, <2>4 DEF Crosses, s, t, e
<1>9. CASE \E b \in DOMAIN Bodies(c) : Inside(d, c, b)
  <2>1. PICK b \in DOMAIN Bodies(c) : Inside(d, c, b)
    BY <1>9
  <2>2. b = 1
    BY <1>2
  <2>3. s <= First(d) /\ Beyond(d) <= t
    BY <1>2, <2>1, <2>2 DEF Inside
  <2>4. s <= e.start /\ e.end <= t
    BY <1>1, <1>3, <1>4, <1>5, <2>3
  <2> QED
    BY <1>1, <1>3, <2>4 DEF Crosses, s, t, e
<1> QED
  BY <1>6, <1>7, <1>8, <1>9 DEF Apart

-----------------------------------------------------------------------------
(* When a bracket is printed: the offset, and a rank among those printed there,
   which follows the order of the entries; the bracket of FE_FETCH is last. *)
MarkedBy(side, b, e) ==
  IF side = "open" THEN Opens(e) /\ e.body = b ELSE Closes(e) /\ e.body - 1 = b

Keyed(side, c, b, a, r) ==
  \/ \E i \in DOMAIN MarksOf(c) : LET m == MarksOf(c)[i] IN
       /\ MarkedBy(side, b, m.entry) /\ a = m.at
       /\ r = 2 * EntryRank(m.entry) + (IF side = "open" THEN 1 ELSE 0)
  \/ /\ c.kind = "foreach" /\ side = "open" /\ b = 1
     /\ a = c.cut[1] /\ r = 12 * LastOffset + 20

Before(a1, r1, a2, r2) == a1 < a2 \/ (a1 = a2 /\ r1 < r2)

(* What an entry of a statement is. *)
MarkFacts(c, m) ==
  /\ m \in MarkTypes /\ m.at \in AllOffsets /\ m.entry \in ControlEntries /\ m.entry.of = c
  /\ m.entry.body \in 1 .. 5
  /\ m.at \in Int /\ Size(m.entry) \in Int /\ Size(m.entry) <= LastOffset
  /\ EntryRank(m.entry) \in Int
  /\ IsEnd(m.entry) => EntryRank(m.entry) = 2 * Size(m.entry)
  /\ ~IsEnd(m.entry) => EntryRank(m.entry) = 6 * LastOffset + 3 - 2 * Size(m.entry)
                        \/ EntryRank(m.entry) = 6 * LastOffset + 4 - 2 * Size(m.entry)

(* What an entry of a statement is. *)
LEMMA MarkFactsHold ==
  ASSUME NEW c \in Statements, NEW i \in DOMAIN MarksOf(c)
  PROVE  MarkFacts(c, MarksOf(c)[i])
<1> DEFINE m == MarksOf(c)[i]
           e == m.entry
<1>0. LastOffset \in Nat
  BY OpArrayAssumption
<1>1. MarksOf(c) \in Seq(MarkTypes) /\ e.of = c
  BY PlanHolds DEF Typed
<1>2. m \in MarkTypes
  BY <1>1, LenProperties, ElementOfSeq
<1> HIDE DEF m
<1>3. m.at \in AllOffsets /\ e \in ControlEntries
  BY <1>2 DEF MarkTypes
<1>4. /\ e.body \in 1 .. 5 /\ e.start \in Nat /\ e.end \in Nat /\ e.end <= LastOffset
      /\ m.at \in Nat
  BY <1>3, OffsetIs DEF ControlEntries
<1> HIDE DEF e
<1>5. Size(e) \in Int /\ Size(e) <= LastOffset
  BY <1>0, <1>4 DEF Size
<1>6. EntryRank(e) \in Int
  BY <1>0, <1>5 DEF EntryRank
<1>7. IsEnd(e) => EntryRank(e) = 2 * Size(e)
  BY DEF EntryRank
<1>8. ~IsEnd(e) => EntryRank(e) = 6 * LastOffset + 3 - 2 * Size(e)
                   \/ EntryRank(e) = 6 * LastOffset + 4 - 2 * Size(e)
  BY <1>0, <1>5 DEF EntryRank
<1> QED
  BY <1>1, <1>2, <1>3, <1>4, <1>5, <1>6, <1>7, <1>8 DEF MarkFacts, m, e

(* Each body of a statement is opened once and closed once. *)
LEMMA KeyTyped ==
  ASSUME NEW c \in Statements, NEW side \in {"open", "close"}, NEW b, NEW a, NEW r,
         Keyed(side, c, b, a, r)
  PROVE  a \in AllOffsets /\ a \in Int /\ r \in Int /\ b \in DOMAIN Bodies(c) /\ LastOffset \in Nat
<1>0. LastOffset \in Nat
  BY OpArrayAssumption
<1>1. ASSUME NEW i \in DOMAIN MarksOf(c), MarkedBy(side, b, MarksOf(c)[i].entry),
             a = MarksOf(c)[i].at,
             r = 2 * EntryRank(MarksOf(c)[i].entry) + (IF side = "open" THEN 1 ELSE 0)
      PROVE  a \in AllOffsets /\ a \in Int /\ r \in Int /\ b \in DOMAIN Bodies(c)
  <2>1. MarkFacts(c, MarksOf(c)[i])
    BY MarkFactsHold
  <2>2. a \in AllOffsets /\ a \in Int /\ r \in Int
    BY <1>1, <2>1 DEF MarkFacts
  <2>3. /\ Opens(MarksOf(c)[i].entry) => MarksOf(c)[i].entry.body \in DOMAIN Bodies(c)
        /\ Closes(MarksOf(c)[i].entry) => MarksOf(c)[i].entry.body - 1 \in DOMAIN Bodies(c)
    BY PlanHolds DEF Turned
  <2> QED
    BY <1>1, <2>2, <2>3 DEF MarkedBy
<1>2. CASE c.kind = "foreach" /\ b = 1 /\ a = c.cut[1] /\ r = 12 * LastOffset + 20
  <2>1. c.cut[1] \in Nat /\ c.cut[1] <= LastOffset
    BY <1>2, ForeachCut
  <2>2. 1 \in DOMAIN Bodies(c)
    BY <1>2, ForeachTable
  <2> QED
    BY <1>0, <1>2, <2>1, <2>2, OffsetIs
<1> QED
  BY <1>0, <1>1, <1>2 DEF Keyed

(* Each body of a statement has an opening and a closing bracket. *)
LEMMA KeySome ==
  ASSUME NEW c \in Statements, NEW side \in {"open", "close"}, NEW b \in DOMAIN Bodies(c)
  PROVE  \E a, r : Keyed(side, c, b, a, r)
<1> DEFINE ms == MarksOf(c)
<1>1. /\ \/ c.kind = "foreach" /\ b = 1
         \/ \E i \in DOMAIN ms : Opens(ms[i].entry) /\ ms[i].entry.body = b
      /\ \E i \in DOMAIN ms : Closes(ms[i].entry) /\ ms[i].entry.body - 1 = b
  BY PlanHolds DEF Turned
<1>2. ASSUME NEW i \in DOMAIN ms, MarkedBy(side, b, ms[i].entry)
      PROVE  \E a, r : Keyed(side, c, b, a, r)
  BY <1>2 DEF Keyed
<1>3. CASE side = "open"
  <2>1. CASE c.kind = "foreach" /\ b = 1
    BY <1>3, <2>1 DEF Keyed
  <2>2. CASE \E i \in DOMAIN ms : Opens(ms[i].entry) /\ ms[i].entry.body = b
    BY <1>2, <1>3, <2>2 DEF MarkedBy
  <2> QED
    BY <1>1, <2>1, <2>2
<1>4. CASE side = "close"
  BY <1>1, <1>2, <1>4 DEF MarkedBy
<1> QED
  BY <1>3, <1>4

(* A bracket has one key. *)
LEMMA KeyOne ==
  ASSUME NEW c \in Statements, NEW side \in {"open", "close"}, NEW b,
         NEW a1, NEW r1, Keyed(side, c, b, a1, r1), NEW a2, NEW r2, Keyed(side, c, b, a2, r2)
  PROVE  a1 = a2 /\ r1 = r2
<1> DEFINE ms == MarksOf(c)
<1>1. /\ \A i \in DOMAIN ms : c.kind = "foreach" => ~Opens(ms[i].entry)
      /\ \A i, j \in DOMAIN ms :
           \/ i = j
           \/ ms[i].entry.body # ms[j].entry.body
           \/ /\ ~(Opens(ms[i].entry) /\ Opens(ms[j].entry))
              /\ ~(Closes(ms[i].entry) /\ Closes(ms[j].entry))
  BY PlanHolds DEF Turned
<1>2. \A i \in DOMAIN ms : ms[i].entry.body \in Int
  BY MarkFactsHold DEF MarkFacts
<1>3. ASSUME NEW i \in DOMAIN ms, MarkedBy(side, b, ms[i].entry),
             NEW j \in DOMAIN ms, MarkedBy(side, b, ms[j].entry)
      PROVE  i = j
  BY <1>1, <1>2, <1>3 DEF MarkedBy
<1>4. ASSUME NEW i \in DOMAIN ms, MarkedBy(side, b, ms[i].entry)
      PROVE  ~(c.kind = "foreach" /\ side = "open")
  BY <1>1, <1>4 DEF MarkedBy
<1> HIDE DEF ms
<1> QED
  BY <1>3, <1>4 DEF Keyed, ms

-----------------------------------------------------------------------------
(* The brackets of a statement are printed from its first opcode to its last:
   at its first one among the openings, after its last one among the ends. *)
LEMMA EdgeIs ==
  ASSUME NEW c \in Statements, Straight(c), NEW side \in {"open", "close"}, NEW b,
         NEW a, NEW r, Keyed(side, c, b, a, r)
  PROVE  /\ First(c) <= a /\ a <= Beyond(c)
         /\ a = First(c) => r >= 8 * LastOffset + 6
         /\ a = Beyond(c) => r <= 4 * LastOffset + 1
<1>0. LastOffset \in Nat /\ First(c) \in Int /\ Beyond(c) \in Int
  BY OpArrayAssumption, LimitsAre
<1>1. ASSUME NEW i \in DOMAIN MarksOf(c), MarkedBy(side, b, MarksOf(c)[i].entry),
             a = MarksOf(c)[i].at,
             r = 2 * EntryRank(MarksOf(c)[i].entry) + (IF side = "open" THEN 1 ELSE 0)
      PROVE  /\ First(c) <= a /\ a <= Beyond(c)
             /\ a = First(c) => r >= 8 * LastOffset + 6
             /\ a = Beyond(c) => r <= 4 * LastOffset + 1
  <2> DEFINE m == MarksOf(c)[i]
             e == m.entry
             q == IF side = "open" THEN 1 ELSE 0
  <2>1. /\ Size(e) \in Int /\ Size(e) <= LastOffset
        /\ IsEnd(e) => EntryRank(e) = 2 * Size(e)
        /\ ~IsEnd(e) => EntryRank(e) = 6 * LastOffset + 3 - 2 * Size(e)
                        \/ EntryRank(e) = 6 * LastOffset + 4 - 2 * Size(e)
    BY MarkFactsHold DEF MarkFacts
  <2>2. /\ First(c) <= a /\ a <= Beyond(c)
        /\ a = First(c) => ~IsEnd(e)
        /\ a = Beyond(c) => IsEnd(e)
    BY <1>1, OrderHolds DEF Edges
  <2>3. q \in {0, 1} /\ r = 2 * EntryRank(e) + q
    BY <1>1
  <2> HIDE DEF e, q
  <2>4. a = First(c) => r >= 8 * LastOffset + 6
    BY <1>0, <2>1, <2>2, <2>3
  <2>5. a = Beyond(c) => r <= 4 * LastOffset + 1
    BY <1>0, <2>1, <2>2, <2>3
  <2> QED
    BY <2>2, <2>4, <2>5
<1>2. CASE c.kind = "foreach" /\ a = c.cut[1]
  <2>1. /\ First(c) = c.cut[1] - 1 /\ Beyond(c) = c.cut[2] + 1
        /\ c.cut[1] \in Nat /\ c.cut[2] \in Nat /\ c.cut[1] + 4 <= c.cut[2]
    BY <1>2, ForeachCut, ForeachTable
  <2> QED
    BY <1>2, <2>1
<1> QED
  BY <1>1, <1>2 DEF Keyed

(* The order of the brackets of one statement. *)
Position(side, b) == IF side = "open" THEN 2 * b ELSE 2 * b + 1

(* The brackets of one statement are in the order of its bodies. *)
LEMMA TurnIs ==
  ASSUME NEW c \in Statements, Straight(c),
         NEW s1 \in {"open", "close"}, NEW b1, NEW a1, NEW r1, Keyed(s1, c, b1, a1, r1),
         NEW s2 \in {"open", "close"}, NEW b2, NEW a2, NEW r2, Keyed(s2, c, b2, a2, r2),
         Position(s1, b1) < Position(s2, b2)
  PROVE  Before(a1, r1, a2, r2)
<1> DEFINE ms == MarksOf(c)
<1>1. b1 \in Int /\ b2 \in Int /\ b1 \in DOMAIN Bodies(c) /\ b2 \in DOMAIN Bodies(c)
  BY KeyTyped, LimitsAre
<1>2. ASSUME NEW i \in DOMAIN ms, MarkedBy(s1, b1, ms[i].entry), a1 = ms[i].at,
             r1 = 2 * EntryRank(ms[i].entry) + (IF s1 = "open" THEN 1 ELSE 0),
             NEW j \in DOMAIN ms, MarkedBy(s2, b2, ms[j].entry), a2 = ms[j].at,
             r2 = 2 * EntryRank(ms[j].entry) + (IF s2 = "open" THEN 1 ELSE 0)
      PROVE  Before(a1, r1, a2, r2)
  <2> DEFINE o == ms[i].entry
             p == ms[j].entry
  <2>1. /\ o.body \in Int /\ p.body \in Int /\ EntryRank(o) \in Int /\ EntryRank(p) \in Int
        /\ a1 \in Int /\ a2 \in Int
    BY <1>2, MarkFactsHold DEF MarkFacts
  <2>2. /\ Opens(o) /\ Opens(p) /\ o.body < p.body => Sooner(ms[i], ms[j])
        /\ Closes(o) /\ Closes(p) /\ o.body < p.body => Sooner(ms[i], ms[j])
        /\ Opens(o) /\ Closes(p) /\ o.body < p.body => Sooner(ms[i], ms[j])
        /\ Closes(o) /\ Opens(p) /\ o.body <= p.body => i = j \/ Sooner(ms[i], ms[j])
    BY OrderHolds DEF Turns
  <2>3. Sooner(ms[i], ms[j]) <=> a1 < a2 \/ (a1 = a2 /\ EntryRank(o) < EntryRank(p))
    BY <1>2 DEF Sooner
  <2>4. Sooner(ms[i], ms[j]) => Before(a1, r1, a2, r2)
    BY <1>2, <2>1, <2>3 DEF Before
  <2>5. MarkedBy(s1, b1, o) /\ MarkedBy(s2, b2, p)
    BY <1>2
  <2>6. i = j => o = p /\ a1 = a2
    BY <1>2
  <2>7. r1 = 2 * EntryRank(o) + (IF s1 = "open" THEN 1 ELSE 0)
        /\ r2 = 2 * EntryRank(p) + (IF s2 = "open" THEN 1 ELSE 0)
    BY <1>2
  <2> HIDE DEF o, p, ms
  <2>8. CASE s1 = "open" /\ s2 = "open"
    BY <1>1, <2>1, <2>2, <2>4, <2>5, <2>8 DEF Position, MarkedBy
  <2>9. CASE s1 = "close" /\ s2 = "close"
    BY <1>1, <2>1, <2>2, <2>4, <2>5, <2>9 DEF Position, MarkedBy
  <2>10. CASE s1 = "open" /\ s2 = "close"
    BY <1>1, <2>1, <2>2, <2>4, <2>5, <2>10 DEF Position, MarkedBy
  <2>11. CASE s1 = "close" /\ s2 = "open"
    <3>1. Closes(o) /\ Opens(p) /\ o.body <= p.body
      BY <1>1, <2>1, <2>5, <2>11 DEF Position, MarkedBy
    <3>2. CASE i = j
      <4>1. r1 < r2
        BY <2>1, <2>6, <2>7, <2>11, <3>2
      <4> QED
        BY <2>6, <3>2, <4>1 DEF Before
    <3> QED
      BY <2>2, <2>4, <3>1, <3>2
  <2> QED
    BY <2>8, <2>9, <2>10, <2>11
<1>3. CASE c.kind = "foreach"
  <2>1. DOMAIN Bodies(c) = {1}
    BY <1>3, ForeachTable
  <2>2. b1 = 1 /\ b2 = 1
    BY <1>1, <2>1
  <2>3. s1 = "open" /\ s2 = "close"
    BY <2>2 DEF Position
  <2>4. \A i \in DOMAIN ms : ~Opens(ms[i].entry)
    BY <1>3, PlanHolds DEF Turned
  <2>5. a1 = c.cut[1]
    BY <2>3, <2>4 DEF Keyed, MarkedBy
  <2>6. /\ ms = <<Mark(c, c.cut[1], "FOREACH", c.cut[1], c.cut[2], 1),
                  Mark(c, c.cut[2], "FOREACH_END", c.cut[1], c.cut[2], 2)>>
        /\ c.cut[1] \in Nat /\ c.cut[2] \in Nat /\ c.cut[1] + 4 <= c.cut[2]
    BY <1>3, ForeachCut, ForeachTable
  <2>7. PICK i \in DOMAIN ms : Closes(ms[i].entry) /\ a2 = ms[i].at
    BY <2>3 DEF Keyed, MarkedBy
  <2>8. i = 2 /\ a2 = c.cut[2]
    <3>1. DOMAIN ms = {1, 2} /\ ms[1].entry.flags = "FOREACH" /\ ms[2].at = c.cut[2]
      BY <2>6 DEF Mark
    <3> QED
      BY <2>7, <3>1 DEF Closes
  <2> QED
    BY <2>5, <2>6, <2>8 DEF Before
<1>4. CASE c.kind # "foreach"
  <2>1. PICK i \in DOMAIN ms : /\ MarkedBy(s1, b1, ms[i].entry) /\ a1 = ms[i].at
                               /\ r1 = 2 * EntryRank(ms[i].entry) + (IF s1 = "open" THEN 1 ELSE 0)
    BY <1>4 DEF Keyed
  <2>2. PICK j \in DOMAIN ms : /\ MarkedBy(s2, b2, ms[j].entry) /\ a2 = ms[j].at
                               /\ r2 = 2 * EntryRank(ms[j].entry) + (IF s2 = "open" THEN 1 ELSE 0)
    BY <1>4 DEF Keyed
  <2> HIDE DEF ms
  <2> QED
    BY <1>2, <2>1, <2>2
<1> QED
  BY <1>3, <1>4

(* No two entries of the statements tie. *)
TieFree(c, d) ==
  \A i \in DOMAIN MarksOf(c), j \in DOMAIN MarksOf(d) :
    LET m == MarksOf(c)[i]  n == MarksOf(d)[j] IN
    m.at = n.at /\ (IsEnd(m.entry) <=> IsEnd(n.entry)) => Size(m.entry) # Size(n.entry)

(* What a bracket at an edge of its statement is made by. *)
LEMMA EdgeMark ==
  ASSUME NEW c \in Statements, Straight(c), NEW side \in {"open", "close"}, NEW b,
         NEW a, NEW r, Keyed(side, c, b, a, r), a = First(c) \/ a = Beyond(c)
  PROVE  \E i \in DOMAIN MarksOf(c) : LET m == MarksOf(c)[i] IN
           /\ a = m.at /\ Size(m.entry) <= Beyond(c) - First(c)
           /\ a = First(c) => ~IsEnd(m.entry)
           /\ a = Beyond(c) => IsEnd(m.entry)
           /\ r = 2 * EntryRank(m.entry) \/ r = 2 * EntryRank(m.entry) + 1
<1>1. ~(c.kind = "foreach" /\ a = c.cut[1])
  <2>1. ASSUME c.kind = "foreach", a = c.cut[1]
        PROVE  FALSE
    <3>1. /\ First(c) = c.cut[1] - 1 /\ Beyond(c) = c.cut[2] + 1
          /\ c.cut[1] \in Nat /\ c.cut[2] \in Nat /\ c.cut[1] + 4 <= c.cut[2]
      BY <2>1, ForeachCut, ForeachTable
    <3> QED
      BY <2>1, <3>1
  <2> QED
    BY <2>1
<1>2. PICK i \in DOMAIN MarksOf(c) :
        /\ a = MarksOf(c)[i].at
        /\ r = 2 * EntryRank(MarksOf(c)[i].entry) + (IF side = "open" THEN 1 ELSE 0)
  BY <1>1 DEF Keyed
<1> DEFINE m == MarksOf(c)[i]
<1>3. /\ Size(m.entry) <= Beyond(c) - First(c)
      /\ m.at = First(c) => ~IsEnd(m.entry)
      /\ m.at = Beyond(c) => IsEnd(m.entry)
  BY OrderHolds DEF Edges
<1>4. EntryRank(m.entry) \in Int
  BY MarkFactsHold DEF MarkFacts
<1>5. r = 2 * EntryRank(m.entry) \/ r = 2 * EntryRank(m.entry) + 1
  BY <1>2, <1>4
<1> QED
  BY <1>2, <1>3, <1>5

(* A body that a statement is in is opened before the brackets of the statement
   and closed after them. *)
LEMMA OpenFirst ==
  ASSUME NEW c \in Statements, Straight(c), NEW d \in Statements, Straight(d), TieFree(c, d),
         NEW x \in DOMAIN Bodies(d), Inside(c, d, x),
         NEW side \in {"open", "close"}, NEW b, NEW a, NEW r, Keyed(side, c, b, a, r),
         NEW a1, NEW r1, Keyed("open", d, x, a1, r1)
  PROVE  Before(a1, r1, a, r)
<1> DEFINE lo == Bodies(d)[x][1]
           hi == Bodies(d)[x][2]
<1>0. /\ LastOffset \in Nat /\ First(c) \in Int /\ Beyond(c) \in Int /\ lo \in Int /\ hi \in Int
      /\ a \in Int /\ r \in Int /\ a1 \in Int /\ r1 \in Int
  BY OpArrayAssumption, LimitsAre, KeyTyped
<1>1. lo <= First(c) /\ Beyond(c) <= hi
  BY DEF Inside
<1>2. First(c) <= a /\ (a = First(c) => r >= 8 * LastOffset + 6)
  BY EdgeIs
<1>3. Bodies(d)[x] # NoBody
  <2>1. First(c) <= LastOffset
    BY OrderHolds DEF Edges
  <2>2. NoBody[1] = LastOffset + 1
    BY DEF NoBody
  <2> QED
    BY <1>0, <1>1, <2>1, <2>2
<1> HIDE DEF lo, hi
<1>4. ASSUME NEW j \in DOMAIN MarksOf(d), MarkedBy("open", x, MarksOf(d)[j].entry),
             a1 = MarksOf(d)[j].at, r1 = 2 * EntryRank(MarksOf(d)[j].entry) + 1
      PROVE  Before(a1, r1, a, r)
  <2> DEFINE e == MarksOf(d)[j].entry
  <2>1. a1 < lo \/ (a1 = lo /\ (IsEnd(e) \/ Size(e) >= hi - lo))
    <3>1. Opens(e) /\ e.body = x
      BY <1>4 DEF MarkedBy
    <3> QED
      BY <1>3, <1>4, <3>1, OrderHolds DEF Enclose, lo, hi
  <2>2. /\ Size(e) \in Int /\ Size(e) <= LastOffset
        /\ IsEnd(e) => EntryRank(e) = 2 * Size(e)
        /\ ~IsEnd(e) => EntryRank(e) = 6 * LastOffset + 3 - 2 * Size(e)
                        \/ EntryRank(e) = 6 * LastOffset + 4 - 2 * Size(e)
    BY MarkFactsHold DEF MarkFacts
  <2>3. r1 = 2 * EntryRank(e) + 1
    BY <1>4
  <2>4. CASE a1 < a
    BY <2>4 DEF Before
  <2>5. CASE ~(a1 < a)
    <3>1. a1 = lo /\ a = lo /\ a = First(c) /\ (IsEnd(e) \/ Size(e) >= hi - lo)
      BY <1>0, <1>1, <1>2, <2>1, <2>5
    <3>2. r >= 8 * LastOffset + 6
      BY <1>2, <3>1
    <3>3. CASE IsEnd(e)
      <4> HIDE DEF e
      <4>1. r1 < r
        BY <1>0, <2>2, <2>3, <3>2, <3>3
      <4> QED
        BY <3>1, <4>1 DEF Before
    <3>4. CASE ~IsEnd(e)
      <4>1. PICK i \in DOMAIN MarksOf(c) :
              /\ a = MarksOf(c)[i].at /\ Size(MarksOf(c)[i].entry) <= Beyond(c) - First(c)
              /\ a = First(c) => ~IsEnd(MarksOf(c)[i].entry)
              /\ \/ r = 2 * EntryRank(MarksOf(c)[i].entry)
                 \/ r = 2 * EntryRank(MarksOf(c)[i].entry) + 1
        BY <3>1, EdgeMark
      <4> DEFINE f == MarksOf(c)[i].entry
      <4>2. /\ Size(f) \in Int /\ Size(f) <= LastOffset
            /\ ~IsEnd(f) => EntryRank(f) = 6 * LastOffset + 3 - 2 * Size(f)
                            \/ EntryRank(f) = 6 * LastOffset + 4 - 2 * Size(f)
        BY MarkFactsHold DEF MarkFacts
      <4>3. ~IsEnd(f) /\ Size(f) <= Beyond(c) - First(c)
            /\ (r = 2 * EntryRank(f) \/ r = 2 * EntryRank(f) + 1)
        BY <3>1, <4>1
      <4>4. Size(f) # Size(e)
        BY <1>4, <3>1, <3>4, <4>1, <4>3 DEF TieFree
      <4> HIDE DEF e, f
      <4>5. Size(f) < Size(e)
        <5>1. Size(f) <= Size(e)
          BY <1>0, <1>1, <2>2, <3>1, <3>4, <4>2, <4>3
        <5> QED
          BY <2>2, <4>2, <4>4, <5>1
      <4>6. r1 < r
        BY <1>0, <2>2, <2>3, <3>4, <4>2, <4>3, <4>5
      <4> QED
        BY <3>1, <4>6 DEF Before
    <3> QED
      BY <3>3, <3>4
  <2> QED
    BY <2>4, <2>5
<1>5. CASE d.kind = "foreach" /\ x = 1 /\ a1 = d.cut[1]
  <2>1. lo = d.cut[1] + 2
    BY <1>5, ForeachTable DEF lo
  <2> QED
    BY SMTT(30), <1>0, <1>1, <1>2, <1>5, <2>1, ForeachCut DEF Before
<1> QED
  BY <1>4, <1>5 DEF Keyed

(* A bracket inside a body comes before the one that closes the body. *)
LEMMA CloseLast ==
  ASSUME NEW c \in Statements, Straight(c), NEW d \in Statements, Straight(d), TieFree(c, d),
         NEW x \in DOMAIN Bodies(d), Inside(c, d, x),
         NEW side \in {"open", "close"}, NEW b, NEW a, NEW r, Keyed(side, c, b, a, r),
         NEW a2, NEW r2, Keyed("close", d, x, a2, r2)
  PROVE  Before(a, r, a2, r2)
<1> DEFINE lo == Bodies(d)[x][1]
           hi == Bodies(d)[x][2]
<1>0. /\ LastOffset \in Nat /\ First(c) \in Int /\ Beyond(c) \in Int /\ lo \in Int /\ hi \in Int
      /\ a \in Int /\ r \in Int /\ a2 \in Int /\ r2 \in Int
  BY OpArrayAssumption, LimitsAre, KeyTyped
<1>1. lo <= First(c) /\ Beyond(c) <= hi
  BY DEF Inside
<1>2. a <= Beyond(c)
  BY EdgeIs
<1>3. Bodies(d)[x] # NoBody
  <2>1. First(c) <= LastOffset
    BY OrderHolds DEF Edges
  <2>2. NoBody[1] = LastOffset + 1
    BY DEF NoBody
  <2> QED
    BY <1>0, <1>1, <2>1, <2>2
<1> HIDE DEF lo, hi
<1>4. PICK j \in DOMAIN MarksOf(d) :
        /\ MarkedBy("close", x, MarksOf(d)[j].entry)
        /\ a2 = MarksOf(d)[j].at /\ r2 = 2 * EntryRank(MarksOf(d)[j].entry) + 0
  BY DEF Keyed
<1> DEFINE e == MarksOf(d)[j].entry
<1>5. a2 > hi \/ (a2 = hi /\ IsEnd(e) /\ Size(e) >= hi - lo)
  <2>1. Closes(e) /\ e.body - 1 = x
    BY <1>4 DEF MarkedBy
  <2> QED
    BY <1>3, <1>4, <2>1, OrderHolds DEF Enclose, lo, hi
<1>6. Size(e) \in Int /\ (IsEnd(e) => EntryRank(e) = 2 * Size(e))
  BY MarkFactsHold DEF MarkFacts
<1>7. r2 = 2 * EntryRank(e) + 0
  BY <1>4
<1>8. CASE a < a2
  BY <1>8 DEF Before
<1>9. CASE ~(a < a2)
  <2>1. a2 = hi /\ a = hi /\ a = Beyond(c) /\ IsEnd(e) /\ Size(e) >= hi - lo
    BY <1>0, <1>1, <1>2, <1>5, <1>9
  <2>2. PICK i \in DOMAIN MarksOf(c) :
          /\ a = MarksOf(c)[i].at /\ Size(MarksOf(c)[i].entry) <= Beyond(c) - First(c)
          /\ a = Beyond(c) => IsEnd(MarksOf(c)[i].entry)
          /\ \/ r = 2 * EntryRank(MarksOf(c)[i].entry)
             \/ r = 2 * EntryRank(MarksOf(c)[i].entry) + 1
    BY <2>1, EdgeMark
  <2> DEFINE f == MarksOf(c)[i].entry
  <2>3. Size(f) \in Int /\ (IsEnd(f) => EntryRank(f) = 2 * Size(f))
    BY MarkFactsHold DEF MarkFacts
  <2>4. IsEnd(f) /\ Size(f) <= Beyond(c) - First(c)
        /\ (r = 2 * EntryRank(f) \/ r = 2 * EntryRank(f) + 1)
    BY <2>1, <2>2
  <2>5. Size(f) # Size(e)
    BY <1>4, <2>1, <2>2, <2>4 DEF TieFree
  <2> HIDE DEF e, f
  <2>6. Size(f) < Size(e)
    <3>1. Size(f) <= Size(e)
      BY <1>0, <1>1, <1>6, <2>1, <2>3, <2>4
    <3> QED
      BY <1>6, <2>3, <2>5, <3>1
  <2>7. r < r2
    BY <1>0, <1>6, <1>7, <2>1, <2>3, <2>4, <2>6
  <2> QED
    BY <2>1, <2>7 DEF Before
<1> QED
  BY <1>8, <1>9

(* Where a bracket of a statement is printed, a body of a statement is open
   exactly if the first statement is in it or the bracket closes it. *)
LEMMA NestIs ==
  ASSUME NEW c \in Statements, Straight(c), NEW d \in Statements, Straight(d),
         c = d \/ (Apart(c, d) /\ TieFree(c, d) /\ TieFree(d, c)),
         NEW side \in {"open", "close"}, NEW b, NEW a, NEW r, Keyed(side, c, b, a, r),
         NEW x \in DOMAIN Bodies(d), NEW a1, NEW r1, Keyed("open", d, x, a1, r1),
         NEW a2, NEW r2, Keyed("close", d, x, a2, r2)
  PROVE  Before(a1, r1, a, r) /\ ~Before(a2, r2, a, r)
           <=> Inside(c, d, x) \/ (d = c /\ side = "close" /\ x = b)
<1>0. /\ LastOffset \in Nat /\ First(c) \in Int /\ Beyond(c) \in Int
      /\ First(d) \in Int /\ Beyond(d) \in Int
      /\ a \in Int /\ r \in Int /\ a1 \in Int /\ r1 \in Int /\ a2 \in Int /\ r2 \in Int
      /\ b \in DOMAIN Bodies(c) /\ b \in Int /\ x \in Int
  BY OpArrayAssumption, LimitsAre, KeyTyped
<1>1. CASE c = d
  <2>1. ~Inside(c, d, x)
    <3>1. \/ Bodies(c)[x] = NoBody
          \/ /\ First(c) <= Bodies(c)[x][1] /\ Bodies(c)[x][2] <= Beyond(c)
             /\ First(c) < Bodies(c)[x][1] \/ Bodies(c)[x][2] < Beyond(c)
      BY <1>1, OrderHolds DEF Inner
    <3>2. First(c) <= LastOffset /\ NoBody[1] = LastOffset + 1
      BY OrderHolds DEF Edges, NoBody
    <3>3. Bodies(c)[x][1] \in Int /\ Bodies(c)[x][2] \in Int
      BY <1>1, LimitsAre
    <3> QED
      BY <1>0, <1>1, <3>1, <3>2, <3>3 DEF Inside
  <2>2. Position("open", x) < Position(side, b) => Before(a1, r1, a, r)
    BY <1>1, TurnIs
  <2>3. Position(side, b) < Position("open", x) => Before(a, r, a1, r1)
    BY <1>1, TurnIs
  <2>4. Position("close", x) < Position(side, b) => Before(a2, r2, a, r)
    BY <1>1, TurnIs
  <2>5. Position(side, b) < Position("close", x) => Before(a, r, a2, r2)
    BY <1>1, TurnIs
  <2>6. CASE side = "open"
    <3>1. x = b => a1 = a /\ r1 = r
      BY <1>1, <2>6, KeyOne
    <3> QED
      BY <1>0, <2>1, <2>2, <2>3, <2>4, <2>5, <2>6, <3>1 DEF Position, Before
  <2>7. CASE side = "close"
    <3>1. x = b => a2 = a /\ r2 = r
      BY <1>1, <2>7, KeyOne
    <3> QED
      BY <1>0, <1>1, <2>1, <2>2, <2>3, <2>4, <2>5, <2>7, <3>1 DEF Position, Before
  <2> QED
    BY <2>6, <2>7
<1>2. CASE c # d
  <2>0. Apart(c, d) /\ TieFree(c, d) /\ TieFree(d, c)
    BY <1>2
  <2>1. Inside(c, d, x) => Before(a1, r1, a, r) /\ Before(a, r, a2, r2)
    BY <2>0, OpenFirst, CloseLast
  <2>2. First(c) <= a /\ a <= Beyond(c)
        /\ (a = First(c) => r >= 8 * LastOffset + 6)
        /\ (a = Beyond(c) => r <= 4 * LastOffset + 1)
    BY EdgeIs
  <2>3. First(d) <= a1 /\ a1 <= Beyond(d)
        /\ (a1 = First(d) => r1 >= 8 * LastOffset + 6)
    BY EdgeIs
  <2>4. First(d) <= a2 /\ a2 <= Beyond(d)
        /\ (a2 = Beyond(d) => r2 <= 4 * LastOffset + 1)
    BY EdgeIs
  <2>5. CASE Beyond(c) <= First(d)
    <3>1. ~Before(a1, r1, a, r)
      BY <1>0, <2>2, <2>3, <2>5 DEF Before
    <3> QED
      BY <1>2, <2>1, <3>1
  <2>6. CASE Beyond(d) <= First(c)
    <3>1. Before(a2, r2, a, r)
      BY <1>0, <2>2, <2>4, <2>6 DEF Before
    <3>2. ~Before(a, r, a2, r2)
      BY <1>0, <3>1 DEF Before
    <3> QED
      BY <1>2, <2>1, <3>1, <3>2
  <2>7. CASE \E y \in DOMAIN Bodies(d) : Inside(c, d, y)
    <3>1. PICK y \in DOMAIN Bodies(d) : Inside(c, d, y)
      BY <2>7
    <3>2. PICK a3, r3 : Keyed("open", d, y, a3, r3)
      BY KeySome
    <3>3. PICK a4, r4 : Keyed("close", d, y, a4, r4)
      BY KeySome
    <3>4. Before(a3, r3, a, r) /\ Before(a, r, a4, r4)
      BY <2>0, <3>1, <3>2, <3>3, OpenFirst, CloseLast
    <3>5. a3 \in Int /\ r3 \in Int /\ a4 \in Int /\ r4 \in Int /\ y \in Int
      BY <3>1, <3>2, <3>3, KeyTyped, LimitsAre
    <3>6. CASE x = y
      <4>1. ~Before(a2, r2, a, r)
        BY <1>0, <2>1, <3>1, <3>6 DEF Before
      <4> QED
        BY <2>1, <3>1, <3>6, <4>1
    <3>7. CASE x < y
      <4>1. Position("close", x) < Position("open", y)
        BY <1>0, <3>5, <3>7 DEF Position
      <4>2. Before(a2, r2, a3, r3)
        BY <3>2, <4>1, TurnIs
      <4>3. Before(a2, r2, a, r) /\ ~Before(a, r, a2, r2)
        BY <1>0, <3>4, <3>5, <4>2 DEF Before
      <4> QED
        BY <1>2, <2>1, <4>3
    <3>8. CASE x > y
      <4>1. Position("close", y) < Position("open", x)
        BY <1>0, <3>5, <3>8 DEF Position
      <4>2. Before(a4, r4, a1, r1)
        BY <3>3, <4>1, TurnIs
      <4>3. ~Before(a1, r1, a, r)
        BY <1>0, <3>4, <3>5, <4>2 DEF Before
      <4> QED
        BY <1>2, <2>1, <4>3
    <3> QED
      BY <1>0, <3>5, <3>6, <3>7, <3>8
  <2>8. CASE \E y \in DOMAIN Bodies(c) : Inside(d, c, y)
    <3>1. PICK y \in DOMAIN Bodies(c) : Inside(d, c, y)
      BY <2>8
    <3>2. PICK a3, r3 : Keyed("open", c, y, a3, r3)
      BY KeySome
    <3>3. PICK a4, r4 : Keyed("close", c, y, a4, r4)
      BY KeySome
    <3>4. Before(a3, r3, a1, r1) /\ Before(a2, r2, a4, r4)
      BY <2>0, <3>1, <3>2, <3>3, OpenFirst, CloseLast
    <3>5. a3 \in Int /\ r3 \in Int /\ a4 \in Int /\ r4 \in Int /\ y \in Int
      BY <3>1, <3>2, <3>3, KeyTyped, LimitsAre
    <3>6. \/ Before(a, r, a3, r3) \/ (a = a3 /\ r = r3)
          \/ Before(a4, r4, a, r) \/ (a = a4 /\ r = r4)
      <4>1. Position(side, b) < Position("open", y) => Before(a, r, a3, r3)
        BY <3>2, TurnIs
      <4>2. Position("close", y) < Position(side, b) => Before(a4, r4, a, r)
        BY <3>3, TurnIs
      <4>3. side = "open" /\ b = y => a = a3 /\ r = r3
        BY <3>2, KeyOne
      <4>4. side = "close" /\ b = y => a = a4 /\ r = r4
        BY <3>3, KeyOne
      <4> QED
        BY <1>0, <3>5, <4>1, <4>2, <4>3, <4>4 DEF Position
    <3>7. ~Before(a1, r1, a, r) \/ Before(a2, r2, a, r)
      BY <1>0, <3>4, <3>5, <3>6 DEF Before
    <3>8. ~(Before(a1, r1, a, r) /\ Before(a, r, a2, r2))
      BY <1>0, <3>7 DEF Before
    <3> QED
      BY <1>2, <2>1, <3>7, <3>8
  <2> QED
    BY <2>0, <2>5, <2>6, <2>7, <2>8 DEF Apart
<1> QED
  BY <1>1, <1>2

-----------------------------------------------------------------------------
(* One element of a sequence is in front of another. *)
Precedes(s, o, p) == \E j \in DOMAIN s : \E i \in 1 .. j - 1 : s[i] = o /\ s[j] = p

(* The elements of two sequences, and their order, when one follows the other. *)
LEMMA ConcatIs ==
  ASSUME NEW S, NEW s \in Seq(S), NEW t \in Seq(S), NEW r, r = s \o t
  PROVE  /\ r \in Seq(S)
         /\ \A o : o \in Range(r) <=> o \in Range(s) \/ o \in Range(t)
         /\ \A o, p : Precedes(r, o, p) => \/ Precedes(s, o, p) \/ Precedes(t, o, p)
                                           \/ o \in Range(s) /\ p \in Range(t)
<1> DEFINE m == Len(s)
           n == Len(t)
<1>1. /\ r \in Seq(S) /\ Len(r) = m + n /\ m \in Nat /\ n \in Nat
      /\ DOMAIN s = 1 .. m /\ DOMAIN t = 1 .. n /\ DOMAIN r = 1 .. m + n
      /\ \A i \in 1 .. m + n : r[i] = IF i <= m THEN s[i] ELSE t[i - m]
  BY ConcatProperties, LenProperties
<1> HIDE DEF m, n
<1>2. ASSUME NEW i \in 1 .. m + n
      PROVE  \/ i \in 1 .. m /\ r[i] = s[i]
             \/ i > m /\ i - m \in 1 .. n /\ r[i] = t[i - m]
  BY <1>1
<1>3. ASSUME NEW i \in 1 .. m
      PROVE  i \in 1 .. m + n /\ r[i] = s[i]
  BY <1>1
<1>4. ASSUME NEW i \in 1 .. n
      PROVE  \E j \in 1 .. m + n : r[j] = t[i]
  <2>1. i + m \in 1 .. m + n /\ ~(i + m <= m) /\ (i + m) - m = i
    BY <1>1
  <2>2. r[i + m] = t[i]
    BY <1>1, <2>1
  <2> QED
    BY <2>1, <2>2
<1>5. ASSUME NEW o
      PROVE  o \in Range(r) <=> o \in Range(s) \/ o \in Range(t)
  <2>1. o \in Range(r) <=> \E i \in 1 .. m + n : r[i] = o
    BY <1>1 DEF Range
  <2>2. o \in Range(s) <=> \E i \in 1 .. m : s[i] = o
    BY <1>1 DEF Range
  <2>3. o \in Range(t) <=> \E i \in 1 .. n : t[i] = o
    BY <1>1 DEF Range
  <2> QED
    BY <1>2, <1>3, <1>4, <2>1, <2>2, <2>3
<1>6. ASSUME NEW o, NEW p, Precedes(r, o, p)
      PROVE  \/ Precedes(s, o, p) \/ Precedes(t, o, p)
             \/ o \in Range(s) /\ p \in Range(t)
  <2>1. PICK j \in 1 .. m + n : \E i \in 1 .. j - 1 : r[i] = o /\ r[j] = p
    BY <1>1, <1>6 DEF Precedes
  <2>2. PICK i \in 1 .. j - 1 : r[i] = o /\ r[j] = p
    BY <2>1
  <2>3. i \in 1 .. m + n /\ i < j
    BY <1>1
  <2>4. CASE j \in 1 .. m
    <3>1. r[j] = s[j] /\ r[i] = s[i]
      BY <1>1, <2>3, <2>4
    <3>2. Precedes(s, o, p)
      BY <1>1, <2>2, <2>4, <3>1 DEF Precedes
    <3> QED
      BY <3>2
  <2>5. CASE j > m
    <3>1. j - m \in 1 .. n /\ r[j] = t[j - m]
      BY <1>1, <1>2, <2>5
    <3>2. CASE i \in 1 .. m
      <4>1. r[i] = s[i]
        BY <1>3, <3>2
      <4> QED
        BY <1>1, <2>2, <3>1, <3>2, <4>1 DEF Range
    <3>3. CASE i > m
      <4>1. i - m \in 1 .. (j - m) - 1
        BY <1>1, <2>3, <3>1, <3>3
      <4>2. r[i] = t[i - m]
        BY <1>1, <1>2, <2>3, <3>3
      <4>3. Precedes(t, o, p)
        BY <1>1, <2>2, <3>1, <4>1, <4>2 DEF Precedes
      <4> QED
        BY <4>3
    <3> QED
      BY <1>1, <2>3, <3>2, <3>3
  <2> QED
    BY <1>1, <2>4, <2>5
<1> QED
  BY <1>1, <1>5, <1>6

(* What an entry prints. *)
Brackets == [side : {"open", "close"}, of : Statements, body : 0 .. 5]

PrintedBy(e, o) ==
  \/ Opens(e) /\ o = Bracket("open", e.of, e.body)
  \/ Closes(e) /\ o = Bracket("close", e.of, e.body - 1)

CloseOpen(o, p) == o.side = "close" /\ p.side = "open"

(* The elements of short sequences. *)
LEMMA ShortIs ==
  /\ \A o, p : ~Precedes(<<>>, o, p)
  /\ \A o : o \notin Range(<<>>)
  /\ \A v : \A o, p : ~Precedes(<<v>>, o, p)
  /\ \A v, o : o \in Range(<<v>>) <=> o = v
  /\ \A v, w, o, p : Precedes(<<v, w>>, o, p) => o = v /\ p = w
  /\ \A v, w, o : o \in Range(<<v, w>>) <=> o = v \/ o = w
<1>1. /\ \A o, p : ~Precedes(<<>>, o, p)
      /\ \A o : o \notin Range(<<>>)
  BY DEF Precedes, Range
<1>2. ASSUME NEW v, NEW o, NEW p
      PROVE  ~Precedes(<<v>>, o, p) /\ (o \in Range(<<v>>) <=> o = v)
  <2>1. DOMAIN <<v>> = {1} /\ <<v>>[1] = v
    OBVIOUS
  <2> QED
    BY <2>1 DEF Precedes, Range
<1>3. ASSUME NEW v, NEW w, NEW o, NEW p
      PROVE  /\ Precedes(<<v, w>>, o, p) => o = v /\ p = w
             /\ o \in Range(<<v, w>>) <=> o = v \/ o = w
  <2> DEFINE s == <<v, w>>
  <2>1. DOMAIN s = {1, 2} /\ s[1] = v /\ s[2] = w
    OBVIOUS
  <2> HIDE DEF s
  <2>2. ASSUME NEW j \in {1, 2}, NEW i \in 1 .. j - 1
        PROVE  i = 1 /\ j = 2
    OBVIOUS
  <2>3. Precedes(s, o, p) => o = v /\ p = w
    BY <2>1, <2>2 DEF Precedes
  <2>4. o \in Range(s) <=> o = v \/ o = w
    BY <2>1 DEF Range
  <2> QED
    BY <2>3, <2>4 DEF s
<1> QED
  BY <1>1, <1>2, <1>3

(* What an entry prints: the close before the open. *)
LEMMA PrintedIs ==
  ASSUME NEW e \in ControlEntries, NEW s, s = Printed(e)
  PROVE  /\ s \in Seq(Brackets)
         /\ \A o : o \in Range(s) <=> PrintedBy(e, o)
         /\ \A o, p : Precedes(s, o, p) => CloseOpen(o, p)
<1> DEFINE v == Bracket("open", e.of, e.body)
           w == Bracket("close", e.of, e.body - 1)
<1>1. e.flags \in Flags /\ e.of \in Statements /\ e.body \in 1 .. 5
  BY DEF ControlEntries
<1>2. v \in Brackets /\ w \in Brackets /\ v.side = "open" /\ w.side = "close"
  BY <1>1 DEF Bracket, Brackets
<1>3. /\ ~Opens(e) /\ ~Closes(e) => s = <<>>
      /\ Opens(e) /\ ~Closes(e) => s = <<v>>
      /\ Opens(e) /\ Closes(e) => s = <<w, v>>
      /\ ~Opens(e) /\ Closes(e) => s = <<w>>
  BY <1>1 DEF Printed, Opens, Closes, Flags
<1> HIDE DEF v, w
<1>4. CASE ~Opens(e) /\ ~Closes(e)
  BY <1>3, <1>4, ShortIs DEF PrintedBy
<1>5. CASE Opens(e) /\ ~Closes(e)
  <2>1. s = <<v>>
    BY <1>3, <1>5
  <2>2. s \in Seq(Brackets)
    BY <1>2, <2>1
  <2> QED
    BY <1>5, <2>1, <2>2, ShortIs DEF PrintedBy, v
<1>6. CASE Opens(e) /\ Closes(e)
  <2>1. s = <<w, v>>
    BY <1>3, <1>6
  <2>2. s \in Seq(Brackets)
    BY <1>2, <2>1
  <2>3. \A o, p : Precedes(s, o, p) => CloseOpen(o, p)
    BY <1>2, <2>1, ShortIs DEF CloseOpen
  <2>4. \A o : o \in Range(s) <=> o = w \/ o = v
    BY <2>1, ShortIs
  <2> QED
    BY <1>6, <2>2, <2>3, <2>4 DEF PrintedBy, v, w
<1>7. CASE ~Opens(e) /\ Closes(e)
  <2>1. s = <<w>>
    BY <1>3, <1>7
  <2>2. s \in Seq(Brackets)
    BY <1>2, <2>1
  <2> QED
    BY <1>7, <2>1, <2>2, ShortIs DEF PrintedBy, w
<1> QED
  BY <1>4, <1>5, <1>6, <1>7

(* dump_control_list is what the entries print, one after the other. *)
Dumping(entries, h) ==
  /\ h[0] = <<>>
  /\ \A n \in 1 .. Len(entries) : h[n] = h[n - 1] \o Printed(entries[n])

(* The entries are printed one after the other. *)
LEMMA DumpUnfolds ==
  ASSUME NEW entries \in Seq(ControlEntries)
  PROVE  \E h : Dumping(entries, h) /\ dump_control_list(entries) = h[Len(entries)]
<1> DEFINE N == Len(entries)
           D == Seq(Brackets)
           Step(n, x) == x \o Printed(entries[n])
           Is(f) == f = [n \in 0 .. N |-> IF n = 0 THEN <<>> ELSE Step(n, f[n - 1])]
           h == CHOOSE f : Is(f)
           steps == [z \in (1 .. N) \X D |-> Step(z[1], z[2])]
<1>1. N \in Nat
  BY LenProperties
<1>2. ASSUME NEW n \in 1 .. N, NEW x \in D
      PROVE  Step(n, x) \in D
  <2>1. entries[n] \in ControlEntries
    BY ElementOfSeq
  <2>2. Printed(entries[n]) \in D
    BY <2>1, PrintedIs
  <2> QED
    BY <2>2
<1>3. \E f \in [0 .. N -> D] : Recursion(f, N, <<>>, steps)
  <2>1. steps \in [(1 .. N) \X D -> D]
    <3> HIDE DEF D, Step, N
    <3> QED
      BY <1>2
  <2>2. <<>> \in D
    OBVIOUS
  <2> HIDE DEF N, D, steps
  <2> QED
    BY <1>1, <2>1, <2>2, PrimitiveRecursion
<1>4. PICK g \in [0 .. N -> D] :
        g[0] = <<>> /\ \A n \in 1 .. N : g[n] = steps[<<n, g[n - 1]>>]
  <2> HIDE DEF N, D, steps
  <2> QED
    BY <1>3 DEF Recursion
<1>5. Is(g)
  <2>1. ASSUME NEW n \in 0 .. N
        PROVE  g[n] = IF n = 0 THEN <<>> ELSE Step(n, g[n - 1])
    <3>1. CASE n = 0
      BY <1>4, <3>1
    <3>2. CASE n # 0
      <4>1. n \in 1 .. N /\ n - 1 \in 0 .. N
        BY <1>1, <3>2
      <4>2. g[n - 1] \in D
        BY <4>1
      <4>3. steps[<<n, g[n - 1]>>] = Step(n, g[n - 1])
        <5> HIDE DEF D, Step
        <5> QED
          BY <4>1, <4>2
      <4>4. g[n] = Step(n, g[n - 1])
        BY <1>4, <4>1, <4>3, Zenon
      <4> QED
        BY <3>2, <4>4
    <3> QED
      BY <3>1, <3>2
  <2> HIDE DEF N, D, Step
  <2> QED
    BY <2>1
<1>6. Is(h)
  BY <1>5, Zenon
<1>7. dump_control_list(entries) = h[N]
  BY DEF dump_control_list
<1> HIDE DEF h
<1>8. ASSUME NEW n \in 0 .. N
      PROVE  h[n] = IF n = 0 THEN <<>> ELSE Step(n, h[n - 1])
  <2> HIDE DEF N, Step
  <2> QED
    BY <1>6
<1>9. Dumping(entries, h)
  <2>1. h[0] = <<>>
    BY <1>1, <1>8
  <2>2. ASSUME NEW n \in 1 .. N
        PROVE  h[n] = Step(n, h[n - 1])
    <3>1. n \in 0 .. N /\ n # 0
      BY <1>1
    <3> HIDE DEF N, Step
    <3> QED
      BY <1>8, <3>1
  <2> QED
    BY <2>1, <2>2 DEF Dumping
<1> QED
  BY <1>7, <1>9

(* The order of what it prints is the order of the entries. *)
LEMMA DumpIs ==
  ASSUME NEW entries \in Seq(ControlEntries), NEW s, s = dump_control_list(entries)
  PROVE  /\ s \in Seq(Brackets)
         /\ \A o : o \in Range(s) <=> \E e \in Range(entries) : PrintedBy(e, o)
         /\ \A o, p : Precedes(s, o, p) =>
              \/ \E e, f : Precedes(entries, e, f) /\ PrintedBy(e, o) /\ PrintedBy(f, p)
              \/ \E e \in Range(entries) : PrintedBy(e, o) /\ PrintedBy(e, p) /\ CloseOpen(o, p)
<1> DEFINE N == Len(entries)
           By(n, o) == \E k \in 1 .. n : PrintedBy(entries[k], o)
           Order(n, o, p) ==
             \/ \E l \in 1 .. n : \E k \in 1 .. l - 1 :
                  PrintedBy(entries[k], o) /\ PrintedBy(entries[l], p)
             \/ \E k \in 1 .. n : PrintedBy(entries[k], o) /\ PrintedBy(entries[k], p) /\ CloseOpen(o, p)
<1>1. PICK h : Dumping(entries, h) /\ s = h[N]
  BY DumpUnfolds
<1>2. N \in Nat /\ DOMAIN entries = 1 .. N
  BY LenProperties
<1>3. ASSUME NEW n \in 1 .. N
      PROVE  entries[n] \in ControlEntries /\ h[n] = h[n - 1] \o Printed(entries[n])
  <2>1. entries[n] \in ControlEntries
    BY ElementOfSeq
  <2> QED
    BY <1>1, <2>1 DEF Dumping
<1>4. h[0] = <<>>
  BY <1>1 DEF Dumping
<1> HIDE DEF N
<1> DEFINE Good(n) == /\ h[n] \in Seq(Brackets)
                      /\ \A o : o \in Range(h[n]) <=> By(n, o)
                      /\ \A o, p : Precedes(h[n], o, p) => Order(n, o, p)
           T == {n \in 0 .. N : Good(n)}
<1>5. 0 \in T
  <2>1. \A o : o \in Range(h[0]) <=> By(0, o)
    BY <1>4, ShortIs
  <2>2. \A o, p : ~Precedes(h[0], o, p)
    BY <1>4, ShortIs
  <2>3. 0 \in 0 .. N /\ h[0] \in Seq(Brackets)
    BY <1>2, <1>4
  <2> QED
    BY <2>1, <2>2, <2>3
<1>6. ASSUME NEW n \in 1 .. N, n - 1 \in T
      PROVE  n \in T
  <2> DEFINE p1 == h[n - 1]
             q == Printed(entries[n])
             r == h[n]
  <2>1. /\ n \in 0 .. N /\ n \in 1 .. n
        /\ \A i \in 1 .. n - 1 : i \in 1 .. n
        /\ \A i \in 1 .. n : i \in 1 .. n - 1 \/ i = n
    BY <1>2
  <2>2. /\ p1 \in Seq(Brackets)
        /\ \A o : o \in Range(p1) <=> By(n - 1, o)
        /\ \A o, p : Precedes(p1, o, p) => Order(n - 1, o, p)
    BY <1>6
  <2>3. r = p1 \o q
    BY <1>3
  <2>4. /\ q \in Seq(Brackets)
        /\ \A o : o \in Range(q) <=> PrintedBy(entries[n], o)
        /\ \A o, p : Precedes(q, o, p) => CloseOpen(o, p)
    BY <1>3, PrintedIs
  <2> HIDE DEF p1, q, r
  <2>5. /\ r \in Seq(Brackets)
        /\ \A o : o \in Range(r) <=> o \in Range(p1) \/ o \in Range(q)
        /\ \A o, p : Precedes(r, o, p) => \/ Precedes(p1, o, p) \/ Precedes(q, o, p)
                                          \/ o \in Range(p1) /\ p \in Range(q)
    BY <2>2, <2>3, <2>4, ConcatIs
  <2>6. \A o : o \in Range(r) <=> By(n, o)
    BY <2>1, <2>2, <2>4, <2>5
  <2>7. ASSUME NEW o, NEW p, Precedes(r, o, p)
        PROVE  Order(n, o, p)
    <3>1. CASE Precedes(p1, o, p)
      BY <2>1, <2>2, <3>1
    <3>2. CASE Precedes(q, o, p)
      <4>1. o \in Range(q) /\ p \in Range(q)
        <5>1. Len(q) \in Nat /\ DOMAIN q = 1 .. Len(q)
          BY <2>4, LenProperties
        <5>2. PICK j \in DOMAIN q : \E i \in 1 .. j - 1 : q[i] = o /\ q[j] = p
          BY <3>2 DEF Precedes
        <5>3. PICK i \in 1 .. j - 1 : q[i] = o /\ q[j] = p
          BY <5>2
        <5>4. i \in DOMAIN q
          BY <5>1, <5>2, <5>3
        <5> QED
          BY <5>3, <5>4 DEF Range
      <4> QED
        BY <2>1, <2>4, <3>2, <4>1
    <3>3. CASE o \in Range(p1) /\ p \in Range(q)
      BY <2>1, <2>2, <2>4, <3>3
    <3> QED
      BY <2>5, <2>7, <3>1, <3>2, <3>3
  <2>8. Good(n)
    BY <2>5, <2>6, <2>7 DEF r
  <2> QED
    BY <2>1, <2>8
<1>7. T = 0 .. N
  <2> HIDE DEF Good
  <2> QED
    BY <1>2, <1>5, <1>6, Climb
<1>8. Good(N)
  <2> HIDE DEF Good
  <2>1. N \in T
    BY <1>2, <1>7
  <2> QED
    BY <2>1
<1>9. ASSUME NEW o
      PROVE  By(N, o) <=> \E e \in Range(entries) : PrintedBy(e, o)
  BY <1>2 DEF Range
<1>10. ASSUME NEW o, NEW p, Order(N, o, p)
       PROVE  \/ \E e, f : Precedes(entries, e, f) /\ PrintedBy(e, o) /\ PrintedBy(f, p)
              \/ \E e \in Range(entries) : PrintedBy(e, o) /\ PrintedBy(e, p) /\ CloseOpen(o, p)
  <2>1. CASE \E l \in 1 .. N : \E k \in 1 .. l - 1 :
               PrintedBy(entries[k], o) /\ PrintedBy(entries[l], p)
    <3>1. PICK l \in 1 .. N : \E k \in 1 .. l - 1 :
               PrintedBy(entries[k], o) /\ PrintedBy(entries[l], p)
      BY <2>1
    <3>2. PICK k \in 1 .. l - 1 : PrintedBy(entries[k], o) /\ PrintedBy(entries[l], p)
      BY <3>1
    <3>3. Precedes(entries, entries[k], entries[l])
      BY <1>2 DEF Precedes
    <3> QED
      BY <3>2, <3>3
  <2>2. CASE \E k \in 1 .. N :
               PrintedBy(entries[k], o) /\ PrintedBy(entries[k], p) /\ CloseOpen(o, p)
    BY <1>2, <2>2 DEF Range
  <2> QED
    BY <1>10, <2>1, <2>2
<1> QED
  BY <1>1, <1>8, <1>9, <1>10

-----------------------------------------------------------------------------
IsMark(c, at, e) == \E i \in DOMAIN MarksOf(c) : MarksOf(c)[i].at = at /\ MarksOf(c)[i].entry = e

KeyOf(o, a, r) == Keyed(o.side, o.of, o.body, a, r)

RankIn(e, o) == 2 * EntryRank(e) + (IF o.side = "open" THEN 1 ELSE 0)

(* What an entry of a statement is, and the bounds of its rank. *)
LEMMA IsMarkFacts ==
  ASSUME NEW c \in Statements, NEW at, NEW e, IsMark(c, at, e)
  PROVE  /\ at \in AllOffsets /\ at \in Int /\ 0 <= at /\ at <= LastOffset
         /\ e \in ControlEntries /\ e.of = c /\ EntryRank(e) \in Int
         /\ IsEnd(e) => EntryRank(e) <= 2 * LastOffset
         /\ ~IsEnd(e) => EntryRank(e) >= 4 * LastOffset + 3
         /\ Straight(c) => EntryRank(e) <= 6 * LastOffset + 4
<1>0. LastOffset \in Nat
  BY OpArrayAssumption
<1>1. PICK i \in DOMAIN MarksOf(c) : MarksOf(c)[i].at = at /\ MarksOf(c)[i].entry = e
  BY DEF IsMark
<1>2. MarkFacts(c, MarksOf(c)[i])
  BY MarkFactsHold
<1>3. Straight(c) => 0 < Size(e)
  BY <1>1, OrderHolds DEF Edges
<1>4. /\ at \in AllOffsets /\ e \in ControlEntries /\ e.of = c
      /\ Size(e) \in Int /\ Size(e) <= LastOffset /\ EntryRank(e) \in Int
      /\ IsEnd(e) => EntryRank(e) = 2 * Size(e)
      /\ ~IsEnd(e) => EntryRank(e) = 6 * LastOffset + 3 - 2 * Size(e)
                      \/ EntryRank(e) = 6 * LastOffset + 4 - 2 * Size(e)
  BY <1>1, <1>2 DEF MarkFacts
<1>5. at \in Nat /\ at <= LastOffset
  BY <1>4, OffsetIs
<1>6. IsEnd(e) => EntryRank(e) <= 2 * LastOffset
  BY <1>0, <1>4
<1>7. ~IsEnd(e) => EntryRank(e) >= 4 * LastOffset + 3
  BY <1>0, <1>4
<1>8. Straight(c) => EntryRank(e) <= 6 * LastOffset + 4
  BY <1>0, <1>3, <1>4
<1> QED
  BY <1>0, <1>4, <1>5, <1>6, <1>7, <1>8

(* What an entry of a statement prints is a bracket of the statement, with the
   offset of the entry. *)
LEMMA PrintedKey ==
  ASSUME NEW c \in Statements, NEW at, NEW e, IsMark(c, at, e), NEW o, PrintedBy(e, o)
  PROVE  /\ o \in Brackets /\ o.of = c /\ KeyOf(o, at, RankIn(e, o))
         /\ ~(c.kind = "foreach" /\ o.side = "open")
<1>1. PICK i \in DOMAIN MarksOf(c) : MarksOf(c)[i].at = at /\ MarksOf(c)[i].entry = e
  BY DEF IsMark
<1>2. e \in ControlEntries /\ e.of = c
  BY IsMarkFacts
<1>3. e.body \in 1 .. 5
  BY <1>2 DEF ControlEntries
<1>4. o \in Brackets /\ o.of = c
  BY <1>2, <1>3 DEF PrintedBy, Bracket, Brackets
<1>5. MarkedBy(o.side, o.body, e)
  BY DEF PrintedBy, Bracket, MarkedBy
<1>6. KeyOf(o, at, RankIn(e, o))
  BY <1>1, <1>4, <1>5 DEF KeyOf, Keyed, RankIn
<1>7. c.kind = "foreach" => ~Opens(e)
  BY <1>1, PlanHolds DEF Turned
<1>8. o.side = "open" => Opens(e)
  BY DEF PrintedBy, Bracket
<1> QED
  BY <1>4, <1>6, <1>7, <1>8

(* No two entries print one bracket. *)
LEMMA PrintedOnce ==
  ASSUME NEW c \in Statements, NEW at, NEW e, IsMark(c, at, e),
         NEW at2, NEW f, IsMark(c, at2, f), NEW o, PrintedBy(e, o), PrintedBy(f, o)
  PROVE  e = f
<1>1. PICK i \in DOMAIN MarksOf(c) : MarksOf(c)[i].at = at /\ MarksOf(c)[i].entry = e
  BY DEF IsMark
<1>2. PICK j \in DOMAIN MarksOf(c) : MarksOf(c)[j].at = at2 /\ MarksOf(c)[j].entry = f
  BY DEF IsMark
<1>3. \/ i = j
      \/ e.body # f.body
      \/ ~(Opens(e) /\ Opens(f)) /\ ~(Closes(e) /\ Closes(f))
  BY <1>1, <1>2, PlanHolds DEF Turned
<1>4. e.body \in Int /\ f.body \in Int
  BY <1>1, <1>2, MarkFactsHold DEF MarkFacts
<1>5. \/ (o.side = "open" /\ Opens(e) /\ o.body = e.body)
      \/ (o.side = "close" /\ Closes(e) /\ o.body = e.body - 1)
  BY DEF PrintedBy, Bracket
<1>6. \/ (o.side = "open" /\ Opens(f) /\ o.body = f.body)
      \/ (o.side = "close" /\ Closes(f) /\ o.body = f.body - 1)
  BY DEF PrintedBy, Bracket
<1>7. i = j
  BY <1>3, <1>4, <1>5, <1>6
<1> QED
  BY <1>1, <1>2, <1>7

(* A bracket is printed by an entry of its statement or by FE_FETCH. *)
LEMMA KeyPrinted ==
  ASSUME NEW o \in Brackets, NEW a, NEW r, KeyOf(o, a, r)
  PROVE  \/ \E e : IsMark(o.of, a, e) /\ PrintedBy(e, o)
         \/ o.of.kind = "foreach" /\ o = Bracket("open", o.of, 1) /\ a = o.of.cut[1]
<1>1. /\ o = [side |-> o.side, of |-> o.of, body |-> o.body]
      /\ o.side \in {"open", "close"} /\ o.of \in Statements
  BY DEF Brackets
<1>2. ASSUME NEW i \in DOMAIN MarksOf(o.of),
             MarkedBy(o.side, o.body, MarksOf(o.of)[i].entry), a = MarksOf(o.of)[i].at
      PROVE  \E e : IsMark(o.of, a, e) /\ PrintedBy(e, o)
  <2> DEFINE e == MarksOf(o.of)[i].entry
  <2>1. IsMark(o.of, a, e)
    BY <1>2 DEF IsMark
  <2>2. e.of = o.of
    BY <1>1, MarkFactsHold DEF MarkFacts
  <2>3. PrintedBy(e, o)
    BY <1>1, <1>2, <2>2 DEF MarkedBy, PrintedBy, Bracket
  <2> QED
    BY <2>1, <2>3
<1>3. CASE o.of.kind = "foreach" /\ o.side = "open" /\ o.body = 1 /\ a = o.of.cut[1]
  BY <1>1, <1>3 DEF Bracket
<1> QED
  BY <1>2, <1>3 DEF KeyOf, Keyed

(* The key of the bracket of FE_FETCH. *)
LEMMA FetchKey ==
  ASSUME NEW c \in Statements, c.kind = "foreach", NEW o, o = Bracket("open", c, 1)
  PROVE  o \in Brackets /\ o.of = c /\ o.side = "open" /\ KeyOf(o, c.cut[1], 12 * LastOffset + 20)
<1>1. o \in Brackets /\ o.of = c /\ o.side = "open" /\ o.body = 1
  BY DEF Bracket, Brackets
<1> QED
  BY <1>1 DEF KeyOf, Keyed

-----------------------------------------------------------------------------
(* dump_control_list takes the bottom element if it is for the offset: it has
   all entries for the offset, in the order in which they are printed. *)
Here(list, k) == list # <<>> /\ list[1].offset = k

EntriesHere(list, k) == IF Here(list, k) THEN list[1].ends \o list[1].opens ELSE <<>>

RestOf(list, k) == IF Here(list, k) THEN Tail(list) ELSE list

(* What a list is, element by element. *)
LEMMA ListFacts ==
  ASSUME NEW list, ListOK(list)
  PROVE  /\ list \in Seq(ListElements) /\ Len(list) \in Nat /\ DOMAIN list = 1 .. Len(list)
         /\ \A i \in 1 .. Len(list) :
              /\ list[i] \in ListElements /\ list[i].offset \in Int
              /\ list[i].offset \in AllOffsets
              /\ list[i].ends \in Seq(ControlEntries) /\ list[i].opens \in Seq(ControlEntries)
              /\ SideOK(list[i].ends, TRUE) /\ SideOK(list[i].opens, FALSE)
              /\ EntriesOf(list[i]) # {}
         /\ \A i, j \in 1 .. Len(list) : j < i => list[j].offset < list[i].offset
<1>1. list \in Seq(ListElements)
  BY DEF ListOK, Laid
<1>2. Len(list) \in Nat /\ DOMAIN list = 1 .. Len(list)
  BY <1>1, LenProperties
<1>3. ASSUME NEW i \in 1 .. Len(list)
      PROVE  /\ list[i] \in ListElements /\ list[i].offset \in Int
             /\ list[i].offset \in AllOffsets
             /\ list[i].ends \in Seq(ControlEntries) /\ list[i].opens \in Seq(ControlEntries)
             /\ SideOK(list[i].ends, TRUE) /\ SideOK(list[i].opens, FALSE)
             /\ EntriesOf(list[i]) # {}
  <2>1. list[i] \in ListElements
    BY <1>1, ElementOfSeq
  <2>2. /\ list[i].offset \in AllOffsets
        /\ list[i].ends \in Seq(ControlEntries) /\ list[i].opens \in Seq(ControlEntries)
    BY <2>1 DEF ListElements
  <2>3. list[i].offset \in Int
    BY <2>2, OffsetIs
  <2> QED
    BY <1>2, <2>1, <2>2, <2>3 DEF ListOK, Laid
<1>4. ASSUME NEW i \in 1 .. Len(list), NEW j \in 1 .. Len(list), j < i
      PROVE  list[j].offset < list[i].offset
  <2>1. j \in 1 .. i - 1
    BY <1>2, <1>4
  <2> QED
    BY <1>2, <2>1 DEF ListOK, Laid
<1> QED
  BY <1>1, <1>2, <1>3, <1>4

(* What a side is, entry by entry. *)
LEMMA SideFacts ==
  ASSUME NEW s \in Seq(ControlEntries), NEW up, SideOK(s, up)
  PROVE  /\ \A e \in Range(s) : IsEnd(e) <=> up
         /\ \A e, f : Precedes(s, e, f) => e # f /\ e \in Range(s) /\ f \in Range(s)
         /\ SideStrict(s) => \A e, f : Precedes(s, e, f) => EntryRank(e) < EntryRank(f)
<1>1. Len(s) \in Nat /\ DOMAIN s = 1 .. Len(s)
  BY LenProperties
<1>2. \A e \in Range(s) : IsEnd(e) <=> up
  BY DEF SideOK, Range
<1>3. ASSUME NEW e, NEW f, Precedes(s, e, f)
      PROVE  /\ e # f /\ e \in Range(s) /\ f \in Range(s)
             /\ SideStrict(s) => EntryRank(e) < EntryRank(f)
  <2>1. PICK j \in DOMAIN s : \E i \in 1 .. j - 1 : s[i] = e /\ s[j] = f
    BY <1>3 DEF Precedes
  <2>2. PICK i \in 1 .. j - 1 : s[i] = e /\ s[j] = f
    BY <2>1
  <2>3. i \in DOMAIN s
    BY <1>1, <2>1, <2>2
  <2> QED
    BY <2>2, <2>3 DEF SideOK, SideStrict, Range
<1> QED
  BY <1>2, <1>3

(* The bottom element has all entries for the offset. *)
LEMMA HereIs ==
  ASSUME NEW list, ListOK(list), NEW k \in Int, \A at, e : Holds(list, at, e) => at >= k,
         NEW entries, entries = EntriesHere(list, k)
  PROVE  /\ entries \in Seq(ControlEntries)
         /\ \A e : e \in Range(entries) <=> Holds(list, k, e)
         /\ \A e, f : Precedes(entries, e, f) =>
              /\ e # f /\ Holds(list, k, e) /\ Holds(list, k, f)
              /\ ListStrict(list) => (IsEnd(e) /\ ~IsEnd(f)) \/ EntryRank(e) < EntryRank(f)
<1> DEFINE N == Len(list)
<1>1. /\ list \in Seq(ListElements) /\ N \in Nat /\ DOMAIN list = 1 .. N
      /\ \A i \in 1 .. N :
           /\ list[i].offset \in Int
           /\ list[i].ends \in Seq(ControlEntries) /\ list[i].opens \in Seq(ControlEntries)
           /\ SideOK(list[i].ends, TRUE) /\ SideOK(list[i].opens, FALSE)
           /\ EntriesOf(list[i]) # {}
      /\ \A i, j \in 1 .. N : j < i => list[j].offset < list[i].offset
  BY ListFacts
<1>2. list = <<>> <=> N = 0
  BY <1>1
<1> HIDE DEF N
<1>3. CASE Here(list, k)
  <2> DEFINE x == list[1].ends
             y == list[1].opens
  <2>1. 1 \in 1 .. N /\ list[1].offset = k
    BY <1>1, <1>2, <1>3 DEF Here
  <2>2. entries = x \o y
    BY <1>3 DEF EntriesHere
  <2>3. x \in Seq(ControlEntries) /\ y \in Seq(ControlEntries) /\ SideOK(x, TRUE) /\ SideOK(y, FALSE)
    BY <1>1, <2>1
  <2>4. EntriesOf(list[1]) = Range(x) \cup Range(y)
    BY DEF EntriesOf
  <2>5. ListStrict(list) => SideStrict(x) /\ SideStrict(y)
    BY <1>1, <2>1 DEF ListStrict
  <2> HIDE DEF x, y
  <2>6. /\ entries \in Seq(ControlEntries)
        /\ \A e : e \in Range(entries) <=> e \in Range(x) \/ e \in Range(y)
        /\ \A e, f : Precedes(entries, e, f) => \/ Precedes(x, e, f) \/ Precedes(y, e, f)
                                                \/ e \in Range(x) /\ f \in Range(y)
    BY <2>2, <2>3, ConcatIs
  <2>7. ASSUME NEW e
        PROVE  Holds(list, k, e) <=> e \in Range(x) \/ e \in Range(y)
    <3>1. ASSUME NEW i \in 1 .. N, list[i].offset = k
          PROVE  i = 1
      BY <1>1, <2>1, <3>1
    <3> QED
      BY <1>1, <2>1, <2>4, <3>1 DEF Holds
  <2>8. /\ \A e \in Range(x) : IsEnd(e)
        /\ \A e, f : Precedes(x, e, f) => e # f /\ e \in Range(x) /\ f \in Range(x)
        /\ SideStrict(x) => \A e, f : Precedes(x, e, f) => EntryRank(e) < EntryRank(f)
    BY <2>3, SideFacts
  <2>9. /\ \A e \in Range(y) : ~IsEnd(e)
        /\ \A e, f : Precedes(y, e, f) => e # f /\ e \in Range(y) /\ f \in Range(y)
        /\ SideStrict(y) => \A e, f : Precedes(y, e, f) => EntryRank(e) < EntryRank(f)
    BY <2>3, SideFacts
  <2>10. ASSUME NEW e, NEW f, Precedes(entries, e, f)
         PROVE  /\ e # f /\ Holds(list, k, e) /\ Holds(list, k, f)
                /\ ListStrict(list) => (IsEnd(e) /\ ~IsEnd(f)) \/ EntryRank(e) < EntryRank(f)
    <3>1. CASE Precedes(x, e, f)
      BY <2>5, <2>7, <2>8, <3>1
    <3>2. CASE Precedes(y, e, f)
      BY <2>5, <2>7, <2>9, <3>2
    <3>3. CASE e \in Range(x) /\ f \in Range(y)
      BY <2>7, <2>8, <2>9, <3>3
    <3> QED
      BY <2>6, <2>10, <3>1, <3>2, <3>3
  <2> QED
    BY <2>6, <2>7, <2>10
<1>4. CASE ~Here(list, k)
  <2>1. entries = <<>>
    BY <1>4 DEF EntriesHere
  <2>2. ASSUME NEW e, Holds(list, k, e)
        PROVE  FALSE
    <3>1. PICK i \in 1 .. N : list[i].offset = k
      BY <1>1, <2>2 DEF Holds
    <3>2. 1 \in 1 .. N
      BY <1>1
    <3>3. PICK f : f \in EntriesOf(list[1])
      BY <1>1, <3>2
    <3>4. Holds(list, list[1].offset, f)
      BY <1>1, <3>2, <3>3 DEF Holds
    <3>5. list[1].offset >= k
      BY <3>4
    <3>6. list[1].offset # k
      BY <1>1, <1>2, <1>4, <3>2 DEF Here
    <3>7. i # 1 => list[1].offset < list[i].offset
      BY <1>1, <3>2
    <3>8. list[i].offset \in Int /\ list[1].offset \in Int
      BY <1>1, <3>2
    <3> QED
      BY <3>1, <3>5, <3>6, <3>7, <3>8
  <2>3. entries \in Seq(ControlEntries)
    BY <2>1
  <2> QED
    BY <2>1, <2>2, <2>3, ShortIs
<1> QED
  BY <1>3, <1>4

(* What is left has the other entries. *)
LEMMA RestIs ==
  ASSUME NEW list, ListOK(list), NEW k \in Int, \A at, e : Holds(list, at, e) => at >= k,
         NEW rest, rest = RestOf(list, k)
  PROVE  /\ ListOK(rest)
         /\ \A at, e : Holds(rest, at, e) <=> Holds(list, at, e) /\ at # k
         /\ ListStrict(list) => ListStrict(rest)
<1> DEFINE N == Len(list)
<1>1. /\ list \in Seq(ListElements) /\ N \in Nat /\ DOMAIN list = 1 .. N
      /\ \A i \in 1 .. N :
           /\ list[i].offset \in Int
           /\ SideOK(list[i].ends, TRUE) /\ SideOK(list[i].opens, FALSE)
           /\ EntriesOf(list[i]) # {}
      /\ \A i, j \in 1 .. N : j < i => list[j].offset < list[i].offset
  BY ListFacts
<1>2. list = <<>> <=> N = 0
  BY <1>1
<1>3. CASE Here(list, k)
  <2>1. 1 \in 1 .. N /\ list[1].offset = k
    BY <1>1, <1>2, <1>3 DEF Here
  <2>2. /\ rest \in Seq(ListElements) /\ DOMAIN rest = 1 .. N - 1
        /\ \A i \in 1 .. N - 1 : rest[i] = list[i + 1]
    <3>1. rest = Tail(list) /\ list # <<>>
      BY <1>3 DEF RestOf, Here
    <3> QED
      BY <1>1, <3>1
  <2> HIDE DEF N
  <2>3. \A i \in 1 .. N - 1 : i + 1 \in 1 .. N /\ i + 1 # 1
    BY <1>1
  <2>4. \A i \in 1 .. N : i = 1 \/ (i - 1 \in 1 .. N - 1 /\ (i - 1) + 1 = i)
    BY <1>1
  <2>5. ASSUME NEW i \in 1 .. N - 1, NEW j \in 1 .. i - 1
        PROVE  rest[j].offset < rest[i].offset
    <3>1. j \in 1 .. N - 1 /\ i + 1 \in 1 .. N /\ j + 1 \in 1 .. N /\ j + 1 < i + 1
      BY <1>1
    <3> QED
      BY <1>1, <2>2, <3>1
  <2>6. ListOK(rest)
    BY <1>1, <2>2, <2>3, <2>5 DEF ListOK, Laid
  <2>7. ASSUME NEW i \in 1 .. N, i # 1
        PROVE  list[i].offset # k
    BY <1>1, <2>1, <2>7
  <2>8. ASSUME NEW at, NEW e
        PROVE  Holds(rest, at, e) <=> Holds(list, at, e) /\ at # k
    <3>1. ASSUME Holds(rest, at, e)
          PROVE  Holds(list, at, e) /\ at # k
      <4>1. PICK i \in 1 .. N - 1 : rest[i].offset = at /\ e \in EntriesOf(rest[i])
        BY <2>2, <3>1 DEF Holds
      <4> QED
        BY <1>1, <2>2, <2>3, <2>7, <4>1 DEF Holds
    <3>2. ASSUME Holds(list, at, e), at # k
          PROVE  Holds(rest, at, e)
      <4>1. PICK i \in 1 .. N : list[i].offset = at /\ e \in EntriesOf(list[i])
        BY <1>1, <3>2 DEF Holds
      <4>2. i # 1
        BY <2>1, <3>2, <4>1
      <4>3. i - 1 \in 1 .. N - 1 /\ rest[i - 1] = list[i]
        BY <2>2, <2>4, <4>2
      <4> QED
        BY <2>2, <4>1, <4>3 DEF Holds
    <3> QED
      BY <3>1, <3>2
  <2>9. ListStrict(list) => ListStrict(rest)
    BY <1>1, <2>2, <2>3 DEF ListStrict
  <2> QED
    BY <2>6, <2>8, <2>9
<1>4. CASE ~Here(list, k)
  <2>1. rest = list
    BY <1>4 DEF RestOf
  <2> DEFINE entries == EntriesHere(list, k)
  <2>2. \A e : e \in Range(entries) <=> Holds(list, k, e)
    BY HereIs
  <2>3. entries = <<>>
    BY <1>4 DEF EntriesHere
  <2>4. \A e : ~Holds(list, k, e)
    BY <2>2, <2>3, ShortIs
  <2> QED
    BY <2>1, <2>4
<1> QED
  BY <1>3, <1>4

-----------------------------------------------------------------------------
(* The statements are apart; the list has their entries from the offset on; the
   text has the brackets of the offsets before, each once. *)
ScriptInv == script \subseteq Statements /\ \A c, d \in script : c = d \/ Apart(c, d)

StepInv ==
  /\ step \in {"scan", "dump", "done"} /\ offset \in 0 .. LastOffset + 1
  /\ step = "scan" => offset = 0
  /\ step = "done" => offset = LastOffset + 1

ListInv ==
  /\ ListOK(controlList)
  /\ \A at, e : Holds(controlList, at, e) <=> (at >= offset /\ \E d \in script : IsMark(d, at, e))

Due(o) == \E a, r : a < offset /\ KeyOf(o, a, r)

OutputInv ==
  /\ output \in Seq(Brackets)
  /\ \A o : o \in Range(output) <=> o \in Brackets /\ o.of \in script /\ Due(o)
  /\ \A o : ~Precedes(output, o, o)

CInv == ScriptInv /\ StepInv /\ ListInv /\ OutputInv

(* Without ties, and with the kinds of statement whose openings stand where
   they should, the text is in the order of the keys. *)
Orderly == ~Ties /\ StatementKinds \cap {"barefor", "defaultswitch"} = {}

TieInv == \A c, d \in script : c = d \/ TieFree(c, d)

TextInv ==
  \A o, p : Precedes(output, o, p) =>
    \A a1, r1, a2, r2 : KeyOf(o, a1, r1) /\ KeyOf(p, a2, r2) => Before(a1, r1, a2, r2)

SInv == TieInv /\ ListStrict(controlList) /\ TextInv

(* The kinds of an orderly script are straight. *)
LEMMA OrderlyStraight ==
  ASSUME Orderly, NEW c \in Statements
  PROVE  Straight(c)
BY StatementIs DEF Orderly, Straight

(* The invariant holds at first. *)
LEMMA InitCInv ==
  ASSUME ControlInit
  PROVE  CInv /\ SInv
<1>0. LastOffset \in Nat
  BY OpArrayAssumption
<1>1. script = {} /\ controlList = <<>> /\ output = <<>> /\ step = "scan" /\ offset = 0
  BY DEF ControlInit
<1>2. ScriptInv /\ StepInv /\ TieInv
  BY <1>0, <1>1 DEF ScriptInv, StepInv, TieInv
<1>3. ListOK(controlList) /\ ListStrict(controlList) /\ \A at, e : ~Holds(controlList, at, e)
  BY <1>1 DEF ListOK, Laid, ListStrict, Holds
<1>4. ListInv
  BY <1>1, <1>3 DEF ListInv
<1>5. OutputInv /\ TextInv
  <2>1. output \in Seq(Brackets)
    BY <1>1
  <2> QED
    BY <1>1, <2>1, ShortIs DEF OutputInv, TextInv
<1> QED
  BY <1>2, <1>3, <1>4, <1>5 DEF CInv, SInv

(* scan_control_list meets a statement only once. *)
LEMMA NotMet ==
  ASSUME NEW c \in Statements
  PROVE  ~MetAfter(c, c)
<1>1. Pass(c) \in Int
  BY DEF Pass
<1>2. Key(c) \in Int
  <2>1. 1 \in 1 .. Len(c.cut) /\ 2 \in 1 .. Len(c.cut) => c.cut[1] \in Nat /\ c.cut[2] \in Nat
    <3>1. c.cut \in Seq(AllOffsets)
      BY StatementIs, WhileCut, TryCut, ForeachCut, SwitchDefaultCut, DefaultSwitchCut,
         DoCut, ForCut, IfCut, SwitchCut, IfElseCut
    <3>2. \A k \in 1 .. Len(c.cut) : c.cut[k] \in AllOffsets
      BY <3>1, ElementOfSeq
    <3> QED
      BY <3>2, OffsetIs
  <2>2. Len(c.cut) \in 2 .. 4
    BY StatementIs, WhileCut, TryCut, ForeachCut, SwitchDefaultCut, DefaultSwitchCut,
       DoCut, ForCut, IfCut, SwitchCut, IfElseCut
  <2> QED
    BY <2>1, <2>2 DEF Key
<1> QED
  BY <1>1, <1>2 DEF MetAfter

(* The entries of a new statement are the ones it has whatever the list. *)
LEMMA MarksIs ==
  ASSUME CInv, step = "scan", NEW c \in Statements, \A d \in script : Apart(c, d)
  PROVE  Marks(c, controlList) = MarksOf(c)
<1>1. CASE c.kind = "do"
  <2>1. controlList \in Seq(ListElements)
    BY DEF CInv, ListInv, ListOK, Laid
  <2>2. ASSUME NEW at, NEW e, Holds(controlList, at, e)
        PROVE  ~Crosses(e, c.cut[1], c.cut[2])
    <3>1. PICK d \in script : IsMark(d, at, e)
      BY <2>2 DEF CInv, ListInv
    <3>2. PICK i \in DOMAIN MarksOf(d) : MarksOf(d)[i].entry = e
      BY <3>1 DEF IsMark
    <3>3. d \in Statements /\ Apart(c, d)
      BY <3>1 DEF CInv, ScriptInv
    <3> QED
      BY <1>1, <3>2, <3>3, NoneCrosses
  <2>3. adjust_control_list_start(controlList, c.cut[1], c.cut[2]) = c.cut[1]
    BY <2>1, <2>2, AdjustNone
  <2> QED
    BY <1>1, <2>3 DEF Marks, DoMarks, MarksOf
<1>2. CASE c.kind # "do"
  BY <1>2 DEF Marks, MarksOf
<1> QED
  BY <1>1, <1>2

-----------------------------------------------------------------------------
(* A statement is recognised: its entries are new to the list, and tie with
   none of it. *)
LEMMA RecogniseInv ==
  ASSUME CInv, NEW c \in Statements, RecogniseStatement(c)
  PROVE  CInv' /\ (Orderly /\ SInv => SInv')
<1> DEFINE ms == MarksOf(c)
           list == controlList
           new == controlList'
<1>0. /\ step = "scan" /\ offset = 0
      /\ \A d \in script : MetAfter(c, d) /\ Apart(c, d)
      /\ Ties \/ ~Tied(c, controlList)
      /\ script' = script \cup {c}
      /\ controlList' = InsertAll(controlList, Marks(c, controlList))
      /\ step' = step /\ offset' = offset /\ output' = output
  BY DEF RecogniseStatement, CInv, StepInv
<1>1. Marks(c, controlList) = ms
  BY <1>0, MarksIs
<1>2. c \notin script
  BY <1>0, NotMet
<1>3. /\ script \subseteq Statements /\ \A d, e \in script : d = e \/ Apart(d, e)
      /\ ListOK(list)
      /\ \A at, e : Holds(list, at, e) <=> (at >= 0 /\ \E d \in script : IsMark(d, at, e))
  BY <1>0 DEF CInv, ScriptInv, ListInv
<1>4. ms \in Seq(MarkTypes) /\ \A i, j \in DOMAIN ms : i # j => ms[i] # ms[j]
  BY PlanHolds DEF Typed, Distinct
<1>5. ASSUME NEW i \in DOMAIN ms
      PROVE  ~Holds(list, ms[i].at, ms[i].entry)
  <2>1. SUFFICES ASSUME Holds(list, ms[i].at, ms[i].entry) PROVE FALSE
    OBVIOUS
  <2>2. PICK d \in script : IsMark(d, ms[i].at, ms[i].entry)
    BY <1>3, <2>1
  <2>3. d \in Statements /\ ms[i].entry.of = d
    BY <1>3, <2>2, IsMarkFacts
  <2>4. ms[i].entry.of = c
    BY MarkFactsHold DEF MarkFacts
  <2> QED
    BY <1>2, <2>2, <2>3, <2>4
<1>6. AllNew(list, ms)
  BY <1>4, <1>5 DEF AllNew
<1>7. new = InsertAll(list, ms)
  BY <1>0, <1>1
<1> HIDE DEF ms, list, new
<1>8. /\ ListOK(new)
      /\ \A y, x : Holds(new, y, x) <=>
           Holds(list, y, x) \/ \E i \in DOMAIN ms : ms[i].at = y /\ ms[i].entry = x
      /\ AllBehind(list, ms) => ListStrict(new)
  BY <1>3, <1>4, <1>6, <1>7, InsertAllHolds
<1>9. ScriptInv'
  <2>1. script' \subseteq Statements
    BY <1>0, <1>3
  <2>2. ASSUME NEW d \in script', NEW e \in script'
        PROVE  d = e \/ Apart(d, e)
    <3>1. CASE d \in script /\ e \in script
      BY <1>3, <3>1
    <3>2. CASE d = c /\ e \in script
      BY <1>0, <3>2
    <3>3. CASE d \in script /\ e = c
      <4>1. Apart(c, d)
        BY <1>0, <3>3
      <4> QED
        BY <3>3, <4>1 DEF Apart
    <3> QED
      BY <1>0, <3>1, <3>2, <3>3
  <2> QED
    BY <2>1, <2>2 DEF ScriptInv
<1>10. StepInv'
  BY <1>0 DEF CInv, StepInv
<1>11. ASSUME NEW y, NEW x
       PROVE  Holds(new, y, x) <=> (y >= 0 /\ \E d \in script \cup {c} : IsMark(d, y, x))
  <2>1. (\E i \in DOMAIN ms : ms[i].at = y /\ ms[i].entry = x) <=> IsMark(c, y, x)
    BY DEF IsMark, ms
  <2>2. IsMark(c, y, x) => y >= 0
    BY IsMarkFacts
  <2> QED
    BY <1>3, <1>8, <2>1, <2>2
<1>12. ListInv'
  <2>1. ListOK(controlList')
    BY <1>8 DEF new
  <2>2. \A y, x : Holds(controlList', y, x) <=> (y >= offset' /\ \E d \in script' : IsMark(d, y, x))
    BY <1>0, <1>11 DEF new
  <2> QED
    BY <2>1, <2>2 DEF ListInv
<1>13. OutputInv'
  <2>1. ASSUME NEW o \in Brackets
        PROVE  ~Due(o)
    <3>1. ASSUME NEW a, NEW r, a < 0, KeyOf(o, a, r)
          PROVE  FALSE
      <4>1. o.of \in Statements /\ o.side \in {"open", "close"}
        BY DEF Brackets
      <4>2. a \in AllOffsets
        BY <3>1, <4>1, KeyTyped DEF KeyOf
      <4> QED
        BY <3>1, <4>2, OffsetIs
    <3> QED
      BY <1>0, <3>1 DEF Due
  <2>2. \A o : Due(o)' <=> Due(o)
    BY <1>0 DEF Due
  <2> QED
    BY <1>0, <2>1, <2>2 DEF CInv, OutputInv
<1>14. ASSUME Orderly, SInv
       PROVE  SInv'
  <2>1. Straight(c)
    BY <1>14, OrderlyStraight
  <2>2. ASSUME NEW i \in DOMAIN ms, NEW x, Holds(list, ms[i].at, x), IsEnd(x) <=> IsEnd(ms[i].entry)
        PROVE  Size(x) # Size(ms[i].entry)
    <3>1. ~Tied(c, controlList)
      BY <1>0, <1>14 DEF Orderly
    <3>2. PICK k \in DOMAIN list : list[k].offset = ms[i].at /\ x \in EntriesOf(list[k])
      BY <2>2 DEF Holds
    <3>3. /\ list[k].ends \in Seq(ControlEntries) /\ list[k].opens \in Seq(ControlEntries)
          /\ SideOK(list[k].ends, TRUE) /\ SideOK(list[k].opens, FALSE)
      BY <1>3, ListFacts
    <3>4. IsEnd(x) => x \in Range(list[k].ends)
      BY <3>2, <3>3, SideFacts DEF EntriesOf
    <3>5. ~IsEnd(x) => x \in Range(list[k].opens)
      BY <3>2, <3>3, SideFacts DEF EntriesOf
    <3>6. list[k] \in Range(list)
      BY DEF Range
    <3>7. x \in Range(IF IsEnd(ms[i].entry) THEN list[k].ends ELSE list[k].opens)
      BY <2>2, <3>4, <3>5
    <3> QED
      BY <1>1, <3>1, <3>2, <3>6, <3>7 DEF Tied, ms, list
  <2>3. AllBehind(list, ms)
    <3>1. ListStrict(list)
      BY <1>14 DEF SInv, list
    <3>2. \A i \in DOMAIN ms : NoTie(list, ms[i].at, ms[i].entry)
      BY <2>2 DEF NoTie
    <3>3. \A i, j \in DOMAIN ms :
            i < j /\ ms[i].at = ms[j].at /\ (IsEnd(ms[i].entry) <=> IsEnd(ms[j].entry)) =>
              Size(ms[i].entry) # Size(ms[j].entry)
                \/ EntryRank(ms[i].entry) < EntryRank(ms[j].entry)
      BY <2>1, OrderHolds DEF InFront, ms
    <3> QED
      BY <3>1, <3>2, <3>3 DEF AllBehind
  <2>4. ASSUME NEW d \in script
        PROVE  TieFree(c, d) /\ TieFree(d, c)
    <3>1. ASSUME NEW i \in DOMAIN ms, NEW j \in DOMAIN MarksOf(d),
                 ms[i].at = MarksOf(d)[j].at, IsEnd(ms[i].entry) <=> IsEnd(MarksOf(d)[j].entry)
          PROVE  Size(ms[i].entry) # Size(MarksOf(d)[j].entry)
      <4>1. IsMark(d, ms[i].at, MarksOf(d)[j].entry)
        BY <3>1 DEF IsMark
      <4>2. d \in Statements
        BY <1>3
      <4>3. ms[i].at >= 0
        BY <4>1, <4>2, IsMarkFacts
      <4>4. Holds(list, ms[i].at, MarksOf(d)[j].entry)
        BY <1>3, <4>1, <4>3
      <4> QED
        BY <2>2, <3>1, <4>4
    <3> QED
      BY <3>1 DEF TieFree, ms
  <2>5. TieInv'
    BY <1>0, <1>14, <2>4 DEF SInv, TieInv
  <2>6. TextInv'
    BY <1>0, <1>14 DEF SInv, TextInv
  <2>7. ListStrict(controlList')
    BY <1>8, <2>3 DEF new
  <2> QED
    BY <2>5, <2>6, <2>7 DEF SInv
<1> QED
  BY <1>9, <1>10, <1>12, <1>13, <1>14 DEF CInv

-----------------------------------------------------------------------------
(* What FE_FETCH prints at an offset. *)
LEMMA FetchIs ==
  ASSUME CInv, NEW s, s = dump_fe_fetch
  PROVE  /\ s \in Seq(Brackets)
         /\ \A o : o \in Range(s) <=>
              \E c \in script : c.kind = "foreach" /\ c.cut[1] = offset /\ o = Bracket("open", c, 1)
         /\ \A o, p : ~Precedes(s, o, p)
<1> DEFINE H == {c \in script : c.kind = "foreach" /\ c.cut[1] = offset}
           d == CHOOSE c \in H : TRUE
<1>1. s = IF H = {} THEN <<>> ELSE <<Bracket("open", d, 1)>>
  BY DEF dump_fe_fetch
<1>2. CASE H = {}
  <2>1. s = <<>>
    BY <1>1, <1>2
  <2>2. s \in Seq(Brackets)
    BY <2>1
  <2> QED
    BY <1>2, <2>1, <2>2, ShortIs
<1>3. CASE H # {}
  <2>1. d \in H
    BY <1>3
  <2>2. s = <<Bracket("open", d, 1)>>
    BY <1>1, <1>3
  <2> HIDE DEF d
  <2>3. d \in Statements /\ d \in script /\ d.kind = "foreach" /\ d.cut[1] = offset
    BY <2>1 DEF CInv, ScriptInv
  <2>4. ASSUME NEW c \in script, c.kind = "foreach", c.cut[1] = offset
        PROVE  c = d
    <3>1. c \in Statements /\ (c = d \/ Apart(c, d))
      BY <2>3 DEF CInv, ScriptInv
    <3>2. /\ First(c) = c.cut[1] - 1 /\ Beyond(c) = c.cut[2] + 1
          /\ Bodies(c) = << <<c.cut[1] + 2, c.cut[2] - 1>> >>
          /\ c.cut[1] \in Nat /\ c.cut[2] \in Nat /\ c.cut[1] + 4 <= c.cut[2]
      BY <2>4, <3>1, ForeachTable, ForeachCut
    <3>3. /\ First(d) = d.cut[1] - 1 /\ Beyond(d) = d.cut[2] + 1
          /\ Bodies(d) = << <<d.cut[1] + 2, d.cut[2] - 1>> >>
          /\ d.cut[1] \in Nat /\ d.cut[2] \in Nat /\ d.cut[1] + 4 <= d.cut[2]
      BY <2>3, ForeachTable, ForeachCut
    <3>4. ASSUME NEW b \in DOMAIN Bodies(d)
          PROVE  ~Inside(c, d, b)
      <4>1. b = 1
        BY <3>3
      <4>2. Bodies(d)[b][1] = d.cut[1] + 2
        BY <3>3, <4>1
      <4> QED
        BY <2>3, <2>4, <3>2, <3>3, <4>2 DEF Inside
    <3>5. ASSUME NEW b \in DOMAIN Bodies(c)
          PROVE  ~Inside(d, c, b)
      <4>1. b = 1
        BY <3>2
      <4>2. Bodies(c)[b][1] = c.cut[1] + 2
        BY <3>2, <4>1
      <4> QED
        BY <2>3, <2>4, <3>2, <3>3, <4>2 DEF Inside
    <3>6. ~(Beyond(c) <= First(d)) /\ ~(Beyond(d) <= First(c))
      BY <2>3, <2>4, <3>2, <3>3
    <3> QED
      BY <3>1, <3>4, <3>5, <3>6 DEF Apart
  <2>5. Bracket("open", d, 1) \in Brackets
    BY <2>3, FetchKey
  <2>6. s \in Seq(Brackets)
    BY <2>2, <2>5
  <2>7. \A o : o \in Range(s) <=> o = Bracket("open", d, 1)
    BY <2>2, ShortIs
  <2>8. \A o, p : ~Precedes(s, o, p)
    BY <2>2, ShortIs
  <2> QED
    BY <2>3, <2>4, <2>6, <2>7, <2>8
<1> QED
  BY <1>2, <1>3

-----------------------------------------------------------------------------
(* An entry at the offset of the dump, and what it prints. *)
LEMMA EntryHere ==
  ASSUME CInv, NEW e, Holds(controlList, offset, e)
  PROVE  /\ e.of \in script /\ e.of \in Statements /\ IsMark(e.of, offset, e)
         /\ EntryRank(e) \in Int
         /\ IsEnd(e) => EntryRank(e) <= 2 * LastOffset
         /\ ~IsEnd(e) => EntryRank(e) >= 4 * LastOffset + 3
         /\ Orderly => EntryRank(e) <= 6 * LastOffset + 4
         /\ \A o : PrintedBy(e, o) => /\ o \in Brackets /\ o.of = e.of /\ KeyOf(o, offset, RankIn(e, o))
                                      /\ ~(o.of.kind = "foreach" /\ o.side = "open")
<1>1. PICK d \in script : IsMark(d, offset, e)
  BY DEF CInv, ListInv
<1>2. d \in Statements
  BY DEF CInv, ScriptInv
<1>3. e.of = d /\ EntryRank(e) \in Int
      /\ (IsEnd(e) => EntryRank(e) <= 2 * LastOffset)
      /\ (~IsEnd(e) => EntryRank(e) >= 4 * LastOffset + 3)
      /\ (Straight(d) => EntryRank(e) <= 6 * LastOffset + 4)
  BY <1>1, <1>2, IsMarkFacts
<1>4. Orderly => Straight(d)
  BY <1>2, OrderlyStraight
<1>5. ASSUME NEW o, PrintedBy(e, o)
      PROVE  /\ o \in Brackets /\ o.of = d /\ KeyOf(o, offset, RankIn(e, o))
             /\ ~(d.kind = "foreach" /\ o.side = "open")
  BY <1>1, <1>2, <1>5, PrintedKey
<1> QED
  BY <1>1, <1>2, <1>3, <1>4, <1>5

(* A bracket has one key. *)
LEMMA KeyIsOne ==
  ASSUME NEW o \in Brackets, NEW a1, NEW r1, KeyOf(o, a1, r1), NEW a2, NEW r2, KeyOf(o, a2, r2)
  PROVE  a1 = a2 /\ r1 = r2 /\ a1 \in Int /\ r1 \in Int
<1>1. o.side \in {"open", "close"} /\ o.of \in Statements
  BY DEF Brackets
<1> QED
  BY <1>1, KeyOne, KeyTyped DEF KeyOf

(* An entry of a lower rank prints its brackets with lower ranks. *)
LEMMA RankStep ==
  ASSUME NEW e, NEW o, NEW f, NEW p, EntryRank(e) \in Int, EntryRank(f) \in Int,
         EntryRank(e) < EntryRank(f)
  PROVE  RankIn(e, o) < RankIn(f, p)
<1> DEFINE x == EntryRank(e)
           y == EntryRank(f)
           u == IF o.side = "open" THEN 1 ELSE 0
           v == IF p.side = "open" THEN 1 ELSE 0
<1>1. u \in {0, 1} /\ v \in {0, 1}
  OBVIOUS
<1>2. RankIn(e, o) = 2 * x + u /\ RankIn(f, p) = 2 * y + v
  BY DEF RankIn
<1>3. x \in Int /\ y \in Int /\ x < y
  OBVIOUS
<1> HIDE DEF x, y, u, v
<1>4. 2 * x + u < 2 * y + v
  BY <1>1, <1>3
<1> QED
  BY <1>2, <1>4

(* What a round of the dump prints: the brackets of the offset, each once, and
   without ties in the order of the keys. *)
LEMMA RoundIs ==
  ASSUME CInv, NEW t,
         t = dump_control_list(EntriesHere(controlList, offset)) \o dump_fe_fetch
  PROVE  /\ t \in Seq(Brackets)
         /\ \A o : o \in Range(t) <=> o \in Brackets /\ o.of \in script /\ \E r : KeyOf(o, offset, r)
         /\ \A o : ~Precedes(t, o, o)
         /\ Orderly /\ SInv => \A o, p : Precedes(t, o, p) =>
              \A r1, r2 : KeyOf(o, offset, r1) /\ KeyOf(p, offset, r2) => r1 < r2
<1> DEFINE entries == EntriesHere(controlList, offset)
           u == dump_control_list(entries)
           v == dump_fe_fetch
<1>0. /\ LastOffset \in Nat /\ offset \in Int /\ ListOK(controlList)
      /\ \A at, e : Holds(controlList, at, e) => at >= offset
      /\ script \subseteq Statements
  <2>1. LastOffset \in Nat /\ offset \in 0 .. LastOffset + 1
    BY OpArrayAssumption DEF CInv, StepInv
  <2>2. offset \in Int
    BY <2>1
  <2> QED
    BY <2>1, <2>2 DEF CInv, ListInv, ScriptInv
<1>1. /\ entries \in Seq(ControlEntries)
      /\ \A e : e \in Range(entries) <=> Holds(controlList, offset, e)
      /\ \A e, f : Precedes(entries, e, f) =>
           /\ e # f /\ Holds(controlList, offset, e) /\ Holds(controlList, offset, f)
           /\ ListStrict(controlList) => (IsEnd(e) /\ ~IsEnd(f)) \/ EntryRank(e) < EntryRank(f)
  <2> HIDE DEF entries
  <2> QED
    BY <1>0, HereIs DEF entries
<1> HIDE DEF entries
<1>2. /\ u \in Seq(Brackets)
      /\ \A o : o \in Range(u) <=> \E e \in Range(entries) : PrintedBy(e, o)
      /\ \A o, p : Precedes(u, o, p) =>
           \/ \E e, f : Precedes(entries, e, f) /\ PrintedBy(e, o) /\ PrintedBy(f, p)
           \/ \E e \in Range(entries) : PrintedBy(e, o) /\ PrintedBy(e, p) /\ CloseOpen(o, p)
  BY <1>1, DumpIs
<1>3. /\ v \in Seq(Brackets)
      /\ \A o : o \in Range(v) <=>
           \E c \in script : c.kind = "foreach" /\ c.cut[1] = offset /\ o = Bracket("open", c, 1)
      /\ \A o, p : ~Precedes(v, o, p)
  BY FetchIs
<1>4. t = u \o v
  BY DEF entries
<1> HIDE DEF u, v
<1>5. /\ t \in Seq(Brackets)
      /\ \A o : o \in Range(t) <=> o \in Range(u) \/ o \in Range(v)
      /\ \A o, p : Precedes(t, o, p) => \/ Precedes(u, o, p) \/ Precedes(v, o, p)
                                        \/ o \in Range(u) /\ p \in Range(v)
  BY <1>2, <1>3, <1>4, ConcatIs
<1>6. ASSUME NEW o \in Range(u)
      PROVE  /\ o \in Brackets /\ o.of \in script /\ ~(o.of.kind = "foreach" /\ o.side = "open")
             /\ \E e : /\ Holds(controlList, offset, e) /\ PrintedBy(e, o)
                       /\ KeyOf(o, offset, RankIn(e, o))
  <2>1. PICK e : Holds(controlList, offset, e) /\ PrintedBy(e, o)
    BY <1>1, <1>2
  <2> QED
    BY <2>1, EntryHere
<1>7. ASSUME NEW o \in Range(v)
      PROVE  /\ o \in Brackets /\ o.of \in script /\ o.of.kind = "foreach" /\ o.side = "open"
             /\ KeyOf(o, offset, 12 * LastOffset + 20)
  <2>1. PICK c \in script : c.kind = "foreach" /\ c.cut[1] = offset /\ o = Bracket("open", c, 1)
    BY <1>3
  <2>2. c \in Statements
    BY <1>0
  <2> QED
    BY <2>1, <2>2, FetchKey
<1>8. ASSUME NEW o \in Brackets, o.of \in script, NEW r, KeyOf(o, offset, r)
      PROVE  o \in Range(t)
  <2>1. CASE \E e : IsMark(o.of, offset, e) /\ PrintedBy(e, o)
    <3>1. PICK e : IsMark(o.of, offset, e) /\ PrintedBy(e, o)
      BY <2>1
    <3>2. offset >= offset
      BY <1>0
    <3>3. Holds(controlList, offset, e)
      BY <1>8, <3>1, <3>2 DEF CInv, ListInv
    <3> QED
      BY <1>1, <1>2, <1>5, <3>1, <3>3
  <2>2. CASE o.of.kind = "foreach" /\ o = Bracket("open", o.of, 1) /\ offset = o.of.cut[1]
    <3>1. o \in Range(v)
      BY <1>3, <1>8, <2>2
    <3> QED
      BY <1>5, <3>1
  <2> QED
    BY <1>8, <2>1, <2>2, KeyPrinted
<1>9. ASSUME NEW o
      PROVE  o \in Range(t) <=> o \in Brackets /\ o.of \in script /\ \E r : KeyOf(o, offset, r)
  BY <1>5, <1>6, <1>7, <1>8
<1>10. ASSUME NEW o, Precedes(t, o, o)
       PROVE  FALSE
  <2>1. CASE \E e, f : Precedes(entries, e, f) /\ PrintedBy(e, o) /\ PrintedBy(f, o)
    <3>1. PICK e, f : Precedes(entries, e, f) /\ PrintedBy(e, o) /\ PrintedBy(f, o)
      BY <2>1
    <3>2. e # f /\ Holds(controlList, offset, e) /\ Holds(controlList, offset, f)
      BY <1>1, <3>1
    <3>3. e.of \in Statements /\ IsMark(e.of, offset, e) /\ o.of = e.of
      BY <3>1, <3>2, EntryHere
    <3>4. IsMark(f.of, offset, f) /\ o.of = f.of
      BY <3>1, <3>2, EntryHere
    <3> QED
      BY <3>1, <3>2, <3>3, <3>4, PrintedOnce
  <2>2. ~CloseOpen(o, o)
    BY DEF CloseOpen
  <2>3. ~(o \in Range(u) /\ o \in Range(v))
    BY <1>6, <1>7
  <2> QED
    BY <1>2, <1>3, <1>5, <1>10, <2>1, <2>2, <2>3
<1>11. ASSUME Orderly, SInv, NEW o, NEW p, Precedes(t, o, p),
              NEW r1, NEW r2, KeyOf(o, offset, r1), KeyOf(p, offset, r2)
       PROVE  r1 < r2
  <2>1. CASE \E e, f : Precedes(entries, e, f) /\ PrintedBy(e, o) /\ PrintedBy(f, p)
    <3>1. PICK e, f : Precedes(entries, e, f) /\ PrintedBy(e, o) /\ PrintedBy(f, p)
      BY <2>1
    <3>2. /\ Holds(controlList, offset, e) /\ Holds(controlList, offset, f)
          /\ (IsEnd(e) /\ ~IsEnd(f)) \/ EntryRank(e) < EntryRank(f)
      BY <1>1, <1>11, <3>1 DEF SInv
    <3>3. /\ EntryRank(e) \in Int /\ o \in Brackets /\ KeyOf(o, offset, RankIn(e, o))
          /\ IsEnd(e) => EntryRank(e) <= 2 * LastOffset
      BY <3>1, <3>2, EntryHere
    <3>4. /\ EntryRank(f) \in Int /\ p \in Brackets /\ KeyOf(p, offset, RankIn(f, p))
          /\ ~IsEnd(f) => EntryRank(f) >= 4 * LastOffset + 3
      BY <3>1, <3>2, EntryHere
    <3>5. EntryRank(e) < EntryRank(f)
      BY <1>0, <3>2, <3>3, <3>4
    <3>6. RankIn(e, o) < RankIn(f, p)
      BY <3>3, <3>4, <3>5, RankStep
    <3>7. r1 = RankIn(e, o) /\ r2 = RankIn(f, p)
      BY <1>11, <3>3, <3>4, KeyIsOne
    <3> QED
      BY <3>6, <3>7
  <2>2. CASE \E e \in Range(entries) : PrintedBy(e, o) /\ PrintedBy(e, p) /\ CloseOpen(o, p)
    <3>1. PICK e : Holds(controlList, offset, e) /\ PrintedBy(e, o) /\ PrintedBy(e, p) /\ CloseOpen(o, p)
      BY <1>1, <2>2
    <3>2. /\ EntryRank(e) \in Int /\ o \in Brackets /\ KeyOf(o, offset, RankIn(e, o))
          /\ p \in Brackets /\ KeyOf(p, offset, RankIn(e, p))
      BY <3>1, EntryHere
    <3>3. RankIn(e, o) = 2 * EntryRank(e) + 0 /\ RankIn(e, p) = 2 * EntryRank(e) + 1
      BY <3>1 DEF RankIn, CloseOpen
    <3>4. RankIn(e, o) < RankIn(e, p)
      BY <3>2, <3>3
    <3>5. r1 = RankIn(e, o) /\ r2 = RankIn(e, p)
      BY <1>11, <3>2, KeyIsOne
    <3> QED
      BY <3>4, <3>5
  <2>3. CASE o \in Range(u) /\ p \in Range(v)
    <3>1. PICK e : /\ Holds(controlList, offset, e) /\ PrintedBy(e, o)
                   /\ KeyOf(o, offset, RankIn(e, o))
      BY <1>6, <2>3
    <3>2. o \in Brackets /\ EntryRank(e) \in Int /\ EntryRank(e) <= 6 * LastOffset + 4
      BY <1>6, <1>11, <2>3, <3>1, EntryHere
    <3>3. p \in Brackets /\ KeyOf(p, offset, 12 * LastOffset + 20)
      BY <1>7, <2>3
    <3>4. r1 = RankIn(e, o) /\ r2 = 12 * LastOffset + 20
      BY <1>11, <3>1, <3>2, <3>3, KeyIsOne
    <3>5. RankIn(e, o) = 2 * EntryRank(e) \/ RankIn(e, o) = 2 * EntryRank(e) + 1
      BY <3>2 DEF RankIn
    <3>6. 2 * EntryRank(e) + 1 < 12 * LastOffset + 20 /\ 2 * EntryRank(e) < 12 * LastOffset + 20
      BY <1>0, <3>2
    <3> QED
      BY <3>4, <3>5, <3>6
  <2> QED
    BY <1>2, <1>3, <1>5, <1>11, <2>1, <2>2, <2>3
<1> QED
  BY <1>5, <1>9, <1>10, <1>11

(* What is ordered is there. *)
LEMMA PrecedesRange ==
  ASSUME NEW S, NEW s \in Seq(S), NEW o, NEW p, Precedes(s, o, p)
  PROVE  o \in Range(s) /\ p \in Range(s)
<1>1. Len(s) \in Nat /\ DOMAIN s = 1 .. Len(s)
  BY LenProperties
<1>2. PICK j \in DOMAIN s : \E i \in 1 .. j - 1 : s[i] = o /\ s[j] = p
  BY DEF Precedes
<1>3. PICK i \in 1 .. j - 1 : s[i] = o /\ s[j] = p
  BY <1>2
<1>4. i \in DOMAIN s
  BY <1>1, <1>2, <1>3
<1> QED
  BY <1>3, <1>4 DEF Range

(* A round of the dump takes the entries of the offset from the list and prints
   their brackets behind those of the offsets before. *)
LEMMA DumpInv ==
  ASSUME CInv, dump_opcode
  PROVE  CInv' /\ (Orderly /\ SInv => SInv')
<1> DEFINE t == dump_control_list(EntriesHere(controlList, offset)) \o dump_fe_fetch
           rest == RestOf(controlList, offset)
<1>0. /\ step = "dump" /\ offset <= LastOffset /\ offset' = offset + 1
      /\ script' = script /\ step' = step
      /\ controlList' = rest /\ output' = output \o t
  <2>1. output' = (output \o dump_control_list(EntriesHere(controlList, offset))) \o dump_fe_fetch
    BY DEF dump_opcode, EntriesHere, Here
  <2>2. /\ dump_control_list(EntriesHere(controlList, offset)) \in Seq(Brackets)
        /\ dump_fe_fetch \in Seq(Brackets) /\ output \in Seq(Brackets)
    <3>1. offset \in Int /\ ListOK(controlList) /\ \A at, e : Holds(controlList, at, e) => at >= offset
      <4>1. LastOffset \in Nat /\ offset \in 0 .. LastOffset + 1
        BY OpArrayAssumption DEF CInv, StepInv
      <4> QED
        BY <4>1 DEF CInv, ListInv
    <3>2. EntriesHere(controlList, offset) \in Seq(ControlEntries)
      BY <3>1, HereIs
    <3> QED
      BY <3>2, DumpIs, FetchIs DEF CInv, OutputInv
  <2>3. \A x, y, z \in Seq(Brackets) : (x \o y) \o z = x \o (y \o z)
    BY ConcatAssociative
  <2>4. output' = output \o t
    BY <2>1, <2>2, <2>3
  <2> QED
    BY <2>4 DEF dump_opcode, RestOf, Here
<1>1. /\ LastOffset \in Nat /\ offset \in Int /\ offset \in 0 .. LastOffset
      /\ script \subseteq Statements
      /\ ListOK(controlList)
      /\ \A at, e : Holds(controlList, at, e) <=> (at >= offset /\ \E d \in script : IsMark(d, at, e))
  <2>1. LastOffset \in Nat /\ offset \in 0 .. LastOffset + 1
    BY OpArrayAssumption DEF CInv, StepInv
  <2> QED
    BY <1>0, <2>1 DEF CInv, ListInv, ScriptInv
<1>2. /\ t \in Seq(Brackets)
      /\ \A o : o \in Range(t) <=> o \in Brackets /\ o.of \in script /\ \E r : KeyOf(o, offset, r)
      /\ \A o : ~Precedes(t, o, o)
      /\ Orderly /\ SInv => \A o, p : Precedes(t, o, p) =>
           \A r1, r2 : KeyOf(o, offset, r1) /\ KeyOf(p, offset, r2) => r1 < r2
  BY RoundIs
<1>3. /\ ListOK(rest)
      /\ \A at, e : Holds(rest, at, e) <=> Holds(controlList, at, e) /\ at # offset
      /\ ListStrict(controlList) => ListStrict(rest)
  BY <1>1, RestIs
<1> HIDE DEF t, rest
<1>4. /\ output \in Seq(Brackets)
      /\ \A o : o \in Range(output) <=> o \in Brackets /\ o.of \in script /\ Due(o)
      /\ \A o : ~Precedes(output, o, o)
  BY DEF CInv, OutputInv
<1>5. /\ output' \in Seq(Brackets)
      /\ \A o : o \in Range(output') <=> o \in Range(output) \/ o \in Range(t)
      /\ \A o, p : Precedes(output', o, p) => \/ Precedes(output, o, p) \/ Precedes(t, o, p)
                                              \/ o \in Range(output) /\ p \in Range(t)
  BY <1>0, <1>2, <1>4, ConcatIs
<1>6. ScriptInv' /\ StepInv'
  <2>1. offset' \in 0 .. LastOffset + 1
    BY <1>0, <1>1
  <2> QED
    BY <1>0, <2>1 DEF CInv, ScriptInv, StepInv
<1>7. ListInv'
  <2>1. ASSUME NEW at, NEW e
        PROVE  Holds(rest, at, e) <=> (at >= offset + 1 /\ \E d \in script : IsMark(d, at, e))
    <3>1. ASSUME NEW d \in script, IsMark(d, at, e)
          PROVE  at >= offset + 1 <=> (at >= offset /\ at # offset)
      <4>1. at \in Int
        BY <1>1, <3>1, IsMarkFacts
      <4> QED
        BY <1>1, <4>1
    <3> QED
      BY <1>1, <1>3, <3>1
  <2> QED
    BY <1>0, <1>3, <2>1 DEF ListInv
<1>8. ASSUME NEW o \in Brackets
      PROVE  Due(o)' <=> Due(o) \/ \E r : KeyOf(o, offset, r)
  <2>1. Due(o)' <=> \E a, r : a < offset + 1 /\ KeyOf(o, a, r)
    BY <1>0 DEF Due
  <2>2. ASSUME NEW a, NEW r, KeyOf(o, a, r)
        PROVE  a < offset + 1 <=> (a < offset \/ a = offset)
    <3>1. a \in Int
      BY <2>2, KeyIsOne
    <3> QED
      BY <1>1, <3>1
  <2> QED
    BY <2>1, <2>2 DEF Due
<1>9. ASSUME NEW o
      PROVE  o \in Range(output') <=> o \in Brackets /\ o.of \in script /\ Due(o)'
  BY <1>2, <1>4, <1>5, <1>8
<1>10. ASSUME NEW o \in Range(output), NEW p \in Range(t), NEW a1, NEW r1, KeyOf(o, a1, r1),
              NEW a2, NEW r2, KeyOf(p, a2, r2)
       PROVE  a1 < a2 /\ a2 = offset
  <2>1. o \in Brackets /\ p \in Brackets
    BY <1>2, <1>4
  <2>2. PICK a, r : a < offset /\ KeyOf(o, a, r)
    BY <1>4 DEF Due
  <2>3. PICK r3 : KeyOf(p, offset, r3)
    BY <1>2
  <2>4. a1 = a
    BY <1>10, <2>1, <2>2, KeyIsOne
  <2>5. a2 = offset
    BY <1>10, <2>1, <2>3, KeyIsOne
  <2> QED
    BY <2>2, <2>4, <2>5
<1>11. ASSUME NEW o
       PROVE  ~Precedes(output', o, o)
  <2>1. ~(o \in Range(output) /\ o \in Range(t))
    <3>1. SUFFICES ASSUME o \in Range(output), o \in Range(t) PROVE FALSE
      OBVIOUS
    <3>2. PICK a, r : KeyOf(o, a, r)
      BY <1>2, <3>1
    <3>3. a < a /\ a \in Int
      BY <1>1, <1>10, <3>1, <3>2
    <3> QED
      BY <3>3
  <2> QED
    BY <1>2, <1>4, <1>5, <2>1
<1>12. OutputInv'
  BY <1>0, <1>5, <1>9, <1>11 DEF OutputInv
<1>13. ASSUME Orderly, SInv
       PROVE  SInv'
  <2>1. ASSUME NEW o, NEW p, Precedes(output', o, p),
               NEW a1, NEW r1, NEW a2, NEW r2, KeyOf(o, a1, r1), KeyOf(p, a2, r2)
        PROVE  Before(a1, r1, a2, r2)
    <3>1. CASE Precedes(output, o, p)
      BY <1>13, <2>1, <3>1 DEF SInv, TextInv
    <3>2. CASE Precedes(t, o, p)
      <4>1. o \in Range(t) /\ p \in Range(t)
        BY <1>2, <3>2, PrecedesRange
      <4>2. PICK r3, r4 : KeyOf(o, offset, r3) /\ KeyOf(p, offset, r4)
        BY <1>2, <4>1
      <4>3. r3 < r4
        BY <1>2, <1>13, <3>2, <4>2
      <4>4. o \in Brackets /\ p \in Brackets
        BY <1>2, <4>1
      <4>5. a1 = offset /\ r1 = r3
        BY <2>1, <4>2, <4>4, KeyIsOne
      <4>6. a2 = offset /\ r2 = r4
        BY <2>1, <4>2, <4>4, KeyIsOne
      <4> QED
        BY <4>3, <4>5, <4>6 DEF Before
    <3>3. CASE o \in Range(output) /\ p \in Range(t)
      BY <1>10, <2>1, <3>3 DEF Before
    <3> QED
      BY <1>5, <2>1, <3>1, <3>2, <3>3
  <2>2. TextInv'
    BY <2>1 DEF TextInv
  <2>3. TieInv' /\ ListStrict(controlList')
    BY <1>0, <1>3, <1>13 DEF SInv, TieInv
  <2> QED
    BY <2>2, <2>3 DEF SInv
<1> QED
  BY <1>6, <1>7, <1>12, <1>13 DEF CInv

(* The other steps move on to the next phase. *)
LEMMA PhaseInv ==
  ASSUME CInv, EndScan \/ EndDump \/ UNCHANGED controlVars
  PROVE  CInv' /\ (SInv => SInv')
<1>1. /\ script' = script /\ controlList' = controlList /\ offset' = offset /\ output' = output
      /\ \/ step' = "dump" /\ step = "scan"
         \/ step' = "done" /\ offset > LastOffset
         \/ step' = step
  BY DEF EndScan, EndDump, LastDump, controlVars
<1>2. LastOffset \in Nat /\ offset \in 0 .. LastOffset + 1
  BY OpArrayAssumption DEF CInv, StepInv
<1>3. step' = "done" => offset = LastOffset + 1
  BY <1>1, <1>2 DEF CInv, StepInv
<1>4. StepInv'
  BY <1>1, <1>3 DEF CInv, StepInv
<1>5. ScriptInv' /\ ListInv'
  BY <1>1 DEF CInv, ScriptInv, ListInv
<1>6. OutputInv'
  <2>1. \A o : Due(o)' <=> Due(o)
    BY <1>1 DEF Due
  <2> QED
    BY <1>1, <2>1 DEF CInv, OutputInv
<1>7. SInv => SInv'
  BY <1>1 DEF SInv, TieInv, TextInv
<1> QED
  BY <1>4, <1>5, <1>6, <1>7 DEF CInv

(* Every step keeps the invariant. *)
LEMMA StepKeeps ==
  ASSUME CInv, [ControlNext]_controlVars
  PROVE  CInv' /\ (Orderly /\ SInv => SInv')
<1>1. ASSUME scan_control_list
      PROVE  CInv' /\ (Orderly /\ SInv => SInv')
  BY <1>1, RecogniseInv DEF scan_control_list
<1>2. ASSUME dump_opcode
      PROVE  CInv' /\ (Orderly /\ SInv => SInv')
  BY <1>2, DumpInv
<1>3. ASSUME EndScan \/ EndDump \/ UNCHANGED controlVars
      PROVE  CInv' /\ (SInv => SInv')
  BY <1>3, PhaseInv
<1> QED
  BY <1>1, <1>2, <1>3 DEF ControlNext

(* The invariant always holds, *)
LEMMA CInvHolds == ControlSpec => []CInv
<1>1. ControlInit => CInv
  BY InitCInv
<1>2. CInv /\ [ControlNext]_controlVars => CInv'
  BY StepKeeps
<1> QED
  BY <1>1, <1>2, PTL DEF ControlSpec

(* and so does the order, where nothing ties. *)
LEMMA SInvHolds ==
  ASSUME Orderly
  PROVE  ControlSpec => [](CInv /\ SInv)
<1>1. ControlInit => CInv /\ SInv
  BY InitCInv
<1>2. CInv /\ SInv /\ [ControlNext]_controlVars => CInv' /\ SInv'
  BY StepKeeps
<1> QED
  BY <1>1, <1>2, PTL DEF ControlSpec

-----------------------------------------------------------------------------
(* A bracket that has a key is one the dump can print. *)
LEMMA KeyBracket ==
  ASSUME NEW c \in Statements, NEW side \in {"open", "close"}, NEW b, NEW a, NEW r,
         Keyed(side, c, b, a, r), NEW o, o = Bracket(side, c, b)
  PROVE  o \in Brackets /\ o.of = c /\ o.side = side /\ o.body = b /\ KeyOf(o, a, r)
<1>1. o.of = c /\ o.side = side /\ o.body = b
  BY DEF Bracket
<1>2. b \in 0 .. 5
  <2>1. ASSUME NEW i \in DOMAIN MarksOf(c), MarkedBy(side, b, MarksOf(c)[i].entry)
        PROVE  b \in 0 .. 5
    <3>1. MarksOf(c)[i].entry.body \in 1 .. 5
      BY MarkFactsHold DEF MarkFacts
    <3>2. b = MarksOf(c)[i].entry.body \/ b = MarksOf(c)[i].entry.body - 1
      BY <2>1 DEF MarkedBy
    <3> QED
      BY <3>1, <3>2
  <2> QED
    BY <2>1 DEF Keyed
<1>3. o \in Brackets
  BY <1>2 DEF Bracket, Brackets
<1> QED
  BY <1>1, <1>3 DEF KeyOf

(* A bracket of the text is due: it has a key at an offset before. *)
LEMMA InText ==
  ASSUME CInv
  PROVE  /\ Len(output) \in Nat /\ DOMAIN output = 1 .. Len(output)
         /\ \A i \in 1 .. Len(output) :
              /\ output[i] \in Range(output) /\ output[i] \in Brackets
              /\ output[i].of \in script
              /\ output[i].of \in Statements /\ output[i].side \in {"open", "close"}
              /\ output[i].body \in DOMAIN Bodies(output[i].of)
              /\ output[i] = Bracket(output[i].side, output[i].of, output[i].body)
              /\ \E a, r : a < offset /\ KeyOf(output[i], a, r)
<1>1. Len(output) \in Nat /\ DOMAIN output = 1 .. Len(output)
  BY LenProperties DEF CInv, OutputInv
<1>2. ASSUME NEW i \in 1 .. Len(output)
      PROVE  /\ output[i] \in Range(output) /\ output[i] \in Brackets /\ output[i].of \in script
             /\ output[i].of \in Statements /\ output[i].side \in {"open", "close"}
             /\ output[i].body \in DOMAIN Bodies(output[i].of)
             /\ output[i] = Bracket(output[i].side, output[i].of, output[i].body)
             /\ \E a, r : a < offset /\ KeyOf(output[i], a, r)
  <2>1. output[i] \in Range(output)
    BY <1>1 DEF Range
  <2>2. output[i] \in Brackets /\ output[i].of \in script /\ Due(output[i])
    BY <2>1 DEF CInv, OutputInv
  <2>3. PICK a, r : a < offset /\ KeyOf(output[i], a, r)
    BY <2>2 DEF Due
  <2>4. output[i].of \in Statements /\ output[i].side \in {"open", "close"}
    BY <2>2 DEF Brackets
  <2>5. output[i].body \in DOMAIN Bodies(output[i].of)
    BY <2>3, <2>4, KeyTyped DEF KeyOf
  <2>6. output[i] = Bracket(output[i].side, output[i].of, output[i].body)
    BY <2>2 DEF Brackets, Bracket
  <2> QED
    BY <2>1, <2>2, <2>3, <2>4, <2>5, <2>6
<1> QED
  BY <1>1, <1>2

(* The invariant gives the types, *)
LEMMA TypeFollows ==
  ASSUME CInv
  PROVE  ControlTypeOK
<1>1. ListOK(controlList)
  BY DEF CInv, ListInv
<1>2. ASSUME NEW k \in DOMAIN controlList
      PROVE  LET l == controlList[k] IN
             /\ l.offset \in AllOffsets
             /\ \A j \in 1 .. k - 1 : controlList[j].offset < l.offset
             /\ \A x \in DOMAIN l.ends : \A y \in 1 .. x - 1 : Size(l.ends[y]) <= Size(l.ends[x])
             /\ \A x \in DOMAIN l.opens : \A y \in 1 .. x - 1 : Size(l.opens[y]) >= Size(l.opens[x])
  <2>1. /\ controlList[k].offset \in AllOffsets
        /\ SideOK(controlList[k].ends, TRUE) /\ SideOK(controlList[k].opens, FALSE)
    BY <1>1, ListFacts
  <2>2. \A j \in 1 .. k - 1 : controlList[j].offset < controlList[k].offset
    BY <1>1 DEF ListOK, Laid
  <2> QED
    BY <2>1, <2>2 DEF SideOK, Fits
<1> QED
  BY <1>2 DEF ControlTypeOK, CInv, ScriptInv, StepInv

(* an empty list and each bracket once at the end, *)
LEMMA FinishedFollows ==
  ASSUME CInv
  PROVE  Finished
<1>1. SUFFICES ASSUME step = "done"
               PROVE  /\ controlList = <<>>
                      /\ \A c \in script : \A b \in DOMAIN Bodies(c), s \in {"open", "close"} :
                           Cardinality({i \in DOMAIN output : output[i] = Bracket(s, c, b)}) = 1
                      /\ \A i \in DOMAIN output : output[i].of \in script
  BY DEF Finished
<1>2. offset = LastOffset + 1 /\ LastOffset \in Nat
  BY <1>1, OpArrayAssumption DEF CInv, StepInv
<1>3. \A a \in AllOffsets : a \in Int /\ a < offset
  BY <1>2, OffsetIs
<1>4. controlList = <<>>
  <2>1. ListOK(controlList)
    BY DEF CInv, ListInv
  <2>2. /\ controlList \in Seq(ListElements) /\ Len(controlList) \in Nat
        /\ DOMAIN controlList = 1 .. Len(controlList)
        /\ \A i \in 1 .. Len(controlList) :
             controlList[i].offset \in AllOffsets /\ EntriesOf(controlList[i]) # {}
    BY <2>1, ListFacts
  <2>3. ASSUME 1 \in 1 .. Len(controlList)
        PROVE  FALSE
    <3>1. PICK e : e \in EntriesOf(controlList[1])
      BY <2>2, <2>3
    <3>2. Holds(controlList, controlList[1].offset, e)
      BY <2>2, <2>3, <3>1 DEF Holds
    <3>3. controlList[1].offset >= offset
      BY <3>2 DEF CInv, ListInv
    <3>4. controlList[1].offset \in AllOffsets
      BY <2>2, <2>3
    <3> QED
      BY <1>2, <1>3, <3>3, <3>4
  <2>4. Len(controlList) = 0
    BY <2>2, <2>3
  <2> QED
    BY <2>2, <2>4
<1>5. ASSUME NEW c \in script, NEW b \in DOMAIN Bodies(c), NEW s \in {"open", "close"}
      PROVE  Cardinality({i \in DOMAIN output : output[i] = Bracket(s, c, b)}) = 1
  <2> DEFINE o == Bracket(s, c, b)
             at == {i \in DOMAIN output : output[i] = o}
  <2>1. c \in Statements
    BY DEF CInv, ScriptInv
  <2>2. PICK a, r : Keyed(s, c, b, a, r)
    BY <2>1, KeySome
  <2>3. o \in Brackets /\ o.of = c /\ KeyOf(o, a, r)
    BY <2>1, <2>2, KeyBracket
  <2>4. a < offset
    BY <1>3, <2>1, <2>2, KeyTyped
  <2>5. o \in Range(output)
    BY <2>3, <2>4 DEF CInv, OutputInv, Due
  <2>6. PICK i \in DOMAIN output : output[i] = o
    BY <2>5 DEF Range
  <2> HIDE DEF o
  <2>7. ASSUME NEW j \in DOMAIN output, output[j] = o
        PROVE  j = i
    <3>1. i \in Nat /\ j \in Nat /\ (i < j => i \in 1 .. j - 1) /\ (j < i => j \in 1 .. i - 1)
      <4>1. i \in 1 .. Len(output) /\ j \in 1 .. Len(output) /\ Len(output) \in Nat
        BY InText
      <4> QED
        BY <4>1
    <3>2. ~Precedes(output, o, o)
      BY DEF CInv, OutputInv
    <3>3. ~(i < j) /\ ~(j < i)
      BY <2>6, <2>7, <3>1, <3>2 DEF Precedes
    <3> QED
      BY <3>1, <3>3
  <2>8. at = {i}
    BY <2>6, <2>7
  <2>9. Cardinality({i}) = 1
    BY FS_Singleton
  <2> QED
    BY <2>8, <2>9 DEF o
<1>6. \A i \in DOMAIN output : output[i].of \in script
  BY InText
<1> QED
  BY <1>4, <1>5, <1>6

(* Without ties the text has a bracket before another just when its key is. *)
LEMMA BeforeIs ==
  ASSUME CInv, TextInv, NEW i \in DOMAIN output, NEW p \in Brackets, p.of \in script,
         NEW a, NEW r, KeyOf(output[i], a, r), NEW a1, NEW r1, KeyOf(p, a1, r1)
  PROVE  (\E j \in 1 .. i - 1 : output[j] = p) <=> Before(a1, r1, a, r)
<1> DEFINE o == output[i]
           n == Len(output)
<1>1. n \in Nat /\ DOMAIN output = 1 .. n /\ i \in 1 .. n /\ offset \in Int
  <2>1. LastOffset \in Nat /\ offset \in 0 .. LastOffset + 1
    BY OpArrayAssumption DEF CInv, StepInv
  <2>2. offset \in Int
    BY <2>1
  <2> QED
    BY <2>2, InText
<1>2. o \in Brackets /\ \E x, y : x < offset /\ KeyOf(o, x, y)
  BY <1>1, InText
<1>3. a \in Int /\ r \in Int /\ a1 \in Int /\ r1 \in Int /\ a < offset
  BY <1>2, KeyIsOne
<1>4. ASSUME NEW j \in 1 .. i - 1, output[j] = p
      PROVE  Before(a1, r1, a, r)
  <2>1. Precedes(output, p, o)
    BY <1>4 DEF Precedes
  <2> QED
    BY <2>1 DEF TextInv
<1>5. ASSUME Before(a1, r1, a, r)
      PROVE  \E j \in 1 .. i - 1 : output[j] = p
  <2>1. a1 < offset
    BY <1>1, <1>3, <1>5 DEF Before
  <2>2. p \in Range(output)
    BY <2>1 DEF CInv, OutputInv, Due
  <2>3. PICK k \in 1 .. n : output[k] = p
    BY <1>1, <2>2 DEF Range
  <2>4. CASE k = i
    <3>1. a1 = a /\ r1 = r
      BY <2>3, <2>4, KeyIsOne
    <3> QED
      BY <1>3, <1>5, <3>1 DEF Before
  <2>5. CASE k > i
    <3>1. i \in 1 .. k - 1 /\ k \in DOMAIN output
      BY <1>1, <2>5
    <3>2. Precedes(output, o, p)
      BY <2>3, <3>1 DEF Precedes
    <3>3. Before(a, r, a1, r1)
      BY <3>2 DEF TextInv
    <3> QED
      BY <1>3, <1>5, <3>3 DEF Before
  <2>6. CASE k < i
    BY <1>1, <2>3, <2>6
  <2> QED
    BY <1>1, <2>4, <2>5, <2>6
<1> QED
  BY <1>4, <1>5

(* Which bodies are open in front of a bracket. *)
LEMMA OpenIs ==
  ASSUME CInv, NEW i \in DOMAIN output, NEW z
  PROVE  z \in OpenBefore(i) <=>
           \E d \in script : \E x \in DOMAIN Bodies(d) :
             /\ z = <<d, x>>
             /\ \E j \in 1 .. i - 1 : output[j] = Bracket("open", d, x)
             /\ ~\E j \in 1 .. i - 1 : output[j] = Bracket("close", d, x)
<1> DEFINE Side(s) == {<<output[j].of, output[j].body>> :
                         j \in {k \in 1 .. i - 1 : output[k].side = s}}
           Has(s, d, x) == \E j \in 1 .. i - 1 : output[j] = Bracket(s, d, x)
<1>1. OpenBefore(i) = Side("open") \ Side("close")
  BY DEF OpenBefore
<1>2. \A j \in 1 .. i - 1 : j \in 1 .. Len(output)
  <2>1. i \in 1 .. Len(output) /\ Len(output) \in Nat
    BY InText
  <2> QED
    BY <2>1
<1>3. ASSUME NEW s \in {"open", "close"}, NEW d, NEW x
      PROVE  <<d, x>> \in Side(s) <=> Has(s, d, x)
  <2>1. ASSUME <<d, x>> \in Side(s)
        PROVE  Has(s, d, x)
    <3>1. PICK j \in 1 .. i - 1 : output[j].side = s /\ output[j].of = d /\ output[j].body = x
      BY <2>1
    <3>2. output[j] = Bracket(s, d, x)
      BY <1>2, <3>1, InText
    <3> QED
      BY <3>2
  <2>2. ASSUME Has(s, d, x)
        PROVE  <<d, x>> \in Side(s)
    <3>1. PICK j \in 1 .. i - 1 : output[j] = Bracket(s, d, x)
      BY <2>2
    <3>2. output[j].side = s /\ output[j].of = d /\ output[j].body = x
      BY <3>1 DEF Bracket
    <3> QED
      BY <3>2
  <2> QED
    BY <2>1, <2>2
<1>4. ASSUME z \in Side("open")
      PROVE  \E d \in script : \E x \in DOMAIN Bodies(d) : z = <<d, x>>
  <2>1. PICK j \in 1 .. i - 1 : z = <<output[j].of, output[j].body>>
    BY <1>4
  <2> QED
    BY <1>2, <2>1, InText
<1> HIDE DEF Side
<1> QED
  BY <1>1, <1>3, <1>4

(* and with the order the nesting of the text. *)
LEMMA NestedFollows ==
  ASSUME Orderly, CInv, SInv
  PROVE  WellNested
<1>1. SUFFICES ASSUME NEW i \in DOMAIN output
               PROVE  LET o == output[i] IN
                      OpenBefore(i) = BodiesAround(o.of) \cup
                        (IF o.side = "close" THEN {<<o.of, o.body>>} ELSE {})
  BY DEF WellNested
<1> DEFINE o == output[i]
           c == o.of
<1>2. /\ o \in Brackets /\ c \in script /\ c \in Statements /\ o.side \in {"open", "close"}
      /\ o.body \in DOMAIN Bodies(c) /\ \E a, r : KeyOf(o, a, r)
  BY InText
<1>3. PICK a, r : KeyOf(o, a, r)
  BY <1>2
<1>4. ASSUME NEW d \in script, NEW x \in DOMAIN Bodies(d)
      PROVE  (\E j \in 1 .. i - 1 : output[j] = Bracket("open", d, x))
                /\ (~\E j \in 1 .. i - 1 : output[j] = Bracket("close", d, x))
               <=> Inside(c, d, x) \/ (d = c /\ o.side = "close" /\ x = o.body)
  <2>1. d \in Statements /\ Straight(d) /\ Straight(c)
    BY <1>2, OrderlyStraight DEF CInv, ScriptInv
  <2>2. c = d \/ (Apart(c, d) /\ TieFree(c, d) /\ TieFree(d, c))
    BY <1>2 DEF CInv, ScriptInv, SInv, TieInv
  <2>3. PICK a1, r1 : Keyed("open", d, x, a1, r1)
    BY <2>1, KeySome
  <2>4. PICK a2, r2 : Keyed("close", d, x, a2, r2)
    BY <2>1, KeySome
  <2>5. (\E j \in 1 .. i - 1 : output[j] = Bracket("open", d, x)) <=> Before(a1, r1, a, r)
    <3>1. Bracket("open", d, x) \in Brackets /\ Bracket("open", d, x).of = d
          /\ KeyOf(Bracket("open", d, x), a1, r1)
      BY <2>1, <2>3, KeyBracket
    <3> QED
      BY <1>3, <3>1, BeforeIs DEF SInv
  <2>6. (\E j \in 1 .. i - 1 : output[j] = Bracket("close", d, x)) <=> Before(a2, r2, a, r)
    <3>1. Bracket("close", d, x) \in Brackets /\ Bracket("close", d, x).of = d
          /\ KeyOf(Bracket("close", d, x), a2, r2)
      BY <2>1, <2>4, KeyBracket
    <3> QED
      BY <1>3, <3>1, BeforeIs DEF SInv
  <2>7. Keyed(o.side, c, o.body, a, r)
    BY <1>3 DEF KeyOf
  <2> HIDE DEF o, c
  <2>8. Before(a1, r1, a, r) /\ ~Before(a2, r2, a, r)
          <=> Inside(c, d, x) \/ (d = c /\ o.side = "close" /\ x = o.body)
    BY <1>2, <2>1, <2>2, <2>3, <2>4, <2>7, NestIs
  <2> QED
    BY <2>5, <2>6, <2>8
<1> HIDE DEF o, c
<1> DEFINE Closing == IF o.side = "close" THEN {<<c, o.body>>} ELSE {}
<1>5. ASSUME NEW z
      PROVE  z \in OpenBefore(i) <=>
               \E d \in script : \E x \in DOMAIN Bodies(d) :
                 z = <<d, x>> /\ (Inside(c, d, x) \/ (d = c /\ o.side = "close" /\ x = o.body))
  BY <1>4, OpenIs
<1>6. ASSUME NEW z
      PROVE  z \in BodiesAround(c) <=>
               \E d \in script : \E x \in DOMAIN Bodies(d) : z = <<d, x>> /\ Inside(c, d, x)
  BY DEF BodiesAround
<1>7. ASSUME NEW z
      PROVE  z \in Closing <=>
               \E d \in script : \E x \in DOMAIN Bodies(d) :
                 z = <<d, x>> /\ d = c /\ o.side = "close" /\ x = o.body
  BY <1>2
<1>8. OpenBefore(i) = BodiesAround(c) \cup Closing
  BY <1>5, <1>6, <1>7
<1> QED
  BY <1>8 DEF o, c

-----------------------------------------------------------------------------

(* Stack->ControlList is sorted at both levels and holds what the code can put
   there, for every script of every kind of statement, with ties and without
   (insert_control_list and the compare functions). *)
THEOREM ControlTypeCorrect == ControlSpec => []ControlTypeOK
<1>1. CInv => ControlTypeOK
  BY TypeFollows
<1> QED
  BY <1>1, CInvHolds, PTL

(* When the walk of dump_op_array_ex has passed the NOP after the opcodes, the
   list is empty and every body of every statement has been opened once and
   closed once, for every script (dump_control_list). *)
THEOREM DumpFinishes == ControlSpec => []Finished
<1>1. CInv => Finished
  BY FinishedFollows
<1> QED
  BY <1>1, CInvHolds, PTL

(* The text nests as the source did, for op arrays of any length with any number
   of statements, when no entries tie and no for lacks its first expression and
   no default comes first in its switch (scan_control_list, dump_control_list). *)
THEOREM NestedAlways ==
  ASSUME Orderly
  PROVE  ControlSpec => []WellNested
<1>1. CInv /\ SInv => WellNested
  BY NestedFollows
<1>2. ControlSpec => [](CInv /\ SInv)
  BY SInvHolds
<1> QED
  BY <1>1, <1>2, PTL

-----------------------------------------------------------------------------
(* BreakLists *)

(* The loops that are compiled have room for their opcodes and are nested or
   apart. *)
ShapeInv ==
  \A l \in Range(loops) : l \in Shapes /\ FirstOf(l) >= 0 /\ brk(l) \in Offsets

NestInv ==
  \A l, c \in Range(loops) :
    \/ l = c \/ Within(l, c) \/ Within(c, l)
    \/ LastOf(c) < FirstOf(l) \/ LastOf(l) < FirstOf(c)

(* The jump is in the body of the loops around it and leads where one of them
   is left or continued. *)
JumpInv ==
  pass # "compile" =>
    /\ jump \in Jumps /\ jump.at \in Offsets
    /\ \A c \in Range(loops) : jump.at \in FirstOf(c) .. LastOf(c) => jump.at \in Body(c)
    /\ \E l \in Around(jump.at), word \in {"break", "continue"} :
         jump.to = Target(word, l) /\ Level(jump.at, l) \in Levels

(* The lists have entries of loops, those that are recognised among them. *)
EntriesInv ==
  /\ \A e \in Range(breakList) :
       /\ \E l \in Range(loops) : e = Entry(l) \/ e = Internal(l)
       /\ pass \in {"compile", "first"} => e.internal
  /\ \A l \in found : Entry(l) \in Range(breakList)
  /\ pass = "compile" => breakList = <<>>
  /\ pass \in {"compile", "first"} => found = {}
  /\ pass \in {"third", "fourth"} => found = Range(loops)

(* Of the entries with one target those of brk_cont_array come first. *)
OrderInv ==
  \A i, j \in DOMAIN continueList :
    /\ i < j /\ continueList[i].cont = continueList[j].cont
    /\ continueList[j].internal
    => continueList[i].internal

PrintedInv == pass # "dump" => printed = NULL

IInv ==
  /\ TypeOK /\ ShapeInv /\ NestInv /\ JumpInv /\ EntriesInv /\ OrderInv /\ PrintedInv

-----------------------------------------------------------------------------
LEMMA ConstantFacts ==
  /\ (\A o \in Offsets : o \in Nat) /\ Levels \subseteq Nat \ {0} /\ MaxLoops \in Nat
  /\ Kinds \subseteq {"while", "do", "for", "foreach", "switch", "default"}
<1>1. LastOffset \in Nat
  BY OpArrayAssumption
<1>2. \A o \in Offsets : o \in Nat
  BY <1>1 DEF Offsets
<1> QED
  BY <1>2, BreakAssumption

(* Where the opcodes of a loop are. *)
LEMMA ShapeFacts ==
  ASSUME NEW l \in Shapes
  PROVE  /\ l.start \in Offsets /\ l.end \in Offsets /\ l.start < l.end
         /\ l.start \in Int /\ l.end \in Int
         /\ FirstOf(l) \in Int /\ LastOf(l) \in Int /\ cont(l) \in Int /\ brk(l) \in Int
         /\ FirstOf(l) <= l.start /\ l.end <= LastOf(l) + 1
         /\ FirstOf(l) <= cont(l) /\ cont(l) <= LastOf(l) + 1
         /\ l.end <= brk(l) /\ brk(l) <= LastOf(l) + 1 /\ cont(l) <= brk(l)
         /\ \A o \in Body(l) :
              o \in Int /\ l.start <= o /\ o < l.end /\ o + 1 < brk(l)
<1>1. /\ l.start \in Offsets /\ l.end \in Offsets /\ l.key \in Offsets
      /\ l.start \in Nat /\ l.end \in Nat /\ l.key \in Nat
      /\ l.kind \in {"while", "do", "for", "foreach", "switch", "default"}
  <2>1. l \in [kind : Kinds, start : Offsets, key : Offsets, end : Offsets]
    BY DEF Shapes
  <2>2. /\ l.start \in Offsets /\ l.end \in Offsets /\ l.key \in Offsets
        /\ l.kind \in Kinds
    BY <2>1
  <2> QED
    BY <2>2, ConstantFacts
<1>2. /\ l.kind = "do" => l.start < l.end /\ l.key = l.end
      /\ l.kind = "for" => l.key \in {l.start, l.start + 1} /\ l.key + 5 <= l.end
      /\ l.kind = "default" => l.start + 6 <= l.end /\ l.key = l.end - 3
      /\ l.kind \in {"while", "foreach", "switch"} => l.start + 4 <= l.end /\ l.key = l.start
  BY DEF Shapes
<1>3. CASE l.kind = "do"
  BY <1>1, <1>2, <1>3 DEF FirstOf, LastOf, cont, brk, Body
<1>4. CASE l.kind = "for"
  BY <1>1, <1>2, <1>4 DEF FirstOf, LastOf, cont, brk, Body
<1>5. CASE l.kind = "default"
  BY <1>1, <1>2, <1>5 DEF FirstOf, LastOf, cont, brk, Body
<1>6. CASE l.kind = "switch"
  BY <1>1, <1>2, <1>6 DEF FirstOf, LastOf, cont, brk, Body
<1>7. CASE l.kind = "while"
  BY <1>1, <1>2, <1>7 DEF FirstOf, LastOf, cont, brk, Body
<1>8. CASE l.kind = "foreach"
  BY <1>1, <1>2, <1>8 DEF FirstOf, LastOf, cont, brk, Body
<1> QED
  BY <1>1, <1>3, <1>4, <1>5, <1>6, <1>7, <1>8

(* A loop is left behind every continue of the loops in its body. *)
LEMMA InnerEndsFirst ==
  ASSUME NEW l \in Shapes, NEW c \in Shapes, Within(l, c)
  PROVE  cont(l) < brk(c)
<1>1. LastOf(l) \in Body(c)
  <2>1. LastOf(l) \in FirstOf(l) .. LastOf(l)
    BY ShapeFacts
  <2> QED
    BY <2>1 DEF Within
<1>2. LastOf(l) + 1 < brk(c)
  BY <1>1, ShapeFacts
<1> QED
  BY <1>2, ShapeFacts

LEMMA EntryFacts ==
  ASSUME NEW l \in Shapes, FirstOf(l) >= 0, brk(l) \in Offsets
  PROVE  /\ Entry(l) \in Entries /\ Internal(l) \in Entries
         /\ \A e \in {Entry(l), Internal(l)} :
              /\ e.cont = cont(l) /\ e.brk = brk(l)
              /\ FirstOf(l) <= e.start /\ e.end <= LastOf(l) + 1
         /\ Entry(l).start = l.start /\ Entry(l).end = l.end
         /\ ~Entry(l).internal /\ Internal(l).internal
<1>1. cont(l) \in Offsets
  <2>1. LastOffset \in Nat
    BY OpArrayAssumption
  <2>2. cont(l) \in Int /\ 0 <= cont(l) /\ cont(l) <= brk(l)
    BY ShapeFacts
  <2> QED
    BY <2>1, <2>2 DEF Offsets
<1> QED
  BY <1>1, ShapeFacts DEF Entry, Internal, Entries

-----------------------------------------------------------------------------
Sorted(list, field) ==
  \A i, j \in DOMAIN list : i < j => list[i][field] <= list[j][field]

(* StackPushAscT puts an entry behind those whose field is not larger. *)
LEMMA PushAscIs ==
  ASSUME NEW list \in Seq(Entries), NEW field \in {"brk", "cont"}, NEW e \in Entries,
         Sorted(list, field)
  PROVE  LET all == PushAsc(list, field, e)
         IN  /\ all \in Seq(Entries) /\ Len(all) = Len(list) + 1
             /\ Sorted(all, field)
             /\ Range(all) = Range(list) \cup {e}
             /\ \E k \in 1 .. Len(list) + 1 :
                  /\ \A i \in 1 .. Len(list) + 1 :
                       all[i] = IF i < k THEN list[i] ELSE IF i = k THEN e ELSE list[i - 1]
                  /\ \A i \in 1 .. Len(list) : i >= k => list[i][field] > e[field]
<1> DEFINE n == Len(list)
           T == {j \in DOMAIN list : list[j][field] <= e[field]}
           c == Cardinality(T)
           all == PushAsc(list, field, e)
<1>1. n \in Nat /\ DOMAIN list = 1 .. n /\ \A j \in 1 .. n : list[j] \in Entries
  BY LenProperties, ElementOfSeq
<1>2. ASSUME NEW x \in Entries
      PROVE  x[field] \in Int
  <2>1. x.brk \in Offsets /\ x.cont \in Offsets
    BY DEF Entries
  <2> QED
    BY <2>1, ConstantFacts
<1>3. c \in 0 .. n /\ T = 1 .. c
  <2>1. T \subseteq 1 .. n
    BY <1>1
  <2>2. \A i, j \in 1 .. n : i < j /\ j \in T => i \in T
    BY <1>1, <1>2 DEF Sorted
  <2> HIDE DEF T, n
  <2> QED
    BY <1>1, <2>1, <2>2, InitialSegment
<1> DEFINE k == c + 1
<1>4. all = SubSeq(list, 1, k - 1) \o <<e>> \o SubSeq(list, k, Len(list))
  BY DEF PushAsc, InsertAt
<1>5. k \in 1 .. n + 1 /\ \A i \in 1 .. n : (i < k <=> list[i][field] <= e[field])
  <2>1. k \in 1 .. n + 1
    BY <1>1, <1>3
  <2>2. ASSUME NEW i \in 1 .. n
        PROVE  i < k <=> i \in T
    <3> HIDE DEF T, n
    <3> QED
      BY <1>1, <1>3
  <2>3. \A i \in 1 .. n : i \in T <=> list[i][field] <= e[field]
    BY <1>1
  <2> HIDE DEF T, k, n
  <2> QED
    BY <2>1, <2>2, <2>3
<1> HIDE DEF all, k, T, c
<1>6. /\ all \in Seq(Entries) /\ Len(all) = n + 1
      /\ \A i \in 1 .. n + 1 :
           all[i] = IF i < k THEN list[i] ELSE IF i = k THEN e ELSE list[i - 1]
  <2>1. list \in Seq(Entries) /\ e \in Entries /\ k \in 1 .. Len(list) + 1
    BY <1>5
  <2>2. all = Inserted(list, k, e)
    BY <1>4 DEF Inserted
  <2>3. /\ Inserted(list, k, e) \in Seq(Entries) /\ Len(Inserted(list, k, e)) = Len(list) + 1
        /\ \A i \in 1 .. Len(list) + 1 :
             Inserted(list, k, e)[i] =
               IF i < k THEN list[i] ELSE IF i = k THEN e ELSE list[i - 1]
    BY <2>1, InsertedIs
  <2> QED
    BY <2>2, <2>3
<1>7. \A i \in 1 .. n : i >= k => list[i][field] > e[field]
  BY <1>1, <1>2, <1>5
<1>8. DOMAIN all = 1 .. n + 1
  BY <1>6, LenProperties
<1> HIDE DEF n
<1>9. ASSUME NEW i \in 1 .. n + 1, NEW j \in 1 .. n + 1, i < j
      PROVE  all[i][field] <= all[j][field]
  <2>1. CASE j < k
    BY <1>1, <1>5, <1>6, <1>9, <2>1 DEF Sorted
  <2>2. CASE j = k
    BY <1>1, <1>5, <1>6, <1>9, <2>2
  <2>3. CASE j > k /\ i < k
    <3>1. all[i] = list[i] /\ all[j] = list[j - 1] /\ i \in 1 .. n /\ j - 1 \in 1 .. n
          /\ (i < j - 1 \/ i = j - 1)
      BY <1>1, <1>5, <1>6, <1>9, <2>3
    <3> QED
      BY <1>1, <1>2, <1>5, <1>6, <1>7, <1>9, <2>3, <3>1 DEF Sorted
  <2>4. CASE j > k /\ i = k
    <3>1. all[i] = e /\ all[j] = list[j - 1] /\ j - 1 \in 1 .. n /\ j - 1 >= k
      BY <1>1, <1>5, <1>6, <1>9, <2>4
    <3> QED
      BY <1>1, <1>2, <1>7, <3>1
  <2>5. CASE j > k /\ i > k
    <3>1. /\ all[i] = list[i - 1] /\ all[j] = list[j - 1]
          /\ i - 1 \in 1 .. n /\ j - 1 \in 1 .. n /\ i - 1 < j - 1
      BY <1>1, <1>5, <1>6, <1>9, <2>5
    <3> QED
      BY <1>1, <3>1 DEF Sorted
  <2> QED
    BY <1>1, <1>5, <2>1, <2>2, <2>3, <2>4, <2>5
<1>10. Range(all) = Range(list) \cup {e}
  <2>1. ASSUME NEW i \in 1 .. n + 1
        PROVE  all[i] \in Range(list) \cup {e}
    <3>1. i < k => all[i] = list[i] /\ i \in 1 .. n
      BY <1>1, <1>5, <1>6
    <3>2. i > k => all[i] = list[i - 1] /\ i - 1 \in 1 .. n
      BY <1>1, <1>5, <1>6
    <3>3. i = k => all[i] = e
      BY <1>6
    <3>4. i < k \/ i > k \/ i = k
      BY <1>1, <1>5
    <3> QED
      BY <1>1, <3>1, <3>2, <3>3, <3>4 DEF Range
  <2>2. ASSUME NEW i \in 1 .. n
        PROVE  \E j \in 1 .. n + 1 : all[j] = list[i]
    <3>1. CASE i < k
      BY <1>1, <1>5, <1>6, <3>1
    <3>2. CASE i >= k
      <4>1. i + 1 \in 1 .. n + 1 /\ ~(i + 1 < k) /\ i + 1 # k /\ i + 1 - 1 = i
        BY <1>1, <1>5, <3>2
      <4> QED
        BY <1>6, <4>1
    <3> QED
      BY <1>1, <1>5, <3>1, <3>2
  <2>3. all[k] = e
    BY <1>5, <1>6
  <2> QED
    BY <1>1, <1>5, <1>8, <2>1, <2>2, <2>3 DEF Range
<1> QED
  BY <1>5, <1>6, <1>7, <1>8, <1>9, <1>10 DEF all, n, Sorted

(* What insert_cont_brk_list keeps: the same entries in both lists, sorted,
   and those of brk_cont_array before the others with their target. *)
ListsInv ==
  /\ breakList \in Seq(Entries) /\ continueList \in Seq(Entries)
  /\ Sorted(breakList, "brk") /\ Sorted(continueList, "cont")
  /\ Len(breakList) = Len(continueList) /\ Range(breakList) = Range(continueList)

LEMMA ListsOfTypeOK ==
  TypeOK <=> /\ ListsInv
             /\ loops \in Seq(Shapes) /\ Len(loops) <= MaxLoops
             /\ jump \in Jumps \union {NULL}
             /\ found \subseteq Range(loops)
             /\ pass \in {"compile", "first", "second", "third", "fourth", "dump"}
             /\ printed \in {"nothing", "break", "continue", "do while ( 1 )", "skipped",
                             "lost", NULL}
BY DEF TypeOK, ListsInv, Sorted

LEMMA InsertKeepsLists ==
  ASSUME ListsInv, OrderInv, NEW e \in Entries, InsertContBrk(e),
         e.internal => \A x \in Range(breakList) : x.internal
  PROVE  /\ ListsInv' /\ OrderInv'
         /\ Range(breakList') = Range(breakList) \cup {e}
<1> DEFINE n == Len(continueList)
<1>1. /\ breakList' \in Seq(Entries) /\ Len(breakList') = Len(breakList) + 1
      /\ Sorted(breakList', "brk") /\ Range(breakList') = Range(breakList) \cup {e}
  BY PushAscIs DEF ListsInv, InsertContBrk
<1>2. PICK k \in 1 .. n + 1 :
        /\ \A i \in 1 .. n + 1 :
             continueList'[i] = IF i < k THEN continueList[i]
                                ELSE IF i = k THEN e ELSE continueList[i - 1]
        /\ \A i \in 1 .. n : i >= k => continueList[i].cont > e.cont
        /\ continueList' \in Seq(Entries) /\ Len(continueList') = n + 1
        /\ Sorted(continueList', "cont") /\ Range(continueList') = Range(continueList) \cup {e}
  <2> DEFINE all == PushAsc(continueList, "cont", e)
  <2>1. continueList' = all /\ continueList \in Seq(Entries) /\ Sorted(continueList, "cont")
    BY DEF ListsInv, InsertContBrk
  <2>2. /\ all \in Seq(Entries) /\ Len(all) = n + 1 /\ Sorted(all, "cont")
        /\ Range(all) = Range(continueList) \cup {e}
        /\ \E k \in 1 .. n + 1 :
             /\ \A i \in 1 .. n + 1 :
                  all[i] = IF i < k THEN continueList[i] ELSE IF i = k THEN e ELSE continueList[i - 1]
             /\ \A i \in 1 .. n : i >= k => continueList[i]["cont"] > e["cont"]
    BY <2>1, PushAscIs
  <2> HIDE DEF all, n
  <2> QED
    BY <2>1, <2>2
<1>3. /\ n \in Nat /\ DOMAIN continueList = 1 .. n /\ DOMAIN continueList' = 1 .. n + 1
      /\ \A i \in 1 .. n : continueList[i] \in Entries /\ continueList[i].cont \in Nat
      /\ e.cont \in Nat
  <2>1. /\ n \in Nat /\ DOMAIN continueList = 1 .. n /\ DOMAIN continueList' = 1 .. n + 1
        /\ \A i \in 1 .. n : continueList[i] \in Entries
    BY <1>2, LenProperties, ElementOfSeq DEF ListsInv
  <2>2. \A x \in Entries : x.cont \in Nat
    BY ConstantFacts DEF Entries
  <2> QED
    BY <2>1, <2>2
<1>4. ListsInv'
  BY <1>1, <1>2 DEF ListsInv
<1>5. \A i \in 1 .. n : e.internal => continueList[i].internal
  BY <1>3 DEF ListsInv, Range
<1> HIDE DEF n
<1>6. ASSUME NEW i \in 1 .. n + 1, NEW j \in 1 .. n + 1, i < j,
             continueList'[i].cont = continueList'[j].cont, continueList'[j].internal
      PROVE  continueList'[i].internal
  <2>1. CASE j < k
    <3>1. /\ continueList'[i] = continueList[i] /\ continueList'[j] = continueList[j]
          /\ i \in 1 .. n /\ j \in 1 .. n
      BY <1>2, <1>3, <1>6, <2>1
    <3> QED
      BY <1>3, <1>6, <3>1 DEF OrderInv
  <2>2. CASE j = k
    <3>1. continueList'[i] = continueList[i] /\ continueList'[j] = e /\ i \in 1 .. n
      BY <1>2, <1>3, <1>6, <2>2
    <3> QED
      BY <1>5, <1>6, <3>1
  <2>3. CASE j > k /\ i < k
    <3>1. /\ continueList'[i] = continueList[i] /\ continueList'[j] = continueList[j - 1]
          /\ i \in 1 .. n /\ j - 1 \in 1 .. n /\ (i < j - 1 \/ i = j - 1)
      BY <1>2, <1>3, <1>6, <2>3
    <3> QED
      BY <1>3, <1>6, <3>1 DEF OrderInv
  <2>4. CASE j > k /\ i = k
    <3>1. /\ continueList'[i] = e /\ continueList'[j] = continueList[j - 1]
          /\ j - 1 \in 1 .. n /\ j - 1 >= k
      BY <1>2, <1>3, <1>6, <2>4
    <3>2. continueList[j - 1].cont > e.cont
      BY <1>2, <3>1
    <3> QED
      BY <1>3, <1>6, <3>1, <3>2
  <2>5. CASE j > k /\ i > k
    <3>1. /\ continueList'[i] = continueList[i - 1] /\ continueList'[j] = continueList[j - 1]
          /\ i - 1 \in 1 .. n /\ j - 1 \in 1 .. n /\ i - 1 < j - 1
      BY <1>2, <1>3, <1>6, <2>5
    <3> QED
      BY <1>3, <1>6, <3>1 DEF OrderInv
  <2> QED
    BY <1>2, <1>3, <2>1, <2>2, <2>3, <2>4, <2>5
<1>7. OrderInv'
  BY <1>3, <1>6 DEF OrderInv
<1> QED
  BY <1>1, <1>4, <1>7

-----------------------------------------------------------------------------
LEMMA InitIInv == Init => IInv
<1> SUFFICES ASSUME Init PROVE IInv
  OBVIOUS
<1>1. Range(<<>>) = {} /\ Len(<<>>) = 0 /\ DOMAIN <<>> = {}
  BY DEF Range
<1>2. ListsInv
  BY <1>1 DEF Init, ListsInv, Sorted
<1>3. TypeOK
  BY <1>1, <1>2, ListsOfTypeOK, ConstantFacts DEF Init
<1> QED
  BY <1>1, <1>3 DEF Init, IInv, ShapeInv, NestInv, JumpInv, EntriesInv, OrderInv, PrintedInv

LEMMA CompileLoopIInv ==
  ASSUME IInv, NEW l \in Shapes, CompileLoop(l)
  PROVE  IInv'
<1>1. /\ Range(loops') = Range(loops) \cup {l} /\ loops' \in Seq(Shapes)
      /\ Len(loops') = Len(loops) + 1
  <2>1. loops \in Seq(Shapes) /\ loops' = Append(loops, l)
    BY DEF IInv, TypeOK, CompileLoop
  <2>2. /\ loops' \in Seq(Shapes) /\ Len(loops') = Len(loops) + 1
        /\ \A i \in 1 .. Len(loops) : loops'[i] = loops[i]
        /\ loops'[Len(loops) + 1] = l /\ Len(loops) \in Nat
        /\ DOMAIN loops = 1 .. Len(loops) /\ DOMAIN loops' = 1 .. Len(loops) + 1
    BY <2>1, AppendProperties, LenProperties
  <2>3. \A i \in 1 .. Len(loops) + 1 : i \in 1 .. Len(loops) \/ i = Len(loops) + 1
    BY <2>2
  <2> HIDE DEF IInv
  <2> QED
    BY <2>2, <2>3 DEF Range
<1>2. /\ pass' = "compile" /\ pass = "compile" /\ Len(loops) < MaxLoops
      /\ jump' = jump /\ found' = found /\ breakList' = breakList
      /\ continueList' = continueList /\ printed' = printed
      /\ FirstOf(l) >= 0 /\ brk(l) \in Offsets
      /\ \A c \in Range(loops) : Within(l, c) \/ LastOf(c) < FirstOf(l)
  BY DEF CompileLoop, lists
<1>3. TypeOK'
  <2>1. Len(loops') <= MaxLoops
    <3>1. Len(loops) \in Nat /\ MaxLoops \in Nat
      BY LenProperties, ConstantFacts DEF IInv, TypeOK
    <3> QED
      BY <1>1, <1>2, <3>1
  <2> QED
    BY <1>1, <1>2, <2>1 DEF IInv, TypeOK
<1>4. ShapeInv' /\ NestInv'
  BY <1>1, <1>2 DEF IInv, ShapeInv, NestInv
<1>5. JumpInv' /\ PrintedInv' /\ OrderInv'
  BY <1>2 DEF IInv, JumpInv, PrintedInv, OrderInv
<1>6. EntriesInv'
  BY <1>1, <1>2 DEF IInv, EntriesInv
<1> QED
  BY <1>3, <1>4, <1>5, <1>6 DEF IInv

LEMMA CompileJumpIInv ==
  ASSUME IInv, NEW o \in Offsets, NEW n \in Levels, NEW word \in {"break", "continue"},
         NEW x \in Contexts, CompileJump(o, n, word, x)
  PROVE  IInv'
<1>1. PICK l \in Around(o) : Level(o, l) = n /\ jump' = Jump(o, Target(word, l), x)
  BY DEF CompileJump
<1>2. /\ pass' = "first" /\ pass = "compile" /\ loops' = loops /\ found' = found
      /\ breakList' = breakList /\ continueList' = continueList /\ printed' = printed
      /\ \A c \in Range(loops) : o \in FirstOf(c) .. LastOf(c) => o \in Body(c)
  BY DEF CompileJump, Free, lists
<1>3. /\ Around(o)' = Around(o) /\ Level(o, l)' = Level(o, l)
  BY <1>2 DEF Around, Level
<1>4. l \in Range(loops) /\ l \in Shapes /\ Target(word, l) \in Offsets
  <2>1. l \in Range(loops) /\ l \in Shapes /\ FirstOf(l) >= 0 /\ brk(l) \in Offsets
    BY <1>1 DEF Around, IInv, ShapeInv
  <2>2. Entry(l).cont = cont(l) /\ Entry(l) \in Entries
    BY <2>1, EntryFacts
  <2>3. cont(l) \in Offsets
    BY <2>2 DEF Entries
  <2> QED
    BY <2>1, <2>3 DEF Target
<1>5. jump'.at = o /\ jump'.to = Target(word, l) /\ jump' \in Jumps
  BY <1>1, <1>4 DEF Jump, Jumps, Contexts
<1>6. JumpInv'
  <2>1. jump'.at \in Offsets /\ Around(jump.at)' = Around(o) /\ Level(jump.at, l)' = Level(o, l)
    BY <1>2, <1>5 DEF Around, Level
  <2> QED
    BY <1>1, <1>2, <1>5, <2>1 DEF JumpInv
<1>7. TypeOK' /\ ShapeInv' /\ NestInv'
  BY <1>2, <1>5 DEF IInv, TypeOK, ShapeInv, NestInv
<1>8. EntriesInv' /\ OrderInv' /\ PrintedInv'
  BY <1>2 DEF IInv, EntriesInv, OrderInv, PrintedInv
<1> QED
  BY <1>6, <1>7, <1>8 DEF IInv

LEMMA EnterInternalIInv ==
  ASSUME IInv, EnterInternal
  PROVE  IInv'
<1>1. /\ pass = "first" /\ loops' = loops /\ jump' = jump /\ found' = found
      /\ printed' = printed
  BY DEF EnterInternal
<1>2. CASE Len(breakList) < Len(loops)
  <2> DEFINE l == loops[Len(breakList) + 1]
  <2>1. InsertContBrk(Internal(l)) /\ pass' = pass
    BY <1>2 DEF EnterInternal
  <2>2. l \in Range(loops) /\ l \in Shapes /\ FirstOf(l) >= 0 /\ brk(l) \in Offsets
    <3>1. Len(breakList) \in Nat /\ Len(loops) \in Nat /\ DOMAIN loops = 1 .. Len(loops)
      BY LenProperties DEF IInv, TypeOK
    <3>2. Len(breakList) + 1 \in DOMAIN loops
      BY <1>2, <3>1
    <3>3. l \in Range(loops)
      BY <3>2 DEF Range
    <3> HIDE DEF l
    <3> QED
      BY <3>3 DEF IInv, ShapeInv
  <2> HIDE DEF l
  <2>3. Internal(l) \in Entries /\ Internal(l).internal
    BY <2>2, EntryFacts
  <2>4. \A x \in Range(breakList) : x.internal
    BY <1>1 DEF IInv, EntriesInv
  <2>5. /\ ListsInv' /\ OrderInv' /\ Range(breakList') = Range(breakList) \cup {Internal(l)}
    BY <2>1, <2>3, <2>4, InsertKeepsLists, ListsOfTypeOK DEF IInv
  <2>6. TypeOK'
    BY <1>1, <2>1, <2>5 DEF IInv, TypeOK, ListsInv, Sorted
  <2>7. EntriesInv'
    <3>1. \A e \in Range(breakList') :
            /\ \E c \in Range(loops) : e = Entry(c) \/ e = Internal(c)
            /\ e.internal
      BY <1>1, <2>2, <2>3, <2>5 DEF IInv, EntriesInv
    <3>2. found = {}
      BY <1>1 DEF IInv, EntriesInv
    <3> QED
      BY <1>1, <2>1, <3>1, <3>2 DEF EntriesInv
  <2>8. ShapeInv' /\ NestInv' /\ JumpInv' /\ PrintedInv'
    <3>1. ShapeInv' /\ NestInv' /\ PrintedInv'
      BY <1>1, <2>1 DEF IInv, ShapeInv, NestInv, PrintedInv
    <3>2. JumpInv'
      BY <1>1, <2>1 DEF IInv, JumpInv, Around, Level
    <3> QED
      BY <3>1, <3>2
  <2> QED
    BY <2>5, <2>6, <2>7, <2>8 DEF IInv
<1>3. CASE ~(Len(breakList) < Len(loops))
  <2>1. pass' = "second" /\ breakList' = breakList /\ continueList' = continueList
    BY <1>3 DEF EnterInternal, lists
  <2>2. TypeOK' /\ ShapeInv' /\ NestInv' /\ PrintedInv'
    BY <1>1, <2>1 DEF IInv, TypeOK, ShapeInv, NestInv, PrintedInv
  <2>3. JumpInv'
    BY <1>1, <2>1 DEF IInv, JumpInv, Around, Level
  <2>4. EntriesInv' /\ OrderInv'
    BY <1>1, <2>1 DEF IInv, EntriesInv, OrderInv
  <2> QED
    BY <2>2, <2>3, <2>4 DEF IInv
<1> QED
  BY <1>2, <1>3

LEMMA RecogniseIInv ==
  ASSUME IInv, Recognise
  PROVE  IInv'
<1>1. PICK l \in Range(loops) \ found :
        InsertContBrk(Entry(l)) /\ found' = found \union {l}
  BY DEF Recognise
<1>2. /\ pass = "second" /\ pass' = "second" /\ loops' = loops /\ jump' = jump
      /\ printed' = printed
  BY DEF Recognise
<1>3. l \in Range(loops) /\ l \in Shapes /\ FirstOf(l) >= 0 /\ brk(l) \in Offsets
  BY <1>1 DEF IInv, ShapeInv
<1>4. Entry(l) \in Entries /\ ~Entry(l).internal
  BY <1>3, EntryFacts
<1>5. ListsInv' /\ OrderInv' /\ Range(breakList') = Range(breakList) \cup {Entry(l)}
  BY <1>1, <1>4, InsertKeepsLists, ListsOfTypeOK DEF IInv
<1>6. TypeOK'
  BY <1>1, <1>2, <1>3, <1>5 DEF IInv, TypeOK, ListsInv, Sorted
<1>7. EntriesInv'
  <2>1. \A e \in Range(breakList') :
          \E c \in Range(loops) : e = Entry(c) \/ e = Internal(c)
    BY <1>3, <1>5 DEF IInv, EntriesInv
  <2>2. \A c \in found' : Entry(c) \in Range(breakList')
    BY <1>1, <1>5 DEF IInv, EntriesInv
  <2> QED
    BY <1>2, <2>1, <2>2 DEF EntriesInv
<1>8. ShapeInv' /\ NestInv' /\ PrintedInv'
  BY <1>2 DEF IInv, ShapeInv, NestInv, PrintedInv
<1>9. JumpInv'
  BY <1>2 DEF IInv, JumpInv, Around, Level
<1> QED
  BY <1>5, <1>6, <1>7, <1>8, <1>9 DEF IInv

(* The rest of the passes only ask the lists. *)
LEMMA AskIInv ==
  ASSUME IInv, SecondEnd \/ ThirdScan \/ FourthScan
  PROVE  IInv'
<1>1. /\ pass \in {"second", "third", "fourth"} /\ loops' = loops /\ jump' = jump
      /\ found' = found /\ breakList' = breakList /\ continueList' = continueList
  BY DEF SecondEnd, ThirdScan, FourthScan, lists
<1>2. /\ pass' \in {"third", "fourth", "dump"}
      /\ pass' # "dump" => printed' = printed /\ found = Range(loops)
  BY DEF SecondEnd, ThirdScan, FourthScan, IInv, EntriesInv
<1>3. printed' \in {"nothing", "break", "continue", "do while ( 1 )", "skipped", "lost", NULL}
  <2>1. printed = NULL
    BY <1>1 DEF IInv, PrintedInv
  <2>2. CASE SecondEnd
    BY <2>1, <2>2 DEF SecondEnd
  <2>3. CASE ThirdScan
    BY <2>1, <2>3 DEF ThirdScan
  <2>4. CASE FourthScan
    BY <2>4 DEF FourthScan
  <2> QED
    BY <2>2, <2>3, <2>4
<1>4. TypeOK'
  BY <1>1, <1>2, <1>3 DEF IInv, TypeOK
<1>5. ShapeInv' /\ NestInv' /\ OrderInv'
  BY <1>1 DEF IInv, ShapeInv, NestInv, OrderInv
<1>6. JumpInv'
  BY <1>1, <1>2 DEF IInv, JumpInv, Around, Level
<1>7. EntriesInv'
  BY <1>1, <1>2 DEF IInv, EntriesInv
<1>8. PrintedInv'
  BY <1>1, <1>2 DEF IInv, PrintedInv
<1> QED
  BY <1>4, <1>5, <1>6, <1>7, <1>8 DEF IInv

LEMMA NextIInv ==
  ASSUME IInv, [Next]_vars
  PROVE  IInv'
<1>1. CASE UNCHANGED vars
  <2>1. /\ loops' = loops /\ jump' = jump /\ found' = found /\ breakList' = breakList
        /\ continueList' = continueList /\ pass' = pass /\ printed' = printed
    BY <1>1 DEF vars, lists
  <2>2. TypeOK' /\ ShapeInv' /\ NestInv'
    BY <2>1 DEF IInv, TypeOK, ShapeInv, NestInv
  <2>3. JumpInv'
    BY <2>1 DEF IInv, JumpInv, Around, Level
  <2>4. EntriesInv' /\ OrderInv' /\ PrintedInv'
    BY <2>1 DEF IInv, EntriesInv, OrderInv, PrintedInv
  <2> QED
    BY <2>2, <2>3, <2>4 DEF IInv
<1> QED
  BY <1>1, CompileLoopIInv, CompileJumpIInv, EnterInternalIInv, RecogniseIInv, AskIInv
     DEF Next, Dumped

(* The invariant the theorems rest on. *)
THEOREM Invariance == Spec => []IInv
BY InitIInv, NextIInv, PTL DEF Spec

(* BreakList and ContinueList hold the same entries, each in the order that
   the searches of GetBreak and GetContinue rely on, whatever the script. *)
THEOREM TypeCorrect == Spec => []TypeOK
<1>1. IInv => TypeOK
  BY DEF IInv
<1> QED
  BY <1>1, Invariance, PTL

-----------------------------------------------------------------------------
LEMMA Greatest ==
  ASSUME NEW n \in Nat, NEW T, T \subseteq 1 .. n, T # {}
  PROVE  Max(T) \in T /\ \A k \in T : k <= Max(T)
<1> DEFINE U == {d \in Nat : d <= n /\ n - d \in T}
<1>1. PICK t \in T : TRUE
  OBVIOUS
<1>2. U \subseteq Nat /\ n - t \in U
  <2>1. t \in 1 .. n /\ n - (n - t) = t
    BY <1>1
  <2> QED
    BY <2>1
<1>3. PICK d \in U : \A e \in U : d <= e
  BY <1>2, LeastNumber
<1>4. n - d \in T /\ d \in Nat
  BY <1>3
<1>5. ASSUME NEW k \in T
      PROVE  k <= n - d
  <2>1. k \in 1 .. n /\ n - (n - k) = k
    OBVIOUS
  <2>2. n - k \in U
    BY <2>1
  <2>3. d <= n - k
    BY <1>3, <2>2
  <2> QED
    BY <1>4, <2>1, <2>3
<1>6. \E x \in T : \A y \in T : x >= y
  <2>1. \A y \in T : y \in Int
    OBVIOUS
  <2> QED
    BY <1>4, <1>5, <2>1
<1>7. Max(T) \in T /\ \A y \in T : Max(T) >= y
  BY <1>6 DEF Max
<1> QED
  BY <1>7

Hit(list, field, to, o, k) ==
  list[k][field] = to /\ list[k].start <= o /\ o < list[k].end

(* The searches answer with an entry of the list, and with the last that fits. *)
LEMMA ContainingIs ==
  ASSUME NEW list \in Seq(Entries), NEW field \in {"brk", "cont"}, NEW to, NEW o
  PROVE  LET e == Containing(list, field, to, o)
         IN  \/ e = NULL /\ \A k \in DOMAIN list : ~Hit(list, field, to, o, k)
             \/ /\ e # NULL
                /\ \E k \in DOMAIN list :
                     /\ e = list[k] /\ Hit(list, field, to, o, k)
                     /\ \A j \in DOMAIN list : Hit(list, field, to, o, j) => j <= k
<1> DEFINE hits == {k \in DOMAIN list : Hit(list, field, to, o, k)}
           e == Containing(list, field, to, o)
<1>1. /\ Len(list) \in Nat /\ DOMAIN list = 1 .. Len(list)
      /\ \A j \in 1 .. Len(list) : list[j] \in Entries
  BY LenProperties, ElementOfSeq
<1>2. e = IF hits = {} THEN NULL ELSE list[Max(hits)]
  BY DEF Containing, Hit
<1>3. NULL \notin Entries
  <2>1. \A x \in Entries :
          x \in [cont : Nat, brk : Nat, start : Nat, end : Nat, internal : BOOLEAN]
    BY ConstantFacts DEF Entries
  <2> QED
    BY <2>1, BreakAssumption
<1>4. hits \subseteq 1 .. Len(list)
  BY <1>1
<1> HIDE DEF e
<1>5. CASE hits = {}
  BY <1>2, <1>5 DEF e
<1>6. CASE hits # {}
  <2>1. Max(hits) \in hits /\ \A k \in hits : k <= Max(hits)
    <3> HIDE DEF hits
    <3> QED
      BY <1>1, <1>4, <1>6, Greatest
  <2>2. e = list[Max(hits)]
    BY <1>2, <1>6
  <2> DEFINE m == Max(hits)
  <2> HIDE DEF m
  <2>3. m \in hits /\ e = list[m] /\ \A k \in hits : k <= m
    BY <2>1, <2>2 DEF m
  <2> QED
    BY <1>1, <1>3, <2>3 DEF e
<1> QED
  BY <1>5, <1>6

(* A script whose statements have one level each: that is all a printed word
   can say. *)
LEMMA Innermost ==
  ASSUME IInv, NEW o, NEW l \in Around(o), Level(o, l) = 1
  PROVE  \A c \in Around(o) : ~Within(c, l)
<1> DEFINE inner == {c \in Around(o) : Within(c, l)}
<1>1. IsFiniteSet(Range(loops))
  <2>1. loops \in Seq(Shapes)
    BY DEF IInv, TypeOK
  <2>2. Len(loops) \in Nat /\ DOMAIN loops = 1 .. Len(loops)
    BY <2>1, LenProperties
  <2>3. IsFiniteSet(1 .. Len(loops))
    BY <2>2, FS_Interval
  <2>4. loops \in Surjection(1 .. Len(loops), Range(loops))
    BY <2>1, <2>2 DEF Surjection, Range
  <2> QED
    BY <2>3, <2>4, FS_Surjection
<1>2. IsFiniteSet(inner)
  BY <1>1, FS_Subset DEF Around
<1>3. Cardinality(inner) = 0
  BY <1>2, FS_CardinalityType DEF Level
<1>4. inner = {}
  BY <1>2, <1>3, FS_EmptySet
<1> QED
  BY <1>4

(* What the scans can ask about the jump. *)
LEMMA JumpFacts ==
  ASSUME IInv, pass \in {"third", "fourth"}
  PROVE  /\ jump.at \in Nat
         /\ \E l \in Around(jump.at), word \in {"break", "continue"} :
              /\ jump.to = Target(word, l) /\ Level(jump.at, l) \in Levels
              /\ \E k \in DOMAIN breakList : Hit(breakList, "brk", brk(l), jump.at, k)
              /\ \E k \in DOMAIN continueList :
                   /\ Hit(continueList, "cont", cont(l), jump.at, k)
                   /\ ~continueList[k].internal
<1>1. PICK l \in Around(jump.at), word \in {"break", "continue"} :
        jump.to = Target(word, l) /\ Level(jump.at, l) \in Levels
  BY DEF IInv, JumpInv
<1>2. /\ l \in Range(loops) /\ jump.at \in Body(l) /\ l \in Shapes
      /\ FirstOf(l) >= 0 /\ brk(l) \in Offsets
  BY <1>1 DEF Around, IInv, ShapeInv
<1>3. Entry(l) \in Range(breakList) /\ Entry(l) \in Range(continueList)
  BY <1>2 DEF IInv, EntriesInv, TypeOK
<1>4. /\ Entry(l).cont = cont(l) /\ Entry(l).brk = brk(l) /\ ~Entry(l).internal
      /\ Entry(l).start <= jump.at /\ jump.at < Entry(l).end
  <2>1. l.start <= jump.at /\ jump.at < l.end
    BY <1>2, ShapeFacts
  <2> QED
    BY <1>2, <2>1, EntryFacts
<1>5. \E k \in DOMAIN breakList : Hit(breakList, "brk", brk(l), jump.at, k)
  <2>1. PICK k \in DOMAIN breakList : breakList[k] = Entry(l)
    BY <1>3 DEF Range
  <2> QED
    BY <1>4, <2>1 DEF Hit
<1>6. \E k \in DOMAIN continueList :
        Hit(continueList, "cont", cont(l), jump.at, k) /\ ~continueList[k].internal
  <2>1. PICK k \in DOMAIN continueList : continueList[k] = Entry(l)
    BY <1>3 DEF Range
  <2> QED
    BY <1>4, <2>1 DEF Hit
<1>7. jump.at \in Nat
  BY ConstantFacts DEF IInv, JumpInv
<1> QED
  BY <1>1, <1>5, <1>6, <1>7

LEMMA FourthScanMeans ==
  ASSUME IInv, FourthScan, Levels = {1}
  PROVE  JumpMeans'
<1>1. pass = "fourth" /\ jump' = jump /\ loops' = loops
  BY DEF FourthScan
<1>2. PICK l \in Around(jump.at), word \in {"break", "continue"} :
        /\ jump.to = Target(word, l) /\ Level(jump.at, l) = 1
        /\ \E k \in DOMAIN breakList : Hit(breakList, "brk", brk(l), jump.at, k)
  BY <1>1, JumpFacts
<1>3. /\ l \in Range(loops) /\ jump.at \in Body(l) /\ l \in Shapes
      /\ jump.at \in Int /\ jump.at + 1 < brk(l) /\ jump.at >= FirstOf(l) /\ jump.at <= LastOf(l)
  <2>1. l \in Range(loops) /\ jump.at \in Body(l) /\ l \in Shapes
    BY <1>2 DEF Around, IInv, ShapeInv
  <2> QED
    BY <2>1, ShapeFacts
<1>4. \A c \in Around(jump.at) : ~Within(c, l)
  BY <1>2, Innermost
<1>5. breakList \in Seq(Entries)
  BY DEF IInv, TypeOK
<1>6. CASE GetBreak(jump.to, jump.at) # NULL /\ jump.before \notin {"brk", "end"}
  <2>1. printed' = "break"
    BY <1>6 DEF FourthScan
  <2>2. PICK k \in DOMAIN breakList : Hit(breakList, "brk", jump.to, jump.at, k)
    BY <1>5, <1>6, ContainingIs DEF GetBreak
  <2> DEFINE e == breakList[k]
  <2>3. PICK c \in Range(loops) : e = Entry(c) \/ e = Internal(c)
    BY DEF IInv, EntriesInv, Range
  <2>4. c \in Shapes /\ FirstOf(c) >= 0 /\ brk(c) \in Offsets
    BY DEF IInv, ShapeInv
  <2>5. e.brk = brk(c) /\ FirstOf(c) <= e.start /\ e.end <= LastOf(c) + 1 /\ e \in Entries
    BY <2>3, <2>4, EntryFacts
  <2>6. e.brk = jump.to /\ e.start <= jump.at /\ jump.at < e.end
    BY <2>2 DEF Hit
  <2> HIDE DEF e
  <2>7. jump.at \in FirstOf(c) .. LastOf(c)
    <3>1. e.start \in Nat /\ e.end \in Nat
      BY <2>5, ConstantFacts DEF Entries
    <3>2. FirstOf(c) \in Int /\ LastOf(c) \in Int
      BY <2>4, ShapeFacts
    <3> QED
      BY <1>3, <2>5, <2>6, <3>1, <3>2
  <2>8. c \in Around(jump.at)
    BY <1>1, <2>7 DEF IInv, JumpInv, Around
  <2>9. jump.to = brk(l)
    <3>1. CASE word = "break"
      BY <1>2, <3>1 DEF Target
    <3>2. CASE word = "continue"
      <4>1. jump.to = cont(l)
        BY <1>2, <3>2 DEF Target
      <4>2. l = c \/ Within(l, c)
        <5>1. ~(LastOf(c) < FirstOf(l)) /\ ~(LastOf(l) < FirstOf(c))
          <6>1. FirstOf(c) \in Int /\ LastOf(c) \in Int /\ FirstOf(l) \in Int /\ LastOf(l) \in Int
            BY <1>3, <2>4, ShapeFacts
          <6> QED
            BY <1>3, <2>7, <6>1
        <5> QED
          BY <1>3, <1>4, <2>8, <5>1 DEF IInv, NestInv
      <4>3. Within(l, c) => cont(l) < brk(c) /\ cont(l) \in Int /\ brk(c) \in Int
        BY <1>3, <2>4, InnerEndsFirst, ShapeFacts
      <4>4. l = c
        BY <2>5, <2>6, <4>1, <4>2, <4>3
      <4> QED
        BY <2>5, <2>6, <4>4
    <3> QED
      BY <3>1, <3>2
  <2>10. Target("break", l) = jump.to
    BY <2>9 DEF Target
  <2>11. JumpMeans' <=> \E d \in Around(jump.at) : Level(jump.at, d) = 1 /\ jump.to = Target("break", d)
    BY <1>1, <2>1 DEF JumpMeans, Around, Level
  <2> QED
    BY <1>2, <2>10, <2>11
<1>7. CASE GetBreak(jump.to, jump.at) = NULL
  <2>1. jump.to # brk(l)
    BY <1>2, <1>5, <1>7, ContainingIs DEF GetBreak
  <2>2. word = "continue"
    BY <1>2, <2>1 DEF Target
  <2>3. printed' \in {"continue", "lost", "nothing"}
    BY <1>7 DEF FourthScan
  <2>4. JumpMeans' <=> \/ printed' \in {"lost", "nothing"}
                       \/ \E d \in Around(jump.at) : Level(jump.at, d) = 1 /\ jump.to = Target("continue", d)
    BY <1>1, <2>3 DEF JumpMeans, Around, Level
  <2> QED
    BY <1>2, <2>2, <2>4
<1>8. CASE GetBreak(jump.to, jump.at) # NULL /\ jump.before \in {"brk", "end"}
  BY <1>8 DEF FourthScan, JumpMeans
<1> QED
  BY <1>6, <1>7, <1>8

(* The rest of the passes keep what is printed about the jump. *)
LEMMA PrintedElsewhere ==
  ASSUME IInv, [Next]_vars, ~SecondEnd, ~ThirdScan, ~FourthScan
  PROVE  \/ printed' = NULL
         \/ printed' = printed /\ jump' = jump /\ loops' = loops
<1>1. pass # "dump" => printed = NULL
  BY DEF IInv, PrintedInv
<1>2. CASE UNCHANGED vars
  BY <1>2 DEF vars, lists
<1>3. CASE pass # "dump" /\ Next
  BY <1>1, <1>3 DEF Next, CompileLoop, CompileJump, EnterInternal, Recognise, Dumped
<1>4. CASE pass = "dump" /\ Next
  <2>1. UNCHANGED vars
    BY <1>4 DEF Next, CompileLoop, CompileJump, EnterInternal, Recognise, Dumped
  <2> QED
    BY <2>1, <1>2
<1> QED
  BY <1>2, <1>3, <1>4

LEMMA PrintedWords ==
  /\ NULL \notin {"nothing", "break", "continue", "do while ( 1 )", "skipped", "lost"}
BY BreakAssumption

(* In a script whose break and continue leave or continue the loop they are
   in, the printed word leads PHP where the dumped jump leads, although the
   lists are filled by two scans and asked by target only. *)
THEOREM WordMeansJump == Levels = {1} => (Spec => []JumpMeans)
<1> SUFFICES ASSUME Levels = {1} PROVE Spec => []JumpMeans
  OBVIOUS
<1>1. Init => JumpMeans
  BY PrintedWords DEF Init, JumpMeans
<1>2. IInv /\ JumpMeans /\ [Next]_vars => JumpMeans'
  <2> SUFFICES ASSUME IInv, JumpMeans, [Next]_vars
               PROVE  JumpMeans'
    OBVIOUS
  <2>1. CASE FourthScan
    BY <2>1, FourthScanMeans
  <2>2. CASE SecondEnd \/ ThirdScan
    <3>1. printed = NULL
      BY <2>2 DEF SecondEnd, ThirdScan, IInv, PrintedInv
    <3>2. printed' \in {"nothing", "skipped", "do while ( 1 )", NULL}
      <4>1. CASE SecondEnd
        BY <3>1, <4>1 DEF SecondEnd
      <4>2. CASE ThirdScan
        BY <3>1, <4>2 DEF ThirdScan
      <4> QED
        BY <2>2, <4>1, <4>2
    <3> QED
      BY <3>2, PrintedWords DEF JumpMeans
  <2>3. CASE ~FourthScan /\ ~SecondEnd /\ ~ThirdScan
    <3>1. CASE printed' = NULL
      BY <3>1, PrintedWords DEF JumpMeans
    <3>2. CASE printed' = printed /\ jump' = jump /\ loops' = loops
      BY <3>2 DEF JumpMeans, Around, Level
    <3> QED
      BY <2>3, <3>1, <3>2, PrintedElsewhere
  <2> QED
    BY <2>1, <2>2, <2>3
<1> QED
  BY Invariance, <1>1, <1>2, PTL DEF Spec

LEMMA ThirdScanKeeps ==
  ASSUME IInv, ThirdScan, ~ToDefault
  PROVE  printed' = NULL
<1>1. pass = "third" /\ printed = NULL
  BY DEF ThirdScan, IInv, PrintedInv
<1> DEFINE c == GetContinue(jump.to, jump.at)
<1>3. ASSUME jump.to < jump.at
      PROVE  c # NULL /\ ~c.internal
  <2>1. PICK l \in Around(jump.at), word \in {"break", "continue"} :
          /\ jump.to = Target(word, l)
          /\ \E k \in DOMAIN continueList :
               /\ Hit(continueList, "cont", cont(l), jump.at, k)
               /\ ~continueList[k].internal
    BY <1>1, JumpFacts
  <2>2. jump.to = cont(l)
    <3>1. jump.at \in Body(l) /\ l \in Shapes
      BY DEF Around, IInv, ShapeInv
    <3>2. jump.at \in Int /\ brk(l) \in Int /\ jump.at + 1 < brk(l)
      BY <3>1, ShapeFacts
    <3>3. jump.to # brk(l)
      BY <1>3, <3>2
    <3> QED
      BY <2>1, <3>3 DEF Target
  <2>3. PICK m \in DOMAIN continueList :
          Hit(continueList, "cont", jump.to, jump.at, m) /\ ~continueList[m].internal
    BY <2>1, <2>2
  <2>4. continueList \in Seq(Entries)
    BY DEF IInv, TypeOK
  <2>5. c # NULL /\ \E k \in DOMAIN continueList :
           /\ c = continueList[k] /\ Hit(continueList, "cont", jump.to, jump.at, k)
           /\ \A j \in DOMAIN continueList :
                Hit(continueList, "cont", jump.to, jump.at, j) => j <= k
    BY <2>3, <2>4, ContainingIs DEF GetContinue
  <2> HIDE DEF c
  <2>6. PICK k \in DOMAIN continueList :
           /\ c = continueList[k] /\ Hit(continueList, "cont", jump.to, jump.at, k)
           /\ \A j \in DOMAIN continueList :
                Hit(continueList, "cont", jump.to, jump.at, j) => j <= k
    BY <2>5
  <2>7. m \in Nat /\ k \in Nat /\ m <= k
    <3>1. DOMAIN continueList = 1 .. Len(continueList) /\ Len(continueList) \in Nat
      BY <2>4, LenProperties
    <3>2. m <= k
      BY <2>3, <2>6
    <3> QED
      BY <3>1, <3>2
  <2>8. continueList[m].cont = continueList[k].cont
    BY <2>3, <2>6 DEF Hit
  <2>9. ~continueList[k].internal
    <3>1. CASE m = k
      BY <2>3, <3>1
    <3>2. CASE m < k
      BY <2>3, <2>8, <3>2 DEF IInv, OrderInv
    <3> QED
      BY <2>7, <3>1, <3>2
  <2> QED
    BY <2>5, <2>6, <2>9
<1>4. printed' = printed
  BY <1>3 DEF ThirdScan
<1> QED
  BY <1>1, <1>4

LEMMA FourthScanFinds ==
  ASSUME IInv, FourthScan
  PROVE  printed' \in {"break", "continue"} \/ (printed' = "nothing" /\ jump.before # "other")
<1>1. PICK l \in Around(jump.at), word \in {"break", "continue"} :
        /\ jump.to = Target(word, l)
        /\ \E k \in DOMAIN breakList : Hit(breakList, "brk", brk(l), jump.at, k)
        /\ \E k \in DOMAIN continueList : Hit(continueList, "cont", cont(l), jump.at, k)
  <2>1. pass = "fourth"
    BY DEF FourthScan
  <2> QED
    BY <2>1, JumpFacts
<1>2. breakList \in Seq(Entries) /\ continueList \in Seq(Entries)
  BY DEF IInv, TypeOK
<1>3. CASE word = "break"
  <2>1. jump.to = brk(l)
    BY <1>1, <1>3 DEF Target
  <2>2. GetBreak(jump.to, jump.at) # NULL
    BY <1>1, <1>2, <2>1, ContainingIs DEF GetBreak
  <2> QED
    BY <2>2 DEF FourthScan
<1>4. CASE word = "continue"
  <2>1. jump.to = cont(l)
    BY <1>1, <1>4 DEF Target
  <2>2. GetContinue(jump.to, jump.at) # NULL
    BY <1>1, <1>2, <2>1, ContainingIs DEF GetContinue
  <2> QED
    BY <2>2 DEF FourthScan
<1> QED
  BY <1>1, <1>3, <1>4

(* The jumps that are lost are the overlooked ones: of the entries with the
   target of a jump, the last is one that the second scan has entered, so the
   third scan never takes another jump for a loop of its own, the fourth
   always finds a word for it, and the second drops only what the script does
   anyway. *)
THEOREM JumpsPrinted == Spec => []NoJumpLost
<1>1. Init => NoJumpLost
  BY DEF Init, NoJumpLost
<1>2. IInv /\ NoJumpLost /\ [Next]_vars => NoJumpLost'
  <2> SUFFICES ASSUME IInv, NoJumpLost, [Next]_vars
               PROVE  NoJumpLost'
    OBVIOUS
  <2>1. CASE FourthScan
    <3>1. jump' = jump
      BY <2>1 DEF FourthScan
    <3>2. \/ printed' \in {"break", "continue"}
          \/ printed' = "nothing" /\ jump.before # "other"
      BY <2>1, FourthScanFinds
    <3>3. printed' = "nothing" /\ ~Overlooked' => ~jump'.reached
      BY <3>1, <3>2 DEF Overlooked
    <3> QED
      BY <3>2, <3>3 DEF NoJumpLost
  <2>2. CASE ThirdScan
    <3>1. CASE ToDefault
      <4>1. Overlooked'
        BY <2>2, <3>1 DEF ThirdScan, Overlooked, ToDefault
      <4> QED
        BY <4>1 DEF NoJumpLost
    <3>2. CASE ~ToDefault
      BY <2>2, <3>2, ThirdScanKeeps DEF NoJumpLost
    <3> QED
      BY <3>1, <3>2
  <2>3. CASE SecondEnd
    <3>1. printed = NULL
      BY <2>3 DEF SecondEnd, IInv, PrintedInv
    <3>2. CASE Superfluous
      BY <2>3, <3>2 DEF SecondEnd, Superfluous, NoJumpLost, BackTo
    <3>3. CASE ~Superfluous
      BY <2>3, <3>1, <3>3 DEF SecondEnd, NoJumpLost
    <3> QED
      BY <3>2, <3>3
  <2>4. CASE ~FourthScan /\ ~SecondEnd /\ ~ThirdScan
    <3>1. CASE printed' = NULL
      BY <3>1 DEF NoJumpLost
    <3>2. CASE printed' = printed /\ jump' = jump /\ loops' = loops
      BY <3>2 DEF NoJumpLost, Overlooked, ToDefault
    <3> QED
      BY <2>4, <3>1, <3>2, PrintedElsewhere
  <2> QED
    BY <2>1, <2>2, <2>3, <2>4
<1> QED
  BY Invariance, <1>1, <1>2, PTL DEF Spec

=============================================================================
