------------------------- MODULE DumpSessionProofs -------------------------
(***************************************************************************)
(* Proofs about DumpSession, for any number of scripts, stacks, classes,   *)
(* functions, methods and flags and any depth of nesting: the innermost    *)
(* call finds its own stack, name, variables and flags, an exception loses *)
(* at most one stack, and a script without a fault leaves the stacks as it *)
(* found them.                                                             *)
(*                                                                         *)
(* The active calls are a sequence, and so are the stacks they have pushed *)
(* their entries on, which are longer by what earlier exceptions left.     *)
(* The invariant maps each prefix of the calls to a place in the others.   *)
(***************************************************************************)
EXTENDS DumpSession, Integers, ListLemmas, SequenceTheorems, FiniteSetTheorems

Frames  == OpFrame \cup ClassFrame
Op(i)   == calls[i].kind = "op"

(* Nothing is active outside the __try block. *)
PhaseInv == phase \notin Trying => NoCall

(* A frame with others above it is at the point where it makes a call; a class
   contains only methods. *)
FrameInv ==
  \A i \in 1 .. Len(calls) - 1 :
    /\ Op(i) => calls[i].step = "dump"
    /\ ~Op(i) => calls[i].step = "body" /\ Op(i + 1)

(* Every call is at a point where it can make another. *)
Ready ==
  \A i \in 1 .. Len(calls) : calls[i].step = IF Op(i) THEN "dump" ELSE "body"

(* The flags a function's header will take are on top of the others. *)
FlagsOnTop(name, flags) ==
  name # Main => functionFlags # <<>> /\ Top(functionFlags) = flags

(* The call that takes its stack has been made by one that was ready. *)
EntryInv == Entering => Ready /\ FlagsOnTop(entry.name, entry.pushed)

FlagInv ==
  \A i \in OpCalls : calls[i].step \in {"name", "scan"} =>
    FlagsOnTop(calls[i].name, calls[i].pushed)

CurrentInv == OpCalls # {} => ptrList # <<>> /\ gsStack = Top(ptrList)

(* Where the stacks of the calls are. *)
Free   == Elems(freeList)
InUse  == Elems(useList)
Astray == live \ (Free \cup InUse)

StackInv ==
  /\ \A i \in OpCalls : calls[i].step \in Owning => calls[i].stack \in InUse
  /\ \A i \in OpCalls : calls[i].step \in {"clear", "give"} => calls[i].stack \in Astray
  /\ \A i, j \in OpCalls : /\ calls[i].step \in Owning /\ calls[j].step \in Owning
                           /\ calls[i].stack = calls[j].stack
                         => i = j
  /\ entry.step \in {"new", "post"} => entry.stack \in Astray
  /\ entry.step = "enter" => useList # <<>> /\ Top(useList) = entry.stack
  /\ entry.step = "enter" =>
       \A i \in OpCalls : calls[i].step \in Owning => calls[i].stack # entry.stack

TableInv ==
  /\ \A s \in Stacks : s \in Free \/ s \notin live => table[s] = {}
  /\ \A i \in OpCalls : calls[i].step \in Owning => table[calls[i].stack] \subseteq {calls[i].name}
  /\ \A i \in OpCalls : calls[i].step = "give" => table[calls[i].stack] = {}
  /\ entry.step \in {"new", "post", "enter"} => table[entry.stack] = {}

(* Each of the scripts that have ended has lost at most one stack. *)
Ended   == IF phase \in Trying THEN scripts - 1 ELSE scripts
LostInv == IsFiniteSet(Lost) /\ Cardinality(Lost) <= Ended

(* The names the active calls have, or are about to push or have just popped. *)
CallNames ==
  IF AtStep("name") \/ AtStep("pop") THEN Append(functionName, Top(calls).name)
                                     ELSE functionName

(* p[i] is the length of StackPtrList when calls[i] was the innermost call;
   the names of the functions have the same places, shifted by what earlier
   scripts left. *)
OpsOf(cs) == {i \in DOMAIN cs : cs[i].kind = "op"}
NamePlace(k, ptrs, fnames) == k + Len(fnames) - Len(ptrs)

PlacesIn(p, cs, ptrs, fnames) ==
  /\ p \in [0 .. Len(cs) -> 0 .. Len(ptrs)]
  /\ \A i \in OpsOf(cs) : p[i] = p[i - 1] + 1
  /\ \A i \in (1 .. Len(cs)) \ OpsOf(cs) : p[i] = p[i - 1]
  /\ \A i, j \in 0 .. Len(cs) : i <= j => p[i] <= p[j] /\ p[j] - p[i] <= j - i
  /\ p[Len(cs)] = Len(ptrs)
  /\ \A i \in OpsOf(cs) : /\ ptrs[p[i]] = cs[i].stack
                          /\ fnames[NamePlace(p[i], ptrs, fnames)] = cs[i].name

Places(p) == PlacesIn(p, calls, ptrList, CallNames)

(* The names below the first call include that of the main op array. *)
NamesBelow(k) == phase \in Trying => NamePlace(k, ptrList, CallNames) > 0

(* A script that has met no fault yet. *)
Clean == found # NULL /\ phase \in Trying \cup {"tail"}

StartsWith(stack, base) ==
  Len(base) <= Len(stack) /\ \A i \in 1 .. Len(base) : stack[i] = base[i]

(* What it has found lies below what its active calls have pushed: k stacks,
   as many names and one more, and the names of other classes than those
   being dumped. *)
ClassNames(base, k) ==
  /\ Len(className) + Len(ptrList) = Len(base) + Len(calls) + k
  /\ StartsWith(className, base)

FoundBelow(k) ==
  /\ k = Len(found.ptrList) /\ StartsWith(ptrList, found.ptrList)
  /\ NamePlace(k, ptrList, CallNames) = Len(found.functionName) + 1
  /\ StartsWith(CallNames, found.functionName)
  /\ ClassNames(found.className, k) \/ ClassNames(Named(found.className), k)

PlaceInv == \E p : Places(p) /\ NamesBelow(p[0]) /\ (Clean => FoundBelow(p[0]))

InHeader == InClass /\ Top(calls).step = "head"
Freeing  == AtStep("clear") \/ AtStep("give")
Locked   == InHeader \/ Freeing

(* The stacks in use above those found are those of the calls: a stack enters
   StackList before StackPtrList, and leaves it before. *)
Ahead  == IF entry.step = "enter" THEN 1 ELSE 0
Behind == IF Freeing \/ AtStep("unname") \/ AtStep("pop") THEN 1 ELSE 0

UsedAbove(use, d, ptrs, k, ahead, behind) ==
  /\ Len(use) + k + behind = d + Len(ptrs) + ahead
  /\ \A j \in Nat \ {0} : d + j <= Len(use) /\ k + j <= Len(ptrs) => use[d + j] = ptrs[k + j]

UseInv ==
  Clean =>
    /\ StartsWith(useList, found.useList)
    /\ UsedAbove(useList, Len(found.useList), ptrList, Len(found.ptrList), Ahead, Behind)

(* A function that has not taken its flags yet. *)
Waiting ==
  \/ Entering /\ entry.name # Main
  \/ (AtStep("name") \/ AtStep("scan")) /\ Top(calls).name # Main
WaitingFlags == IF Entering THEN entry.pushed ELSE Top(calls).pushed

FlagsInv ==
  Clean =>
    /\ majorId > EXTENSION_ID_1
    /\ functionFlags = IF Waiting THEN Append(found.functionFlags, WaitingFlags)
                                  ELSE found.functionFlags

(* Setting->Lock is held while a class's header is written and while a stack
   is given back. *)
LockInv ==
  /\ Locked => gsLocks > 0
  /\ Clean => gsLocks = found.gsLocks + IF Locked THEN 1 ELSE 0

FoundType ==
  /\ phase = "done" => found = NULL
  /\ found # NULL =>
       found \in [useList : Seq(Stacks), ptrList : Seq(Stacks),
                  functionName : Seq(OpNames), className : Seq(Classes \cup {Main}),
                  functionFlags : Seq(Flags), gsLocks : Nat]

CallInv == PhaseInv /\ FrameInv /\ EntryInv /\ FlagInv /\ OwnFlags /\ CurrentInv
PoolInv == StackInv /\ TableInv /\ LostInv
PastInv == LockInv /\ UseInv /\ FoundType /\ FlagsInv /\ Balanced
IInv == TypeOK /\ CallInv /\ PoolInv /\ PlaceInv /\ PastInv
-----------------------------------------------------------------------------
(* Sequences as stacks. *)

LEMMA AppendFacts ==
  ASSUME NEW S, NEW s \in Seq(S), NEW x \in S
  PROVE  /\ Append(s, x) \in Seq(S) /\ Append(s, x) # <<>>
         /\ Len(Append(s, x)) = Len(s) + 1 /\ Len(s) \in Nat
         /\ \A i \in 1 .. Len(s) : Append(s, x)[i] = s[i]
         /\ Append(s, x)[Len(s) + 1] = x
         /\ Top(Append(s, x)) = x
BY DEF Top

LEMMA PoppedFacts ==
  ASSUME NEW S, NEW s \in Seq(S), s # <<>>
  PROVE  /\ Popped(s) \in Seq(S)
         /\ Len(s) \in Nat \ {0} /\ Len(Popped(s)) = Len(s) - 1
         /\ \A i \in 1 .. Len(s) - 1 : Popped(s)[i] = s[i]
         /\ Top(s) = s[Len(s)] /\ Top(s) \in S
<1>1. Len(s) \in Nat \ {0}
  OBVIOUS
<1>2. Popped(s) = [i \in 1 .. Len(s) - 1 |-> s[i]]
  BY <1>1 DEF Popped
<1>3. \A i \in 1 .. Len(s) - 1 : s[i] \in S
  BY <1>1
<1>4. Popped(s) \in [1 .. Len(s) - 1 -> S] /\ Len(s) - 1 \in Nat
  BY <1>1, <1>2, <1>3
<1>5. Popped(s) \in Seq(S) /\ Len(Popped(s)) = Len(s) - 1
  BY <1>4
<1>6. Top(s) = s[Len(s)] /\ Top(s) \in S
  BY <1>1 DEF Top
<1> QED
  BY <1>1, <1>2, <1>5, <1>6

LEMMA SameSequence ==
  ASSUME NEW S, NEW s \in Seq(S), NEW t \in Seq(S), Len(s) = Len(t),
         \A i \in 1 .. Len(t) : s[i] = t[i]
  PROVE  s = t
BY SeqEqual

LEMMA PoppedAppend ==
  ASSUME NEW S, NEW s \in Seq(S), NEW x \in S
  PROVE  Popped(Append(s, x)) = s
<1> DEFINE t == Append(s, x)
<1>1. t \in Seq(S) /\ t # <<>> /\ Len(t) = Len(s) + 1 /\ Len(s) \in Nat
      /\ \A i \in 1 .. Len(s) : t[i] = s[i]
  BY AppendFacts
<1> HIDE DEF t
<1>2. /\ Popped(t) \in Seq(S) /\ Len(Popped(t)) = Len(t) - 1
      /\ \A i \in 1 .. Len(t) - 1 : Popped(t)[i] = t[i]
  BY <1>1, PoppedFacts
<1>3. Popped(t) = s
  BY <1>1, <1>2, SameSequence
<1> QED
  BY <1>3 DEF t

LEMMA UnlinkedTop ==
  ASSUME NEW S, NEW s \in Seq(S), s # <<>>, NoDuplicates(s),
         NEW k \in DOMAIN s, s[k] = Top(s)
  PROVE  k = Len(s) /\ Unlinked(s, k) = Popped(s)
<1>1. Len(s) \in Nat \ {0} /\ DOMAIN s = 1 .. Len(s)
  OBVIOUS
<1>2. k = Len(s)
  BY <1>1 DEF NoDuplicates, Top
<1>3. Unlinked(s, k) = [i \in 1 .. Len(s) - 1 |-> s[i]]
  BY <1>1, <1>2 DEF Unlinked
<1>4. Popped(s) = [i \in 1 .. Len(s) - 1 |-> s[i]]
  BY <1>1 DEF Popped
<1> QED
  BY <1>2, <1>3, <1>4

LEMMA PopNameFacts ==
  ASSUME NEW S, NEW s \in Seq(S), Main \in S
  PROVE  /\ PopName(s) \in Seq(S)
         /\ Len(s) > 1 => PopName(s) = Popped(s)
         /\ Len(s) <= 1 => PopName(s) = <<Main>>
<1>1. Len(s) > 1 => s # <<>> /\ PopName(s) = Popped(s)
  BY DEF PopName
<1>2. Len(s) > 1 => Popped(s) \in Seq(S)
  BY <1>1, PoppedFacts
<1>3. Len(s) <= 1 => PopName(s) = <<Main>>
  BY DEF PopName
<1>4. Len(s) \in Nat
  OBVIOUS
<1>5. <<Main>> \in Seq(S)
  OBVIOUS
<1>6. PopName(s) \in Seq(S)
  <2>1. CASE Len(s) > 1
    BY <1>1, <1>2, <2>1
  <2>2. CASE Len(s) <= 1
    BY <1>3, <1>5, <2>2
  <2> QED
    BY <1>4, <2>1, <2>2
<1> QED
  BY <1>1, <1>3, <1>6
-----------------------------------------------------------------------------
(* The frames of a and b are those of the same calls. *)
SameCalls(a, b) ==
  /\ Len(a) = Len(b) /\ OpsOf(a) = OpsOf(b)
  /\ \A i \in OpsOf(b) : a[i].stack = b[i].stack /\ a[i].name = b[i].name

LEMMA SameCallsPlaces ==
  ASSUME NEW a, NEW b, NEW p, NEW ptrs, NEW fnames, SameCalls(a, b),
         PlacesIn(p, b, ptrs, fnames)
  PROVE  PlacesIn(p, a, ptrs, fnames)
BY DEF SameCalls, PlacesIn

(* t is s with x on top. *)
Pushed(t, s, x) ==
  Len(t) = Len(s) + 1 /\ t[Len(s) + 1] = x /\ \A i \in 1 .. Len(s) : t[i] = s[i]

LEMMA AppendPushed ==
  ASSUME NEW S, NEW s \in Seq(S), NEW x \in S
  PROVE  Pushed(Append(s, x), s, x)
BY AppendFacts DEF Pushed

LEMMA PoppedPushed ==
  ASSUME NEW S, NEW s \in Seq(S), s # <<>>
  PROVE  Pushed(s, Popped(s), Top(s))
BY PoppedFacts DEF Pushed

LEMMA StartsWithPushed ==
  ASSUME NEW S, NEW s \in Seq(S), NEW t \in Seq(S), NEW x, Pushed(t, s, x), NEW b \in Seq(S)
  PROVE  /\ StartsWith(s, b) => StartsWith(t, b)
         /\ StartsWith(t, b) /\ Len(b) <= Len(s) => StartsWith(s, b)
BY DEF Pushed, StartsWith

(* The operation calls below and at the top of a longer sequence of calls. *)
LEMMA OpsOfPushed ==
  ASSUME NEW a \in Seq(Frames), NEW b \in Seq(Frames), NEW f, Pushed(b, a, f)
  PROVE  /\ OpsOf(b) = OpsOf(a) \cup {i \in {Len(a) + 1} : f.kind = "op"}
         /\ \A i \in OpsOf(a) : i \in 1 .. Len(a) /\ b[i] = a[i]
         /\ Len(a) \in Nat
<1>1. /\ Len(a) \in Nat /\ DOMAIN a = 1 .. Len(a) /\ DOMAIN b = 1 .. Len(a) + 1
      /\ \A i \in 1 .. Len(a) : b[i] = a[i]
      /\ b[Len(a) + 1] = f
  BY DEF Pushed
<1> QED
  BY <1>1 DEF OpsOf

(* Different calls of dump_op_array_ex have different places, and these exist. *)
LEMMA PlacesApart ==
  ASSUME NEW cs \in Seq(Frames), NEW ptrs \in Seq(Stacks), NEW fnames \in Seq(OpNames),
         NEW p, PlacesIn(p, cs, ptrs, fnames)
  PROVE  /\ \A i \in OpsOf(cs) : /\ i \in 1 .. Len(cs) /\ p[i] \in 1 .. Len(ptrs)
                                 /\ p[0] < p[i]
         /\ \A i, j \in OpsOf(cs) : i < j => p[i] < p[j]
         /\ \A i \in 0 .. Len(cs) : p[i] \in 0 .. Len(ptrs)
         /\ NamePlace(p[0], ptrs, fnames) > 0 =>
              \A i \in OpsOf(cs) : NamePlace(p[i], ptrs, fnames) \in 1 .. Len(fnames)
         /\ Len(cs) \in Nat /\ Len(ptrs) \in Nat /\ Len(fnames) \in Nat
<1>1. /\ Len(cs) \in Nat /\ Len(ptrs) \in Nat /\ Len(fnames) \in Nat
      /\ DOMAIN cs = 1 .. Len(cs)
  OBVIOUS
<1>2. /\ \A i \in 0 .. Len(cs) : p[i] \in 0 .. Len(ptrs)
      /\ \A i, j \in 0 .. Len(cs) : i <= j => p[i] <= p[j]
      /\ \A i \in OpsOf(cs) : i \in 1 .. Len(cs) /\ p[i] = p[i - 1] + 1
  BY <1>1 DEF PlacesIn, OpsOf
<1>3. \A i \in OpsOf(cs) : /\ i \in 1 .. Len(cs) /\ i - 1 \in 0 .. Len(cs)
                           /\ p[0] <= p[i - 1] /\ p[i] = p[i - 1] + 1
                           /\ p[i - 1] \in 0 .. Len(ptrs) /\ p[i] \in 0 .. Len(ptrs)
                           /\ p[0] \in 0 .. Len(ptrs)
  BY <1>1, <1>2
<1>4. \A i, j \in OpsOf(cs) : i < j => p[i] < p[j]
  <2> SUFFICES ASSUME NEW i \in OpsOf(cs), NEW j \in OpsOf(cs), i < j
               PROVE  p[i] < p[j]
    OBVIOUS
  <2>1. i <= j - 1 /\ i \in 0 .. Len(cs) /\ j - 1 \in 0 .. Len(cs)
    BY <1>1, <1>3
  <2>2. p[i] <= p[j - 1] /\ p[j] = p[j - 1] + 1
    BY <1>2, <1>3, <2>1
  <2> QED
    BY <1>3, <2>2
<1>5. \A i \in OpsOf(cs) : i \in 1 .. Len(cs) /\ p[i] \in 1 .. Len(ptrs) /\ p[0] < p[i]
  BY <1>1, <1>3
<1>6. ASSUME NamePlace(p[0], ptrs, fnames) > 0, NEW i \in OpsOf(cs)
      PROVE  NamePlace(p[i], ptrs, fnames) \in 1 .. Len(fnames)
  BY <1>1, <1>3, <1>5, <1>6 DEF NamePlace
<1> QED
  BY <1>1, <1>2, <1>4, <1>5, <1>6

LEMMA PushedOpPlaces ==
  ASSUME NEW cs \in Seq(Frames), NEW ptrs \in Seq(Stacks), NEW fnames \in Seq(OpNames),
         NEW p, PlacesIn(p, cs, ptrs, fnames), NamePlace(p[0], ptrs, fnames) > 0,
         NEW ct \in Seq(Frames), NEW ptrt \in Seq(Stacks), NEW fnamet \in Seq(OpNames),
         NEW f, f.kind = "op", Pushed(ct, cs, f), Pushed(ptrt, ptrs, f.stack),
         Pushed(fnamet, fnames, f.name)
  PROVE  \E r : PlacesIn(r, ct, ptrt, fnamet) /\ r[0] = p[0]
<1> DEFINE n == Len(cs)
           q == Len(ptrs)
           r == [i \in 0 .. n + 1 |-> IF i = n + 1 THEN q + 1 ELSE p[i]]
<1>1. /\ n \in Nat /\ q \in Nat /\ Len(fnames) \in Nat
      /\ Len(ct) = n + 1 /\ Len(ptrt) = q + 1 /\ Len(fnamet) = Len(fnames) + 1
  BY DEF Pushed
<1>2. OpsOf(ct) = OpsOf(cs) \cup {n + 1} /\ \A i \in OpsOf(cs) : i \in 1 .. n /\ ct[i] = cs[i]
  BY OpsOfPushed
<1>3. /\ \A i \in 0 .. n : r[i] = p[i] /\ p[i] \in 0 .. q
      /\ r[n + 1] = q + 1 /\ p[n] = q
  <2>1. \A i \in 0 .. n : p[i] \in 0 .. q
    BY PlacesApart
  <2>2. p[n] = q
    BY DEF PlacesIn
  <2>3. n + 1 \in 0 .. n + 1 /\ \A i \in 0 .. n : i \in 0 .. n + 1 /\ i # n + 1
    BY <1>1
  <2> QED
    BY <2>1, <2>2, <2>3
<1>4. r \in [0 .. n + 1 -> 0 .. q + 1]
  <2>1. ASSUME NEW i \in 0 .. n + 1
        PROVE  r[i] \in 0 .. q + 1
    <3>1. CASE i = n + 1
      BY <1>1, <1>3, <3>1
    <3>2. CASE i \in 0 .. n
      <4>1. r[i] = p[i] /\ p[i] \in 0 .. q
        BY <1>3, <3>2
      <4> QED
        BY <1>1, <4>1
    <3> QED
      BY <1>1, <3>1, <3>2
  <2>2. DOMAIN r = 0 .. n + 1 /\ r = [i \in 0 .. n + 1 |-> r[i]]
    OBVIOUS
  <2> HIDE DEF r
  <2> QED
    BY <2>1, <2>2
<1> HIDE DEF r
<1>5. /\ \A i \in OpsOf(ct) : r[i] = r[i - 1] + 1
      /\ \A i \in (1 .. n + 1) \ OpsOf(ct) : r[i] = r[i - 1]
  <2>1. r[n + 1] = r[n + 1 - 1] + 1
    <3>1. n + 1 - 1 = n /\ n \in 0 .. n
      BY <1>1
    <3> QED
      BY <1>3, <3>1
  <2>2. \A i \in 1 .. n : r[i] = p[i] /\ r[i - 1] = p[i - 1]
    <3>1. \A i \in 1 .. n : i \in 0 .. n /\ i - 1 \in 0 .. n
      BY <1>1
    <3> QED
      BY <1>3, <3>1
  <2>3. /\ \A i \in OpsOf(cs) : p[i] = p[i - 1] + 1
        /\ \A i \in (1 .. n) \ OpsOf(cs) : p[i] = p[i - 1]
    BY DEF PlacesIn
  <2>4. \A i \in (1 .. n + 1) \ OpsOf(ct) : i \in (1 .. n) \ OpsOf(cs)
    BY <1>1, <1>2
  <2>5. ASSUME NEW i \in OpsOf(ct)
        PROVE  r[i] = r[i - 1] + 1
    <3>1. CASE i = n + 1
      BY <2>1, <3>1
    <3>2. CASE i \in OpsOf(cs)
      BY <1>2, <2>2, <2>3, <3>2
    <3> QED
      BY <1>2, <3>1, <3>2
  <2>6. ASSUME NEW i \in (1 .. n + 1) \ OpsOf(ct)
        PROVE  r[i] = r[i - 1]
    BY <2>2, <2>3, <2>4
  <2> QED
    BY <2>5, <2>6
<1>6. \A i, j \in 0 .. n + 1 : i <= j => r[i] <= r[j] /\ r[j] - r[i] <= j - i
  <2> SUFFICES ASSUME NEW i \in 0 .. n + 1, NEW j \in 0 .. n + 1, i <= j
               PROVE  r[i] <= r[j] /\ r[j] - r[i] <= j - i
    OBVIOUS
  <2>1. CASE j \in 0 .. n
    <3>1. i \in 0 .. n /\ p[i] <= p[j] /\ p[j] - p[i] <= j - i
      BY <1>1, <2>1 DEF PlacesIn
    <3> QED
      BY <1>3, <2>1, <3>1
  <2>2. CASE j = n + 1 /\ i \in 0 .. n
    <3>1. n \in 0 .. n /\ i <= n
      BY <1>1, <2>2
    <3>2. p[i] <= p[n] /\ p[n] - p[i] <= n - i
      BY <2>2, <3>1 DEF PlacesIn
    <3>3. r[i] = p[i] /\ p[i] \in 0 .. q /\ i \in 0 .. n
      BY <1>3, <2>2
    <3> QED
      BY <1>1, <1>3, <2>2, <3>2, <3>3
  <2>3. CASE j = n + 1 /\ i = n + 1
    BY <1>1, <1>3, <2>3
  <2> QED
    BY <1>1, <2>1, <2>2, <2>3
<1>7. ASSUME NEW i \in OpsOf(ct)
      PROVE  ptrt[r[i]] = ct[i].stack /\ fnamet[NamePlace(r[i], ptrt, fnamet)] = ct[i].name
  <2>1. CASE i = n + 1
    <3>1. NamePlace(q + 1, ptrt, fnamet) = Len(fnames) + 1
      BY <1>1 DEF NamePlace
    <3> QED
      BY <1>3, <2>1, <3>1 DEF Pushed
  <2>2. CASE i \in OpsOf(cs)
    <3>1. /\ i \in 1 .. n /\ ct[i] = cs[i] /\ r[i] = p[i] /\ p[i] \in 1 .. q
          /\ NamePlace(p[i], ptrs, fnames) \in 1 .. Len(fnames)
      BY <1>2, <1>3, <2>2, PlacesApart
    <3>2. NamePlace(p[i], ptrt, fnamet) = NamePlace(p[i], ptrs, fnames)
      BY <1>1, <3>1 DEF NamePlace
    <3>3. ptrs[p[i]] = cs[i].stack /\ fnames[NamePlace(p[i], ptrs, fnames)] = cs[i].name
      BY <2>2 DEF PlacesIn
    <3> HIDE DEF n
    <3> QED
      BY <3>1, <3>2, <3>3 DEF Pushed
  <2> QED
    BY <1>2, <2>1, <2>2
<1>8. PlacesIn(r, ct, ptrt, fnamet)
  BY <1>1, <1>3, <1>4, <1>5, <1>6, <1>7 DEF PlacesIn
<1> QED
  BY <1>1, <1>3, <1>8

LEMMA PushedClassPlaces ==
  ASSUME NEW cs \in Seq(Frames), NEW ptrs \in Seq(Stacks), NEW fnames \in Seq(OpNames),
         NEW p, PlacesIn(p, cs, ptrs, fnames),
         NEW ct \in Seq(Frames), NEW f, f.kind = "class", Pushed(ct, cs, f)
  PROVE  \E r : PlacesIn(r, ct, ptrs, fnames) /\ r[0] = p[0]
<1> DEFINE n == Len(cs)
           q == Len(ptrs)
           r == [i \in 0 .. n + 1 |-> IF i = n + 1 THEN q ELSE p[i]]
<1>1. n \in Nat /\ q \in Nat /\ Len(ct) = n + 1
  BY DEF Pushed
<1>2. OpsOf(ct) = OpsOf(cs) /\ \A i \in OpsOf(cs) : i \in 1 .. n /\ ct[i] = cs[i]
  <2>1. /\ OpsOf(ct) = OpsOf(cs) \cup {i \in {n + 1} : f.kind = "op"}
        /\ \A i \in OpsOf(cs) : i \in 1 .. n /\ ct[i] = cs[i]
    BY OpsOfPushed
  <2> QED
    BY <2>1
<1>3. /\ \A i \in 0 .. n : r[i] = p[i] /\ p[i] \in 0 .. q
      /\ r[n + 1] = q /\ p[n] = q
  <2>1. \A i \in 0 .. n : p[i] \in 0 .. q
    BY PlacesApart
  <2>2. p[n] = q
    BY DEF PlacesIn
  <2>3. n + 1 \in 0 .. n + 1 /\ \A i \in 0 .. n : i \in 0 .. n + 1 /\ i # n + 1
    BY <1>1
  <2> QED
    BY <2>1, <2>2, <2>3
<1>4. r \in [0 .. n + 1 -> 0 .. q]
  <2>1. ASSUME NEW i \in 0 .. n + 1
        PROVE  r[i] \in 0 .. q
    <3>1. CASE i = n + 1
      BY <1>1, <1>3, <3>1
    <3>2. CASE i \in 0 .. n
      BY <1>3, <3>2
    <3> QED
      BY <1>1, <3>1, <3>2
  <2>2. DOMAIN r = 0 .. n + 1 /\ r = [i \in 0 .. n + 1 |-> r[i]]
    OBVIOUS
  <2> HIDE DEF r
  <2> QED
    BY <2>1, <2>2
<1> HIDE DEF r
<1>5. /\ \A i \in OpsOf(ct) : r[i] = r[i - 1] + 1
      /\ \A i \in (1 .. n + 1) \ OpsOf(ct) : r[i] = r[i - 1]
  <2>1. r[n + 1] = r[n + 1 - 1]
    BY <1>1, <1>3
  <2>2. \A i \in 1 .. n : r[i] = p[i] /\ r[i - 1] = p[i - 1]
    <3>1. \A i \in 1 .. n : i \in 0 .. n /\ i - 1 \in 0 .. n
      BY <1>1
    <3> QED
      BY <1>3, <3>1
  <2>3. /\ \A i \in OpsOf(cs) : p[i] = p[i - 1] + 1
        /\ \A i \in (1 .. n) \ OpsOf(cs) : p[i] = p[i - 1]
    BY DEF PlacesIn
  <2>4. \A i \in (1 .. n + 1) \ OpsOf(ct) : i = n + 1 \/ i \in (1 .. n) \ OpsOf(cs)
    BY <1>1, <1>2
  <2>5. ASSUME NEW i \in OpsOf(ct)
        PROVE  r[i] = r[i - 1] + 1
    BY <1>2, <2>2, <2>3
  <2>6. ASSUME NEW i \in (1 .. n + 1) \ OpsOf(ct)
        PROVE  r[i] = r[i - 1]
    <3>1. CASE i = n + 1
      BY <2>1, <3>1
    <3>2. CASE i \in (1 .. n) \ OpsOf(cs)
      BY <2>2, <2>3, <3>2
    <3> QED
      BY <2>4, <3>1, <3>2
  <2> QED
    BY <2>5, <2>6
<1>6. \A i, j \in 0 .. n + 1 : i <= j => r[i] <= r[j] /\ r[j] - r[i] <= j - i
  <2> SUFFICES ASSUME NEW i \in 0 .. n + 1, NEW j \in 0 .. n + 1, i <= j
               PROVE  r[i] <= r[j] /\ r[j] - r[i] <= j - i
    OBVIOUS
  <2>1. CASE j \in 0 .. n
    <3>1. i \in 0 .. n /\ p[i] <= p[j] /\ p[j] - p[i] <= j - i
      BY <1>1, <2>1 DEF PlacesIn
    <3> QED
      BY <1>3, <2>1, <3>1
  <2>2. CASE j = n + 1 /\ i \in 0 .. n
    <3>1. n \in 0 .. n /\ i <= n
      BY <1>1, <2>2
    <3>2. p[i] <= p[n] /\ p[n] - p[i] <= n - i
      BY <2>2, <3>1 DEF PlacesIn
    <3>3. r[i] = p[i] /\ p[i] \in 0 .. q /\ i \in 0 .. n
      BY <1>3, <2>2
    <3> QED
      BY <1>1, <1>3, <2>2, <3>2, <3>3
  <2>3. CASE j = n + 1 /\ i = n + 1
    BY <1>1, <1>3, <2>3
  <2> QED
    BY <1>1, <2>1, <2>2, <2>3
<1>7. ASSUME NEW i \in OpsOf(ct)
      PROVE  ptrs[r[i]] = ct[i].stack /\ fnames[NamePlace(r[i], ptrs, fnames)] = ct[i].name
  <2>1. i \in 0 .. n /\ ct[i] = cs[i] /\ r[i] = p[i]
    BY <1>1, <1>2, <1>3
  <2> QED
    BY <1>2, <2>1 DEF PlacesIn
<1>8. PlacesIn(r, ct, ptrs, fnames)
  BY <1>1, <1>3, <1>4, <1>5, <1>6, <1>7 DEF PlacesIn
<1> QED
  BY <1>1, <1>3, <1>8

LEMMA PoppedOpPlaces ==
  ASSUME NEW cs \in Seq(Frames), NEW ptrs \in Seq(Stacks), NEW fnames \in Seq(OpNames),
         NEW ct \in Seq(Frames), NEW ptrt \in Seq(Stacks), NEW fnamet \in Seq(OpNames),
         NEW p, PlacesIn(p, ct, ptrt, fnamet), NamePlace(p[0], ptrt, fnamet) > 0,
         NEW f, NEW x, NEW y, f.kind = "op",
         Pushed(ct, cs, f), Pushed(ptrt, ptrs, x), Pushed(fnamet, fnames, y)
  PROVE  /\ p[0] \in 0 .. Len(ptrs)
         /\ \E r : PlacesIn(r, cs, ptrs, fnames) /\ r[0] = p[0]
<1> DEFINE n == Len(cs)
           q == Len(ptrs)
           r == [i \in 0 .. n |-> p[i]]
<1>1. /\ n \in Nat /\ q \in Nat /\ Len(fnames) \in Nat
      /\ Len(ct) = n + 1 /\ Len(ptrt) = q + 1 /\ Len(fnamet) = Len(fnames) + 1
  BY DEF Pushed
<1>2. OpsOf(ct) = OpsOf(cs) \cup {n + 1} /\ \A i \in OpsOf(cs) : i \in 1 .. n /\ ct[i] = cs[i]
  BY OpsOfPushed
<1>3. p[n] = q
  <2>1. n + 1 - 1 = n /\ n \in 0 .. Len(ct) /\ n + 1 \in OpsOf(ct)
    BY <1>1, <1>2
  <2>2. p[n + 1] = q + 1 /\ p[n + 1] = p[n + 1 - 1] + 1
    <3>1. p[Len(ct)] = Len(ptrt) /\ \A i \in OpsOf(ct) : p[i] = p[i - 1] + 1
      BY DEF PlacesIn
    <3> QED
      BY <1>1, <2>1, <3>1
  <2>3. p[n] \in 0 .. Len(ptrt)
    BY <2>1, PlacesApart
  <2> QED
    BY <1>1, <2>1, <2>2, <2>3
<1>4. \A i \in 0 .. n : p[i] \in 0 .. q
  <2> SUFFICES ASSUME NEW i \in 0 .. n PROVE p[i] \in 0 .. q
    OBVIOUS
  <2>1. /\ i \in 0 .. Len(ct) /\ n \in 0 .. Len(ct) /\ i <= n
    BY <1>1
  <2>2. p[i] \in 0 .. q + 1 /\ p[i] <= p[n]
    BY <1>1, <2>1, PlacesApart DEF PlacesIn
  <2> QED
    BY <1>1, <1>3, <2>2
<1>5. r \in [0 .. n -> 0 .. q] /\ \A i \in 0 .. n : r[i] = p[i]
  BY <1>4
<1> HIDE DEF r
<1>6. /\ \A i \in OpsOf(cs) : r[i] = r[i - 1] + 1
      /\ \A i \in (1 .. n) \ OpsOf(cs) : r[i] = r[i - 1]
  <2>1. \A i \in 1 .. n : r[i] = p[i] /\ r[i - 1] = p[i - 1]
    <3>1. \A i \in 1 .. n : i \in 0 .. n /\ i - 1 \in 0 .. n
      BY <1>1
    <3> QED
      BY <1>5, <3>1
  <2>2. /\ \A i \in OpsOf(ct) : p[i] = p[i - 1] + 1
        /\ \A i \in (1 .. n + 1) \ OpsOf(ct) : p[i] = p[i - 1]
    BY <1>1 DEF PlacesIn
  <2>3. \A i \in (1 .. n) \ OpsOf(cs) : i \in (1 .. n + 1) \ OpsOf(ct)
    BY <1>1, <1>2
  <2> QED
    BY <1>2, <2>1, <2>2, <2>3
<1>7. \A i, j \in 0 .. n : i <= j => r[i] <= r[j] /\ r[j] - r[i] <= j - i
  <2>1. \A i \in 0 .. n : i \in 0 .. Len(ct)
    BY <1>1
  <2> QED
    BY <1>5, <2>1 DEF PlacesIn
<1>8. ASSUME NEW i \in OpsOf(cs)
      PROVE  ptrs[r[i]] = cs[i].stack /\ fnames[NamePlace(r[i], ptrs, fnames)] = cs[i].name
  <2>1. i \in OpsOf(ct) /\ i \in 0 .. n /\ ct[i] = cs[i]
    BY <1>1, <1>2
  <2>2. /\ r[i] = p[i] /\ p[i] \in 1 .. q
        /\ NamePlace(p[i], ptrt, fnamet) \in 1 .. Len(fnames) + 1
    <3>1. p[i] \in 1 .. q + 1 /\ NamePlace(p[i], ptrt, fnamet) \in 1 .. Len(fnames) + 1
      BY <1>1, <2>1, PlacesApart
    <3> QED
      BY <1>1, <1>4, <1>5, <2>1, <3>1
  <2>3. /\ NamePlace(p[i], ptrs, fnames) = NamePlace(p[i], ptrt, fnamet)
        /\ NamePlace(p[i], ptrs, fnames) \in 1 .. Len(fnames)
    BY <1>1, <2>2 DEF NamePlace
  <2>4. ptrt[p[i]] = ct[i].stack /\ fnamet[NamePlace(p[i], ptrt, fnamet)] = ct[i].name
    BY <2>1 DEF PlacesIn
  <2> HIDE DEF n, q
  <2>5. ptrs[p[i]] = ptrt[p[i]]
    BY <2>2 DEF Pushed, q
  <2>6. fnames[NamePlace(p[i], ptrs, fnames)] = fnamet[NamePlace(p[i], ptrs, fnames)]
    BY <2>3 DEF Pushed
  <2> QED
    BY <2>1, <2>2, <2>3, <2>4, <2>5, <2>6
<1>9. PlacesIn(r, cs, ptrs, fnames)
  <2>1. r[n] = q
    <3>1. n \in 0 .. n
      BY <1>1
    <3> QED
      BY <1>3, <1>5, <3>1
  <2> QED
    BY <1>5, <1>6, <1>7, <1>8, <2>1 DEF PlacesIn
<1>10. 0 \in 0 .. n
  BY <1>1
<1> QED
  BY <1>4, <1>5, <1>9, <1>10

LEMMA PoppedClassPlaces ==
  ASSUME NEW cs \in Seq(Frames), NEW ptrs \in Seq(Stacks), NEW fnames \in Seq(OpNames),
         NEW ct \in Seq(Frames), NEW p, PlacesIn(p, ct, ptrs, fnames),
         NEW f, f.kind = "class", Pushed(ct, cs, f)
  PROVE  \E r : PlacesIn(r, cs, ptrs, fnames) /\ r[0] = p[0]
<1> DEFINE n == Len(cs)
           q == Len(ptrs)
           r == [i \in 0 .. n |-> p[i]]
<1>1. n \in Nat /\ q \in Nat /\ Len(ct) = n + 1
  BY DEF Pushed
<1>2. OpsOf(ct) = OpsOf(cs) /\ \A i \in OpsOf(cs) : i \in 1 .. n /\ ct[i] = cs[i]
  <2>1. /\ OpsOf(ct) = OpsOf(cs) \cup {i \in {n + 1} : f.kind = "op"}
        /\ \A i \in OpsOf(cs) : i \in 1 .. n /\ ct[i] = cs[i]
    BY OpsOfPushed
  <2> QED
    BY <2>1
<1>3. p[n] = q
  <2>1. n + 1 \in (1 .. n + 1) \ OpsOf(ct) /\ n + 1 - 1 = n
    BY <1>1, <1>2
  <2>2. p[n + 1] = q /\ p[n + 1] = p[n + 1 - 1]
    BY <1>1, <2>1 DEF PlacesIn
  <2> QED
    BY <2>1, <2>2
<1>4. \A i \in 0 .. n : p[i] \in 0 .. q
  <2>1. \A i \in 0 .. n : i \in 0 .. n + 1
    BY <1>1
  <2> QED
    BY <1>1, <2>1, PlacesApart
<1>5. r \in [0 .. n -> 0 .. q] /\ \A i \in 0 .. n : r[i] = p[i]
  BY <1>4
<1> HIDE DEF r
<1>6. /\ \A i \in OpsOf(cs) : r[i] = r[i - 1] + 1
      /\ \A i \in (1 .. n) \ OpsOf(cs) : r[i] = r[i - 1]
  <2>1. \A i \in 1 .. n : r[i] = p[i] /\ r[i - 1] = p[i - 1]
    <3>1. \A i \in 1 .. n : i \in 0 .. n /\ i - 1 \in 0 .. n
      BY <1>1
    <3> QED
      BY <1>5, <3>1
  <2>2. /\ \A i \in OpsOf(ct) : p[i] = p[i - 1] + 1
        /\ \A i \in (1 .. n + 1) \ OpsOf(ct) : p[i] = p[i - 1]
    BY <1>1 DEF PlacesIn
  <2>3. \A i \in (1 .. n) \ OpsOf(cs) : i \in (1 .. n + 1) \ OpsOf(ct)
    BY <1>1, <1>2
  <2> QED
    BY <1>2, <2>1, <2>2, <2>3
<1>7. \A i, j \in 0 .. n : i <= j => r[i] <= r[j] /\ r[j] - r[i] <= j - i
  <2>1. \A i \in 0 .. n : i \in 0 .. Len(ct)
    BY <1>1
  <2> QED
    BY <1>5, <2>1 DEF PlacesIn
<1>8. ASSUME NEW i \in OpsOf(cs)
      PROVE  ptrs[r[i]] = cs[i].stack /\ fnames[NamePlace(r[i], ptrs, fnames)] = cs[i].name
  <2>1. i \in OpsOf(ct) /\ i \in 0 .. n /\ ct[i] = cs[i] /\ r[i] = p[i]
    BY <1>1, <1>2, <1>5
  <2> QED
    BY <2>1 DEF PlacesIn
<1>9. PlacesIn(r, cs, ptrs, fnames)
  <2>1. r[n] = q
    <3>1. n \in 0 .. n
      BY <1>1
    <3> QED
      BY <1>3, <1>5, <3>1
  <2> QED
    BY <1>5, <1>6, <1>7, <1>8, <2>1 DEF PlacesIn
<1>10. 0 \in 0 .. n
  BY <1>1
<1> QED
  BY <1>5, <1>9, <1>10
-----------------------------------------------------------------------------
(* What the types say. *)

LEMMA CallTypes ==
  ASSUME TypeOK
  PROVE  /\ calls \in Seq(Frames) /\ ptrList \in Seq(Stacks) /\ functionName \in Seq(OpNames)
         /\ Len(calls) \in Nat /\ Len(ptrList) \in Nat /\ Len(functionName) \in Nat
         /\ className \in Seq(Classes \cup {Main}) /\ Len(className) \in Nat
         /\ functionFlags \in Seq(Flags) /\ DOMAIN calls = 1 .. Len(calls)
         /\ useList \in Seq(Stacks) /\ Len(useList) \in Nat /\ freeList \in Seq(Stacks)
         /\ gsLocks \in Nat
BY DEF TypeOK, Frames

LEMMA EntryTypes ==
  ASSUME TypeOK
  PROVE  /\ entry.name \in OpNames /\ entry.pushed \in Flags \cup {NULL}
         /\ entry.step \in {"new", "post", "enter"} => entry.stack \in Stacks
         /\ entry.step \in {"none", "take"} => entry.stack = NULL
         /\ entry.step \in {"none", "take", "new", "post", "enter"}
BY DEF TypeOK, Entries

LEMMA NoEntryFacts ==
  /\ NoEntry \in Entries /\ NoEntry.step = "none" /\ NoEntry.stack = NULL
  /\ \A name \in OpNames, flags \in Flags \cup {NULL} :
       [step |-> "take", name |-> name, pushed |-> flags, stack |-> NULL] \in Entries
BY DEF NoEntry, Entries, OpNames

LEMMA EntryStep ==
  ASSUME TypeOK, NEW k, NEW s,
         (k = "take" /\ s = NULL) \/ (k \in {"new", "post", "enter"} /\ s \in Stacks),
         entry' = [entry EXCEPT !.step = k, !.stack = s]
  PROVE  /\ entry' \in Entries /\ entry'.step = k /\ entry'.stack = s
         /\ entry'.name = entry.name /\ entry'.pushed = entry.pushed
BY DEF TypeOK, Entries

LEMMA EntryKept ==
  ASSUME TypeOK, NEW k, NEW s,
         entry' = [entry EXCEPT !.step = k, !.stack = s] \/ entry' = [entry EXCEPT !.step = k]
  PROVE  entry'.name = entry.name /\ entry'.pushed = entry.pushed
<1>1. CASE entry' = [entry EXCEPT !.step = k, !.stack = s]
  BY <1>1 DEF TypeOK, Entries
<1>2. CASE entry' = [entry EXCEPT !.step = k]
  BY <1>2 DEF TypeOK, Entries
<1> QED
  BY <1>1, <1>2

LEMMA TopCall ==
  ASSUME TypeOK, calls # <<>>
  PROVE  /\ Len(calls) \in Nat \ {0} /\ DOMAIN calls = 1 .. Len(calls)
         /\ Top(calls) = calls[Len(calls)] /\ Top(calls) \in Frames
         /\ InOpArray => Top(calls) \in OpFrame /\ Len(calls) \in OpCalls
         /\ InClass => Top(calls) \in ClassFrame /\ ~Op(Len(calls))
<1>1. calls \in Seq(Frames)
  BY DEF TypeOK, Frames
<1>2. Len(calls) \in Nat \ {0} /\ DOMAIN calls = 1 .. Len(calls)
  BY <1>1
<1>3. Top(calls) = calls[Len(calls)] /\ Top(calls) \in Frames
  BY <1>1, PoppedFacts
<1>4. \A f \in Frames : /\ f.kind = "op" => f \in OpFrame
                        /\ f.kind = "class" => f \in ClassFrame
  BY DEF Frames, OpFrame, ClassFrame
<1>5. InOpArray => calls[Len(calls)].kind = "op"
  BY <1>3 DEF InOpArray
<1>6. InClass => calls[Len(calls)].kind = "class"
  BY <1>3 DEF InClass
<1>7. InOpArray => Top(calls) \in OpFrame
  BY <1>3, <1>4 DEF InOpArray
<1>8. InOpArray => Len(calls) \in OpCalls
  BY <1>2, <1>5 DEF OpCalls
<1>9. InClass => Top(calls) \in ClassFrame
  BY <1>3, <1>4 DEF InClass
<1>10. InClass => ~Op(Len(calls))
  BY <1>6 DEF Op
<1> QED
  BY <1>2, <1>3, <1>7, <1>8, <1>9, <1>10

LEMMA OpCallsAre == OpCalls = OpsOf(calls)
BY DEF OpCalls, OpsOf

LEMMA OpCallTypes ==
  ASSUME TypeOK, NEW i \in OpCalls
  PROVE  i \in 1 .. Len(calls) /\ calls[i] \in OpFrame /\ calls[i].stack \in Stacks /\ Op(i)
<1>1. calls \in Seq(Frames) /\ i \in DOMAIN calls /\ calls[i].kind = "op"
  BY CallTypes DEF OpCalls
<1>2. calls[i] \in Frames /\ i \in 1 .. Len(calls)
  BY <1>1
<1>3. calls[i] \in OpFrame
  BY <1>1, <1>2 DEF Frames, OpFrame, ClassFrame
<1> QED
  BY <1>1, <1>2, <1>3 DEF OpFrame, Op

(* The step of the innermost call replaces its frame. *)
LEMMA TopReplaced ==
  ASSUME TypeOK, calls # <<>>, NEW f \in Frames, NEW new,
         new = [calls EXCEPT ![Len(calls)] = f]
  PROVE  /\ new \in Seq(Frames) /\ Len(new) = Len(calls)
         /\ \A i \in 1 .. Len(calls) - 1 : new[i] = calls[i]
         /\ new[Len(calls)] = f
BY TopCall DEF TypeOK, Frames

OpSteps == {"name", "scan", "dump", "clear", "give", "unname", "pop"}

(* The innermost dump_op_array_ex goes on to its step k. *)
LEMMA NextStep ==
  ASSUME TypeOK, InOpArray, NEW k \in OpSteps,
         calls' = [calls EXCEPT ![Len(calls)].step = k]
  PROVE  LET f == [Top(calls) EXCEPT !.step = k]
         IN  /\ f \in OpFrame /\ f.kind = "op" /\ f.step = k /\ f.stack = Top(calls).stack
             /\ f.name = Top(calls).name /\ f.pushed = Top(calls).pushed
             /\ f.popped = Top(calls).popped
             /\ calls' = [calls EXCEPT ![Len(calls)] = f]
<1>1. calls # <<>> /\ Top(calls) \in OpFrame
  BY TopCall DEF InOpArray
<1> QED
  BY <1>1 DEF OpFrame, OpSteps, Top

LEMMA NextStepType ==
  ASSUME TypeOK, InOpArray, NEW k \in OpSteps,
         calls' = [calls EXCEPT ![Len(calls)].step = k]
  PROVE  calls' \in Seq(Frames)
<1>1. calls # <<>>
  BY DEF InOpArray
<1>2. \E f \in OpFrame : calls' = [calls EXCEPT ![Len(calls)] = f]
  BY NextStep
<1> QED
  BY <1>1, <1>2, TopReplaced DEF Frames

LEMMA InitIInv == Init => IInv
<1> SUFFICES ASSUME Init PROVE IInv
  OBVIOUS
<1> USE SessionAssumption DEF Init
<1>1. PICK s \in Stacks : live = {s} /\ freeList = <<s>> /\ gsStack = s
  OBVIOUS
<1>2. Elems(<<>>) = {} /\ Elems(<<s>>) = {s}
  BY DEF Elems
<1>3. TypeOK
  BY <1>1, <1>2, NoEntryFacts DEF TypeOK, Trying, NoDuplicates
<1>4. OpCalls = {} /\ ~Entering /\ ~InOpArray /\ ~InClass /\ NoCall
  BY NoEntryFacts DEF OpCalls, Entering, InOpArray, InClass, NoCall
<1>5. CallInv
  BY <1>4 DEF CallInv, PhaseInv, FrameInv, EntryInv, FlagInv, OwnFlags, CurrentInv
<1>6. StackInv /\ TableInv
  BY <1>4, NoEntryFacts DEF StackInv, TableInv
<1>7. LostInv
  <2>1. Lost = {}
    BY <1>1, <1>2 DEF Lost
  <2> QED
    BY <2>1, FS_EmptySet DEF LostInv, Ended, Trying
<1>8. PlaceInv
  <2> DEFINE p == [i \in 0 .. 0 |-> 0]
  <2>1. CallNames = <<>>
    BY <1>4 DEF CallNames, AtStep
  <2>2. Places(p) /\ NamesBelow(p[0]) /\ ~Clean
    BY <2>1 DEF Places, PlacesIn, OpsOf, NamesBelow, Clean, Trying
  <2> QED
    BY <2>2 DEF PlaceInv
<1>9. PastInv
  BY <1>4 DEF PastInv, LockInv, UseInv, FoundType, FlagsInv, Balanced, InHeader, Freeing, Locked,
              AtStep, Clean
<1> QED
  BY <1>3, <1>5, <1>6, <1>7, <1>8, <1>9 DEF IInv, PoolInv
-----------------------------------------------------------------------------
(* Type correctness.  That a stack enters one list only, and that the lock is
   entered when it is left, takes more of the invariant. *)

(* The innermost call, or the one that enters, is inside the __try block. *)
LEMMA InsideTry ==
  ASSUME IInv, Entering \/ InOpArray \/ InClass
  PROVE  phase \in Trying
BY DEF IInv, CallInv, PhaseInv, NoCall, InOpArray, InClass

LEMMA TopStack ==
  ASSUME IInv, InOpArray
  PROVE  /\ Top(calls).stack \in Stacks
         /\ Top(calls).step \in Owning => Top(calls).stack \in InUse
         /\ Top(calls).step \in {"clear", "give"} => Top(calls).stack \in Astray
<1>1. calls # <<>> /\ TypeOK
  BY DEF InOpArray, IInv
<1>2. Len(calls) \in OpCalls /\ Top(calls) = calls[Len(calls)]
  BY <1>1, TopCall
<1> QED
  BY <1>1, <1>2, OpCallTypes DEF IInv, PoolInv, StackInv

(* One more stack in a list. *)
LEMMA LinkedType ==
  ASSUME TypeOK, NEW list \in Seq(Stacks), NoDuplicates(list), NEW s \in Astray,
         Elems(list) \subseteq Free \cup InUse
  PROVE  /\ Append(list, s) \in Seq(Stacks) /\ NoDuplicates(Append(list, s))
         /\ Elems(Append(list, s)) = Elems(list) \cup {s}
         /\ s \in live /\ s \notin Free /\ s \notin InUse /\ s \in Stacks
<1>1. s \in Stacks /\ s \notin Elems(list) /\ s \in live /\ s \notin Free /\ s \notin InUse
  BY DEF Astray, TypeOK
<1> QED
  BY <1>1, AppendElems

LEMMA UnlinkType ==
  ASSUME IInv, UnlinkStack
  PROVE  /\ \E k \in DOMAIN useList :
              useList[k] = Top(calls).stack /\ useList' = Unlinked(useList, k)
         /\ useList' \in Seq(Stacks) /\ NoDuplicates(useList')
         /\ InUse' = InUse \ {Top(calls).stack}
         /\ Top(calls).stack \in InUse /\ Top(calls).stack \in Stacks
<1> DEFINE s == Top(calls).stack
<1>1. s \in InUse /\ s \in Stacks
  BY TopStack DEF UnlinkStack, Dumping, AtStep, Owning
<1> HIDE DEF s
<1>2. PICK k \in DOMAIN useList : useList[k] = s /\ useList' = Unlinked(useList, k)
  BY <1>1 DEF UnlinkStack, InUse, s
<1>3. useList \in Seq(Stacks) /\ NoDuplicates(useList)
  BY DEF IInv, TypeOK
<1>4. /\ Unlinked(useList, k) \in Seq(Stacks) /\ NoDuplicates(Unlinked(useList, k))
      /\ Elems(Unlinked(useList, k)) = Elems(useList) \ {useList[k]}
  BY <1>3, UnlinkedElems
<1>5. InUse' = InUse \ {s}
  BY <1>2, <1>4 DEF InUse
<1> QED
  BY <1>1, <1>2, <1>4, <1>5 DEF s

(* An action of the call that takes its stack. *)
LEMMA EnteringType ==
  ASSUME IInv,
         RemoveFree \/ AllocateStack \/ InsertFree \/ AllocateStackFails \/ InsertInUse
  PROVE  TypeOK'
<1> USE DEF current, names, script, pool
<1>1. TypeOK
  BY DEF IInv
<1>2. CASE RemoveFree
  <2>1. freeList \in Seq(Stacks) /\ freeList # <<>> /\ NoDuplicates(freeList)
    BY <1>1, <1>2 DEF RemoveFree, TypeOK
  <2>2. /\ Tail(freeList) \in Seq(Stacks) /\ NoDuplicates(Tail(freeList))
        /\ Elems(freeList) = Elems(Tail(freeList)) \cup {Head(freeList)}
        /\ Head(freeList) \in Stacks
    BY <2>1, TailElems
  <2>3. entry' \in Entries
    BY <1>1, <1>2, <2>2, EntryStep DEF RemoveFree
  <2> QED
    BY <1>1, <1>2, <2>2, <2>3 DEF RemoveFree, TypeOK
<1>3. CASE AllocateStack
  <2>1. PICK s \in Stacks \ live :
          live' = live \cup {s} /\ entry' = [entry EXCEPT !.step = "new", !.stack = s]
    BY <1>3 DEF AllocateStack
  <2>2. entry' \in Entries
    BY <1>1, <2>1, EntryStep
  <2> QED
    BY <1>1, <1>3, <2>1, <2>2 DEF AllocateStack, TypeOK
<1>4. CASE InsertFree
  <2>1. entry.stack \in Astray /\ freeList \in Seq(Stacks) /\ NoDuplicates(freeList)
    BY <1>1, <1>4 DEF InsertFree, IInv, PoolInv, StackInv, TypeOK
  <2>2. /\ freeList' \in Seq(Stacks) /\ NoDuplicates(freeList')
        /\ Elems(freeList') = Free \cup {entry.stack}
        /\ entry.stack \in live /\ entry.stack \notin InUse
    BY <1>1, <1>4, <2>1, LinkedType DEF InsertFree, Free
  <2>3. entry' \in Entries
    BY <1>1, <1>4, EntryStep DEF InsertFree
  <2> QED
    BY <1>1, <1>4, <2>2, <2>3 DEF InsertFree, TypeOK, Free, InUse
<1>5. CASE AllocateStackFails
  BY <1>1, <1>5, NoEntryFacts DEF AllocateStackFails, TypeOK
<1>6. CASE InsertInUse
  <2>1. entry.stack \in Astray /\ useList \in Seq(Stacks) /\ NoDuplicates(useList)
    BY <1>1, <1>6 DEF InsertInUse, IInv, PoolInv, StackInv, TypeOK
  <2>2. /\ useList' \in Seq(Stacks) /\ NoDuplicates(useList')
        /\ Elems(useList') = InUse \cup {entry.stack}
        /\ entry.stack \in live /\ entry.stack \notin Free
    BY <1>1, <1>6, <2>1, LinkedType DEF InsertInUse, InUse
  <2>3. entry' \in Entries
    <3>1. entry' = [entry EXCEPT !.step = "enter", !.stack = entry.stack]
      BY <1>1, <1>6 DEF InsertInUse, TypeOK, Entries
    <3> QED
      BY <1>1, <1>6, <3>1, EntryStep, EntryTypes DEF InsertInUse
  <2> QED
    BY <1>1, <1>6, <2>2, <2>3 DEF InsertInUse, TypeOK, Free, InUse
<1> QED
  BY <1>2, <1>3, <1>4, <1>5, <1>6

(* An action of the innermost dump_op_array_ex on its stack. *)
LEMMA FreeingType ==
  ASSUME IInv, UnlinkStack \/ FreeVariables \/ GiveBack \/ PopFunctionName
  PROVE  TypeOK'
<1> USE DEF current, names, script, pool
<1>1. TypeOK /\ InOpArray
  BY DEF IInv, UnlinkStack, FreeVariables, GiveBack, PopFunctionName, Dumping, AtStep
<1>2. calls' \in Seq(Frames)
  BY <1>1, NextStepType DEF UnlinkStack, FreeVariables, GiveBack, PopFunctionName, OpSteps
<1>3. CASE UnlinkStack
  <2>1. useList' \in Seq(Stacks) /\ NoDuplicates(useList') /\ Elems(useList') \subseteq Elems(useList)
    BY <1>3, UnlinkType DEF InUse
  <2> QED
    BY <1>1, <1>2, <1>3, <2>1 DEF UnlinkStack, TypeOK, Frames
<1>4. CASE FreeVariables
  BY <1>1, <1>2, <1>4 DEF FreeVariables, TypeOK, Frames
<1>5. CASE GiveBack
  <2> DEFINE s == Top(calls).stack
  <2>1. s \in Astray /\ freeList \in Seq(Stacks) /\ NoDuplicates(freeList)
    BY <1>1, <1>5, TopStack DEF GiveBack, AtStep, TypeOK
  <2> HIDE DEF s
  <2>2. freeList' = Append(freeList, s) /\ gsLocks' = gsLocks - 1 /\ gsLocks > 0
    BY <1>5 DEF GiveBack, s, IInv, PastInv, LockInv, Locked, Freeing
  <2>3. /\ freeList' \in Seq(Stacks) /\ NoDuplicates(freeList')
        /\ Elems(freeList') = Free \cup {s} /\ s \in live /\ s \notin InUse
    BY <1>1, <2>1, <2>2, LinkedType DEF Free
  <2> QED
    BY <1>1, <1>2, <1>5, <2>2, <2>3 DEF GiveBack, TypeOK, Frames, Free, InUse
<1>6. CASE PopFunctionName
  <2>1. functionName' \in Seq(OpNames)
    BY <1>1, <1>6, PopNameFacts DEF PopFunctionName, TypeOK, OpNames
  <2> QED
    BY <1>1, <1>2, <1>6, <2>1 DEF PopFunctionName, TypeOK, Frames
<1> QED
  BY <1>3, <1>4, <1>5, <1>6

LEMMA EnterOpArrayType ==
  ASSUME TypeOK, NEW name \in OpNames, NEW flags \in Flags \cup {NULL},
         EnterOpArray(name, flags), calls' \in Seq(Frames), functionFlags' \in Seq(Flags),
         phase' \in Trying, seen' \in SUBSET (Classes \cup Functions),
         UNCHANGED <<pool, current, names, gsLocks, script>>
  PROVE  TypeOK'
<1>1. entry' \in Entries
  BY NoEntryFacts DEF EnterOpArray
<1> QED
  BY <1>1 DEF TypeOK, pool, current, names, script, Frames

LEMMA EnterClassType ==
  ASSUME TypeOK, NEW c \in Classes, EnterClass(c), phase' \in Trying,
         seen' \in SUBSET (Classes \cup Functions)
  PROVE  TypeOK'
<1> USE SessionAssumption DEF TypeOK, EnterClass, pool, current, script
<1> DEFINE f == [kind |-> "class", name |-> c, step |-> "head", todo |-> Methods]
<1>1. f \in ClassFrame
  BY DEF ClassFrame
<1>2. calls' = Append(calls, f)
  OBVIOUS
<1> HIDE DEF f
<1>3. calls' \in Seq(OpFrame \cup ClassFrame)
  BY <1>1, <1>2, AppendFacts
<1>4. className' \in Seq(Classes \cup {Main})
  BY AppendFacts
<1> QED
  BY <1>3, <1>4

LEMMA PushStackType ==
  ASSUME IInv, PushStack
  PROVE  TypeOK' /\ Frame \in OpFrame
<1>1. TypeOK
  BY DEF IInv
<1>2. entry.stack \in Stacks /\ Frame \in OpFrame
  BY <1>1, EntryTypes DEF PushStack, Frame, OpFrame
<1>3. calls' \in Seq(Frames) /\ ptrList' \in Seq(Stacks)
  <2>1. calls \in Seq(Frames) /\ ptrList \in Seq(Stacks) /\ Frame \in Frames
    BY <1>1, <1>2, CallTypes DEF Frames
  <2> QED
    BY <1>2, <2>1, AppendFacts DEF PushStack
<1> QED
  BY <1>1, <1>2, <1>3, NoEntryFacts DEF PushStack, TypeOK, Frames, pool, names, script

LEMMA DumpMethodCalls ==
  ASSUME TypeOK, NEW m \in Methods, NEW flags, DumpMethod(m, flags)
  PROVE  /\ calls # <<>> /\ InClass /\ Top(calls).step = "body"
         /\ \E f \in ClassFrame : /\ f.kind = "class" /\ f.step = "body"
                                  /\ calls' = [calls EXCEPT ![Len(calls)] = f]
<1>1. calls # <<>> /\ InClass /\ Top(calls).step = "body"
  BY DEF DumpMethod, InClass
<1>2. Top(calls) \in ClassFrame
  BY <1>1, TopCall
<1> DEFINE f == [Top(calls) EXCEPT !.todo = @ \ {m}]
<1>3. f \in ClassFrame /\ f.kind = "class" /\ f.step = "body"
  BY <1>1, <1>2 DEF ClassFrame
<1>4. calls' = [calls EXCEPT ![Len(calls)] = f]
  BY DEF DumpMethod, Top
<1> QED
  BY <1>1, <1>3, <1>4

LEMMA TypeStep ==
  ASSUME IInv, [Next]_vars
  PROVE  TypeOK'
<1> USE SessionAssumption DEF pool, current, names, script
<1>0. TypeOK /\ calls \in Seq(Frames)
  BY CallTypes DEF IInv
<1>1. ASSUME NEW file \in Files, StartScript(file)
      PROVE  TypeOK'
  <2>1. fileName' \in Seq(Files) /\ functionName' \in Seq(OpNames)
    BY <1>0, <1>1, AppendFacts DEF StartScript, TypeOK, OpNames
  <2>2. loaded' \in SUBSET (Classes \cup Functions) /\ scripts' \in 0 .. MaxScripts
    BY <1>0, <1>1 DEF StartScript, TypeOK
  <2> QED
    BY <1>0, <1>1, <2>1, <2>2 DEF StartScript, TypeOK, Trying
<1>2. ASSUME NEW c \in Classes, DumpClassTable(c) \/ DumpClass(c)
      PROVE  TypeOK'
  <2>1. phase \in Trying
    BY <1>2, InsideTry DEF DumpClassTable, DumpClass, Dumping, AtStep, Trying
  <2> QED
    BY <1>0, <1>2, <2>1, EnterClassType DEF DumpClassTable, DumpClass, TypeOK
<1>3. ASSUME NEW f \in Functions, NEW flags \in Flags,
             DumpFunctionTable(f) \/ DumpFunction(f, flags)
      PROVE  TypeOK'
  <2>1. phase \in Trying
    BY <1>3, InsideTry DEF DumpFunctionTable, DumpFunction, Dumping, AtStep, Trying
  <2>2. f \in OpNames /\ seen' \in SUBSET (Classes \cup Functions)
    BY <1>0, <1>3 DEF DumpFunctionTable, DumpFunction, TypeOK, OpNames
  <2>3. PICK x \in Flags : DumpWithFlags(f, x)
    BY <1>3 DEF DumpFunctionTable, DumpFunction
  <2>4. functionFlags' \in Seq(Flags) /\ EnterOpArray(f, x)
    BY <1>0, <2>3, CallTypes, AppendFacts DEF DumpWithFlags
  <2> QED
    BY <1>0, <1>3, <2>1, <2>2, <2>4, EnterOpArrayType DEF DumpFunctionTable, DumpFunction
<1>4. ASSUME NEW m \in Methods, NEW flags \in Flags, DumpMethod(m, flags)
      PROVE  TypeOK'
  <2>1. calls' \in Seq(Frames) /\ phase \in Trying
    BY <1>0, <1>4, DumpMethodCalls, TopReplaced, InsideTry DEF Frames
  <2>2. functionFlags' \in Seq(Flags) /\ EnterOpArray(m, flags) /\ m \in OpNames
    BY <1>0, <1>4, CallTypes, AppendFacts DEF DumpMethod, DumpWithFlags, OpNames
  <2>3. seen' \in SUBSET (Classes \cup Functions)
    BY <1>0, <1>4 DEF DumpMethod, TypeOK
  <2> QED
    BY <1>0, <1>4, <2>1, <2>2, <2>3, EnterOpArrayType DEF DumpMethod
<1>5. CASE DumpMain
  <2>1. /\ phase' \in Trying /\ Main \in OpNames /\ functionFlags' \in Seq(Flags)
        /\ seen' \in SUBSET (Classes \cup Functions) /\ calls' = calls
    BY <1>0, <1>5 DEF DumpMain, Trying, OpNames, TypeOK
  <2> QED
    BY <1>0, <1>5, <2>1, EnterOpArrayType DEF DumpMain
<1>6. CASE ClassHeader
  <2>1. calls # <<>> /\ Top(calls) \in ClassFrame
    BY <1>0, <1>6, TopCall DEF ClassHeader, InClass
  <2>2. [Top(calls) EXCEPT !.step = "body"] \in ClassFrame
    BY <2>1 DEF ClassFrame
  <2>3. calls' = [calls EXCEPT ![Len(calls)] = [Top(calls) EXCEPT !.step = "body"]]
    BY <1>6 DEF ClassHeader, Top
  <2>4. calls' \in Seq(Frames)
    BY <1>0, <2>1, <2>2, <2>3, TopReplaced DEF Frames
  <2>5. gsLocks' \in Nat
    BY <1>0, <1>6 DEF ClassHeader, IInv, PastInv, LockInv, Locked, InHeader, TypeOK
  <2> QED
    BY <1>0, <1>6, <2>4, <2>5 DEF ClassHeader, TypeOK, Frames
<1>7. CASE LeaveClass
  <2>1. calls' \in Seq(Frames) /\ className' \in Seq(Classes \cup {Main})
    BY <1>0, <1>7, PoppedFacts, PopNameFacts, CallTypes DEF LeaveClass, InClass
  <2> QED
    BY <1>0, <1>7, <2>1 DEF LeaveClass, TypeOK, Frames
<1>8. CASE ScanOpArray
  <2>1. calls # <<>> /\ Top(calls) \in OpFrame
    BY <1>0, <1>8, TopCall DEF ScanOpArray, AtStep, InOpArray
  <2>2. PICK popped \in Flags \cup {NULL} :
          /\ calls' = [calls EXCEPT ![Len(calls)].step = "dump", ![Len(calls)].popped = popped]
          /\ functionFlags' = functionFlags
             \/ (functionFlags # <<>> /\ functionFlags' = Popped(functionFlags))
    <3>1. functionFlags # <<>> => Top(functionFlags) \in Flags
      BY <1>0, CallTypes, PoppedFacts
    <3> QED
      BY <1>8, <3>1 DEF ScanOpArray
  <2> DEFINE f == [Top(calls) EXCEPT !.step = "dump", !.popped = popped]
  <2>3. f \in OpFrame
    BY <2>1 DEF OpFrame
  <2>4. calls' = [calls EXCEPT ![Len(calls)] = f]
    BY <1>0, <2>1, <2>2, TopCall DEF Top
  <2> HIDE DEF f
  <2>5. calls' \in Seq(Frames)
    BY <1>0, <2>1, <2>3, <2>4, TopReplaced DEF Frames
  <2>6. functionFlags' \in Seq(Flags)
    <3>1. functionFlags \in Seq(Flags)
      BY <1>0, CallTypes
    <3>2. functionFlags # <<>> => Popped(functionFlags) \in Seq(Flags)
      BY <3>1, PoppedFacts
    <3> QED
      BY <2>2, <3>1, <3>2
  <2> QED
    BY <1>0, <1>8, <2>5, <2>6 DEF ScanOpArray, TypeOK, Frames
<1>9. CASE InsertVariable
  <2>1. Top(calls).name \in OpNames
    BY <1>0, <1>9, TopCall DEF InsertVariable, Dumping, AtStep, InOpArray, OpFrame
  <2>2. table' \in [Stacks -> SUBSET OpNames]
    BY <1>0, <1>9, <2>1 DEF InsertVariable, TypeOK
  <2> QED
    BY <1>0, <1>9, <2>2 DEF InsertVariable, TypeOK
<1>10. CASE RemoveFree \/ AllocateStack \/ InsertFree \/ AllocateStackFails \/ InsertInUse
  BY <1>10, EnteringType
<1>11. CASE UnlinkStack \/ FreeVariables \/ GiveBack \/ PopFunctionName
  BY <1>11, FreeingType
<1>12. CASE PushStack
  BY <1>12, PushStackType
<1>13. CASE PushFunctionName
  <2>1. InOpArray /\ calls # <<>> /\ Top(calls).name \in OpNames
    BY <1>0, <1>13, TopCall DEF PushFunctionName, AtStep, InOpArray, OpFrame
  <2>2. calls' \in Seq(Frames) /\ functionName' \in Seq(OpNames)
    BY <1>0, <1>13, <2>1, NextStepType, CallTypes, AppendFacts DEF PushFunctionName, OpSteps
  <2> QED
    BY <1>0, <1>13, <2>2 DEF PushFunctionName, TypeOK, Frames
<1>14. CASE LeaveOpArray
  <2>1. calls' \in Seq(Frames)
    BY <1>0, <1>14, PoppedFacts DEF LeaveOpArray, AtStep, InOpArray
  <2>2. /\ ptrList' = (IF ptrList = <<>> THEN <<>> ELSE Popped(ptrList))
        /\ gsStack' = (IF Len(ptrList) > 1 THEN Top(ptrList') ELSE gsStack)
    BY <1>14 DEF LeaveOpArray, PopSetStack
  <2>3. ptrList \in Seq(Stacks) /\ Len(ptrList) \in Nat /\ gsStack \in Stacks
    BY <1>0 DEF TypeOK
  <2>4. ptrList' \in Seq(Stacks) /\ (ptrList # <<>> => Len(ptrList') = Len(ptrList) - 1)
    <3>1. ptrList # <<>> => Popped(ptrList) \in Seq(Stacks) /\ Len(Popped(ptrList)) = Len(ptrList) - 1
      BY <2>3, PoppedFacts
    <3>2. <<>> \in Seq(Stacks)
      OBVIOUS
    <3> QED
      BY <2>2, <3>1, <3>2
  <2>5. gsStack' \in Stacks
    <3>1. CASE Len(ptrList) > 1
      <4>1. ptrList # <<>> /\ Len(ptrList) - 1 # 0
        BY <2>3, <3>1
      <4>2. ptrList' # <<>>
        BY <2>4, <4>1
      <4>3. Top(ptrList') \in Stacks
        BY <2>4, <4>2, PoppedFacts
      <4> QED
        BY <2>2, <3>1, <4>3
    <3>2. CASE ~(Len(ptrList) > 1)
      BY <2>2, <2>3, <3>2
    <3> QED
      BY <3>1, <3>2
  <2> QED
    BY <1>0, <1>14, <2>1, <2>4, <2>5 DEF LeaveOpArray, TypeOK, Frames
<1>15. CASE Exception
  BY <1>0, <1>15, NoEntryFacts DEF Exception, TypeOK
<1>16. CASE MainDone \/ ClassTableDone
  BY <1>0, <1>16 DEF MainDone, ClassTableDone, TypeOK, Trying
<1>17. CASE EndScript
  <2>1. functionName' \in Seq(OpNames)
    BY <1>0, <1>17, PopNameFacts, CallTypes DEF EndScript, OpNames
  <2> QED
    BY <1>0, <1>17, <2>1 DEF EndScript, TypeOK
<1>18. CASE Uninit
  <2>1. Elems(<<>>) = {} /\ NoDuplicates(<<>>)
    BY DEF Elems, NoDuplicates
  <2> QED
    BY <1>0, <1>18, <2>1 DEF Uninit, TypeOK
<1>19. CASE UNCHANGED vars
  BY <1>0, <1>19 DEF vars, TypeOK
<1> QED
  BY <1>1, <1>2, <1>3, <1>4, <1>5, <1>6, <1>7, <1>8, <1>9, <1>10, <1>11, <1>12, <1>13, <1>14,
     <1>15, <1>16, <1>17, <1>18, <1>19
  DEF Next, Exited
-----------------------------------------------------------------------------
(* The innermost call. *)

LEMMA CallNamesType ==
  ASSUME TypeOK
  PROVE  CallNames \in Seq(OpNames) /\ Len(CallNames) \in Nat
<1>1. functionName \in Seq(OpNames)
  BY CallTypes
<1>2. CASE AtStep("name") \/ AtStep("pop")
  <2>1. calls # <<>> /\ InOpArray
    BY <1>2 DEF AtStep, InOpArray
  <2>2. Top(calls).name \in OpNames
    BY <2>1, TopCall DEF OpFrame
  <2> QED
    BY <1>1, <1>2, <2>2, AppendFacts DEF CallNames
<1>3. CASE ~(AtStep("name") \/ AtStep("pop"))
  BY <1>1, <1>3 DEF CallNames
<1> QED
  BY <1>2, <1>3

(* Its stack and its name are on top. *)
LEMMA TopPlace ==
  ASSUME IInv, InOpArray
  PROVE  /\ ptrList # <<>> /\ Top(calls).stack = Top(ptrList) /\ Top(calls).stack = gsStack
         /\ Len(CallNames) > 1 /\ Top(calls).name = Top(CallNames)
         /\ Clean => Len(found.ptrList) < Len(ptrList) /\ Len(found.ptrList) \in Nat
<1> DEFINE n == Len(calls)
<1>1. calls # <<>> /\ TypeOK /\ phase \in Trying
  BY InsideTry DEF InOpArray, IInv
<1>2. /\ calls \in Seq(Frames) /\ ptrList \in Seq(Stacks) /\ CallNames \in Seq(OpNames)
      /\ Len(ptrList) \in Nat /\ Len(CallNames) \in Nat
  BY <1>1, CallTypes, CallNamesType
<1>3. n \in Nat \ {0} /\ n \in OpsOf(calls) /\ Top(calls) = calls[n] /\ OpCalls # {}
  BY <1>1, TopCall, OpCallsAre
<1>4. ptrList # <<>> /\ gsStack = Top(ptrList)
  BY <1>3 DEF IInv, CallInv, CurrentInv
<1>5. PICK p : Places(p) /\ NamesBelow(p[0]) /\ (Clean => FoundBelow(p[0]))
  BY DEF IInv, PlaceInv
<1>6. PlacesIn(p, calls, ptrList, CallNames) /\ NamePlace(p[0], ptrList, CallNames) > 0
  BY <1>1, <1>5 DEF Places, NamesBelow
<1> HIDE DEF n
<1>7. p[0] < p[n] /\ p[n] \in 1 .. Len(ptrList)
  BY <1>2, <1>3, <1>6, PlacesApart
<1>8. p[0] \in 0 .. Len(ptrList)
  <2>1. 0 \in 0 .. Len(calls)
    BY <1>3 DEF n
  <2> QED
    BY <1>2, <1>6, <2>1, PlacesApart
<1>9. p[n] = Len(ptrList)
  BY <1>6 DEF PlacesIn, n
<1>10. ptrList[p[n]] = calls[n].stack /\ CallNames[NamePlace(p[n], ptrList, CallNames)] = calls[n].name
  BY <1>3, <1>6 DEF PlacesIn
<1>11. NamePlace(p[n], ptrList, CallNames) = Len(CallNames)
  BY <1>2, <1>9 DEF NamePlace
<1>12. Len(CallNames) > 1
  BY <1>2, <1>6, <1>7, <1>8, <1>9 DEF NamePlace
<1>13. Clean => Len(found.ptrList) < Len(ptrList) /\ Len(found.ptrList) \in Nat
  BY <1>5, <1>7, <1>8, <1>9 DEF FoundBelow
<1> QED
  BY <1>3, <1>4, <1>9, <1>10, <1>11, <1>12, <1>13 DEF Top

(* It is at a point where it can make a call. *)
LEMMA TopReady ==
  ASSUME IInv, NoCall \/ Dumping \/ (InClass /\ Top(calls).step = "body")
  PROVE  Ready /\ ~Waiting /\ ~InHeader /\ ~Freeing /\ Ahead = 0 /\ Behind = 0 /\ ~Entering
<1>1. ~Entering
  BY DEF NoCall, Dumping, AtStep, InOpArray, InClass
<1>2. Ready
  <2>1. CASE calls = <<>>
    BY <2>1 DEF Ready
  <2>2. CASE calls # <<>>
    <3>1. Len(calls) \in Nat \ {0} /\ Top(calls) = calls[Len(calls)]
      BY <2>2, TopCall DEF IInv
    <3>2. calls[Len(calls)].step = IF Op(Len(calls)) THEN "dump" ELSE "body"
      BY <2>2, <3>1 DEF NoCall, Dumping, AtStep, InOpArray, InClass, Op
    <3>3. \A i \in 1 .. Len(calls) - 1 : calls[i].step = IF Op(i) THEN "dump" ELSE "body"
      BY DEF IInv, CallInv, FrameInv
    <3> QED
      BY <3>1, <3>2, <3>3 DEF Ready
  <2> QED
    BY <2>1, <2>2
<1>3. \A k : AtStep(k) => k = "dump"
  BY DEF NoCall, Dumping, AtStep, InOpArray, InClass
<1>4. ~Waiting /\ ~Freeing /\ ~AtStep("unname") /\ ~AtStep("pop")
  BY <1>1, <1>3 DEF Waiting, Freeing
<1>5. ~InHeader
  BY DEF NoCall, Dumping, AtStep, InOpArray, InHeader, InClass
<1>6. Ahead = 0 /\ Behind = 0
  BY <1>1, <1>4 DEF Ahead, Behind, Entering
<1> QED
  BY <1>1, <1>2, <1>4, <1>5, <1>6

(* While a call is made, nothing is given back. *)
LEMMA ReadySteps ==
  ASSUME TypeOK, Ready
  PROVE  \A i \in OpCalls : i \in 1 .. Len(calls) /\ calls[i].step = "dump"
BY OpCallTypes DEF Ready

(* The frames below the innermost one. *)
LEMMA BelowTop ==
  ASSUME IInv, NEW i \in OpCalls, i # Len(calls)
  PROVE  i \in 1 .. Len(calls) - 1 /\ calls[i].step = "dump"
<1>1. i \in 1 .. Len(calls) /\ Op(i) /\ Len(calls) \in Nat
  BY OpCallTypes, CallTypes DEF IInv
<1>2. i \in 1 .. Len(calls) - 1
  BY <1>1
<1> QED
  BY <1>1, <1>2 DEF IInv, CallInv, FrameInv

(* The innermost call takes a step of its own. *)
LEMMA TopChanged ==
  ASSUME IInv, calls # <<>>, NEW f \in Frames, f.kind = Top(calls).kind,
         f.kind = "op" => f.stack = Top(calls).stack /\ f.name = Top(calls).name,
         calls' = [calls EXCEPT ![Len(calls)] = f]
  PROVE  /\ SameCalls(calls', calls) /\ FrameInv' /\ OpCalls' = OpCalls
         /\ calls' # <<>> /\ Len(calls') = Len(calls) /\ Top(calls') = f
         /\ \A i \in OpCalls : i \in 1 .. Len(calls) /\ (i # Len(calls) => calls'[i] = calls[i])
         /\ calls'[Len(calls)] = f
         /\ \A i \in 1 .. Len(calls) : (Op(i)' <=> Op(i)) /\ (i # Len(calls) => calls'[i] = calls[i])
<1> DEFINE n == Len(calls)
<1>1. /\ calls \in Seq(Frames) /\ n \in Nat \ {0} /\ DOMAIN calls = 1 .. n
      /\ Top(calls) = calls[n]
  BY TopCall, CallTypes DEF IInv
<1>2. /\ calls' \in Seq(Frames) /\ Len(calls') = n /\ DOMAIN calls' = 1 .. n
      /\ \A i \in 1 .. n - 1 : calls'[i] = calls[i]
      /\ calls'[n] = f
  <2>1. TypeOK
    BY DEF IInv
  <2>2. /\ calls' \in Seq(Frames) /\ Len(calls') = Len(calls)
        /\ \A i \in 1 .. Len(calls) - 1 : calls'[i] = calls[i]
        /\ calls'[Len(calls)] = f
    BY <2>1, TopReplaced
  <2>3. DOMAIN calls' = 1 .. Len(calls')
    BY <2>2, LenProperties
  <2> QED
    BY <2>2, <2>3
<1> HIDE DEF n
<1>3. \A i \in 1 .. n : i # n => i \in 1 .. n - 1 /\ calls'[i] = calls[i]
  BY <1>1, <1>2
<1>4. \A i \in 1 .. n : calls'[i].kind = calls[i].kind
  BY <1>1, <1>2, <1>3
<1>5. OpsOf(calls') = OpsOf(calls) /\ OpCalls' = OpCalls
  BY <1>1, <1>2, <1>4 DEF OpsOf, OpCalls
<1>6. \A i \in OpCalls : i \in 1 .. n /\ (i # n => calls'[i] = calls[i])
  BY <1>1, <1>3 DEF OpCalls
<1>7. \A i \in OpsOf(calls) : calls'[i].stack = calls[i].stack /\ calls'[i].name = calls[i].name
  <2> SUFFICES ASSUME NEW i \in OpsOf(calls)
               PROVE  calls'[i].stack = calls[i].stack /\ calls'[i].name = calls[i].name
    OBVIOUS
  <2>1. i \in 1 .. n /\ calls[i].kind = "op"
    BY <1>1 DEF OpsOf
  <2> QED
    BY <1>1, <1>2, <1>3, <2>1
<1>8. SameCalls(calls', calls)
  BY <1>2, <1>5, <1>7 DEF SameCalls, n
<1>9. FrameInv'
  <2> SUFFICES ASSUME NEW i \in 1 .. n - 1
               PROVE  /\ calls'[i].kind = "op" => calls'[i].step = "dump"
                      /\ calls'[i].kind # "op" =>
                           calls'[i].step = "body" /\ calls'[i + 1].kind = "op"
    BY <1>2 DEF FrameInv, Op
  <2>1. i + 1 \in 1 .. n /\ calls'[i + 1].kind = calls[i + 1].kind
    BY <1>1, <1>4
  <2>2. /\ calls[i].kind = "op" => calls[i].step = "dump"
        /\ calls[i].kind # "op" => calls[i].step = "body" /\ calls[i + 1].kind = "op"
    BY DEF IInv, CallInv, FrameInv, Op, n
  <2> QED
    BY <1>2, <2>1, <2>2
<1>10. calls' # <<>> /\ Top(calls') = f
  <2>1. calls' # <<>>
    BY <1>1, <1>2
  <2> QED
    BY <1>2, <2>1 DEF Top
<1>11. \A i \in 1 .. n : (Op(i)' <=> Op(i)) /\ (i # n => calls'[i] = calls[i])
  BY <1>3, <1>4 DEF Op
<1> QED
  BY <1>2, <1>5, <1>6, <1>8, <1>9, <1>10, <1>11 DEF n

(* dump_op_array_ex goes on to its next step. *)
LEMMA OpChanged ==
  ASSUME IInv, InOpArray, NEW f \in OpFrame, f.stack = Top(calls).stack,
         f.name = Top(calls).name, calls' = [calls EXCEPT ![Len(calls)] = f], entry' = entry
  PROVE  /\ SameCalls(calls', calls) /\ FrameInv' /\ OpCalls' = OpCalls
         /\ Len(calls) \in OpCalls /\ Top(calls) = calls[Len(calls)]
         /\ \A i \in OpCalls : i # Len(calls) => calls'[i] = calls[i] /\ calls[i].step = "dump"
         /\ calls'[Len(calls)] = f
         /\ InOpArray' /\ Top(calls') = f /\ ~InClass' /\ ~Entering' /\ ~Entering /\ ~InClass
<1>1. calls # <<>> /\ ~Entering /\ Top(calls).kind = "op" /\ TypeOK
  BY DEF InOpArray, IInv
<1>2. Len(calls) \in OpCalls /\ Top(calls) = calls[Len(calls)] /\ f \in Frames /\ f.kind = "op"
  BY <1>1, TopCall DEF OpFrame, Frames
<1>3. /\ SameCalls(calls', calls) /\ FrameInv' /\ OpCalls' = OpCalls
      /\ calls' # <<>> /\ Top(calls') = f /\ calls'[Len(calls)] = f
      /\ \A i \in OpCalls : i # Len(calls) => calls'[i] = calls[i]
  BY <1>1, <1>2, TopChanged
<1>4. ~Entering'
  BY <1>1 DEF Entering
<1>5. InOpArray' /\ ~InClass' /\ ~InClass
  BY <1>1, <1>2, <1>3, <1>4 DEF InOpArray, InClass
<1> QED
  BY <1>1, <1>2, <1>3, <1>4, <1>5, BelowTop

(* A call is made: all the others are at a point where they wait for it. *)
LEMMA CallMade ==
  ASSUME IInv, Ready, NEW f \in Frames, calls' = Append(calls, f),
         f.kind = "op" \/ calls = <<>> \/ Op(Len(calls))
  PROVE  /\ FrameInv' /\ calls' # <<>> /\ Top(calls') = f /\ Pushed(calls', calls, f)
         /\ OpCalls' = OpCalls \cup {i \in {Len(calls) + 1} : f.kind = "op"}
         /\ \A i \in OpCalls : /\ i \in 1 .. Len(calls) /\ calls'[i] = calls[i]
                               /\ calls[i].step = "dump"
         /\ Len(calls) \in Nat /\ calls'[Len(calls) + 1] = f
<1> DEFINE n == Len(calls)
<1>1. calls \in Seq(Frames) /\ n \in Nat /\ DOMAIN calls = 1 .. n
  BY CallTypes DEF IInv
<1>2. /\ Len(calls') = n + 1 /\ calls'[n + 1] = f /\ \A i \in 1 .. n : calls'[i] = calls[i]
      /\ DOMAIN calls' = 1 .. n + 1 /\ Top(calls') = f /\ calls' # <<>>
  BY <1>1, AppendFacts
<1>3. Pushed(calls', calls, f)
  BY <1>2 DEF Pushed
<1>4. OpCalls' = OpCalls \cup {i \in {n + 1} : f.kind = "op"}
  <2>1. OpCalls' = {i \in 1 .. n + 1 : calls'[i].kind = "op"}
    BY <1>2 DEF OpCalls
  <2>2. OpCalls = {i \in 1 .. n : calls'[i].kind = "op"}
    BY <1>1, <1>2 DEF OpCalls
  <2>3. 1 .. n + 1 = (1 .. n) \cup {n + 1}
    BY <1>1
  <2> QED
    BY <1>2, <2>1, <2>2, <2>3
<1>5. \A i \in OpCalls : i \in 1 .. n /\ calls'[i] = calls[i] /\ calls[i].step = "dump"
  BY <1>1, <1>2 DEF OpCalls, Op, Ready
<1>6. FrameInv'
  <2> SUFFICES ASSUME NEW i \in 1 .. n
               PROVE  /\ Op(i)' => calls'[i].step = "dump"
                      /\ ~Op(i)' => calls'[i].step = "body" /\ Op(i + 1)'
    BY <1>1, <1>2 DEF FrameInv
  <2>1. calls'[i] = calls[i] /\ (Op(i)' <=> Op(i))
    BY <1>2 DEF Op
  <2>2. calls[i].step = IF Op(i) THEN "dump" ELSE "body"
    BY DEF Ready
  <2>3. CASE i = n
    <3>1. Op(n) \/ f.kind = "op"
      <4>1. calls # <<>>
        BY <1>1, <2>3
      <4> QED
        BY <4>1
    <3> QED
      BY <1>2, <2>1, <2>2, <2>3, <3>1 DEF Op
  <2>4. CASE i \in 1 .. n - 1
    <3>1. i + 1 \in 1 .. n /\ (~Op(i) => Op(i + 1))
      BY <1>1, <2>4 DEF IInv, CallInv, FrameInv
    <3> QED
      BY <1>2, <2>1, <2>2, <3>1 DEF Op
  <2>5. i = n \/ i \in 1 .. n - 1
    <3>1. n \in Nat
      BY <1>1
    <3> HIDE DEF n
    <3> QED
      BY <3>1
  <2> QED
    BY <2>3, <2>4, <2>5
<1> QED
  BY <1>1, <1>2, <1>3, <1>4, <1>5, <1>6

(* The innermost call returns to one that is ready for others. *)
LEMMA CallLeft ==
  ASSUME IInv, calls # <<>>, calls' = Popped(calls), entry' = entry
  PROVE  /\ Len(calls) \in Nat \ {0} /\ Pushed(calls, calls', Top(calls))
         /\ FrameInv' /\ ~InHeader' /\ \A k : (InOpArray' /\ Top(calls').step = k => k = "dump")
         /\ OpCalls' = OpCalls \ {Len(calls)}
         /\ \A i \in OpCalls' : i < Len(calls) /\ calls'[i] = calls[i] /\ calls[i].step = "dump"
<1> DEFINE n == Len(calls)
<1>1. /\ calls \in Seq(Frames) /\ n \in Nat \ {0} /\ DOMAIN calls = 1 .. n
      /\ Top(calls) = calls[n]
  BY TopCall, CallTypes DEF IInv
<1>2. /\ calls' \in Seq(Frames) /\ Len(calls') = n - 1 /\ DOMAIN calls' = 1 .. n - 1
      /\ \A i \in 1 .. n - 1 : calls'[i] = calls[i]
  <2>1. /\ Popped(calls) \in Seq(Frames) /\ Len(Popped(calls)) = n - 1
        /\ \A i \in 1 .. n - 1 : Popped(calls)[i] = calls[i]
    BY <1>1, PoppedFacts
  <2> QED
    BY <2>1
<1>3. Pushed(calls, calls', Top(calls))
  BY <1>1, PoppedPushed
<1>4. \A i \in 1 .. n - 1 : /\ calls[i].kind = "op" => calls[i].step = "dump"
                            /\ calls[i].kind # "op" =>
                                 calls[i].step = "body" /\ calls[i + 1].kind = "op"
  BY DEF IInv, CallInv, FrameInv, Op
<1> HIDE DEF n
<1>5. FrameInv'
  <2> SUFFICES ASSUME NEW i \in 1 .. n - 2
               PROVE  /\ calls'[i].kind = "op" => calls'[i].step = "dump"
                      /\ calls'[i].kind # "op" =>
                           calls'[i].step = "body" /\ calls'[i + 1].kind = "op"
    BY <1>1, <1>2 DEF FrameInv, Op
  <2>1. i \in 1 .. n - 1 /\ i + 1 \in 1 .. n - 1
    BY <1>1
  <2> QED
    BY <1>2, <1>4, <2>1
<1>6. OpCalls' = OpCalls \ {n}
  <2>1. OpCalls' = {i \in 1 .. n - 1 : calls'[i].kind = "op"}
    BY <1>2 DEF OpCalls
  <2>2. OpCalls = {i \in 1 .. n : calls[i].kind = "op"}
    BY <1>1 DEF OpCalls
  <2>3. 1 .. n - 1 = (1 .. n) \ {n}
    BY <1>1
  <2> QED
    BY <1>2, <2>1, <2>2, <2>3
<1>7. \A i \in OpCalls' : i < n /\ calls'[i] = calls[i] /\ calls[i].step = "dump"
  <2> SUFFICES ASSUME NEW i \in OpCalls'
               PROVE  i < n /\ calls'[i] = calls[i] /\ calls[i].step = "dump"
    OBVIOUS
  <2>1. i \in 1 .. n - 1 /\ calls'[i].kind = "op"
    BY <1>2 DEF OpCalls
  <2> QED
    BY <1>1, <1>2, <1>4, <2>1
<1>8. ASSUME calls' # <<>>
      PROVE  /\ Top(calls').kind = "op" => Top(calls').step = "dump"
             /\ Top(calls').kind # "op" => Top(calls').step = "body"
  <2>1. Len(calls') # 0
    BY <1>2, <1>8
  <2>2. n - 1 \in 1 .. n - 1 /\ Top(calls') = calls'[n - 1]
    BY <1>1, <1>2, <1>8, <2>1 DEF Top
  <2> QED
    BY <1>2, <1>4, <2>2
<1>9. ~InHeader' /\ \A k : (InOpArray' /\ Top(calls').step = k => k = "dump")
  BY <1>8 DEF InOpArray, InHeader, InClass
<1> QED
  BY <1>1, <1>3, <1>5, <1>6, <1>7, <1>9 DEF n
-----------------------------------------------------------------------------
(* What the calls are doing. *)

(* Nothing is active. *)
LEMMA NoCallsCall ==
  ASSUME calls' = <<>>, entry'.step = "none"
  PROVE  CallInv' /\ OpCalls' = {} /\ ~Entering' /\ ~InOpArray' /\ ~InClass' /\ NoCall'
BY DEF CallInv, PhaseInv, FrameInv, EntryInv, CurrentInv, FlagInv, OwnFlags, OpCalls, NoCall,
       Entering, InOpArray, InClass

(* The op arrays go on as they were. *)
LEMMA SameCallInv ==
  ASSUME IInv, OpCalls' = OpCalls, FrameInv', \A i \in OpCalls : calls'[i] = calls[i],
         EntryInv', UNCHANGED <<functionFlags, ptrList, gsStack, majorId>>, PhaseInv'
  PROVE  CallInv'
<1>1. FlagInv'
  BY DEF IInv, CallInv, FlagInv, FlagsOnTop
<1>2. OwnFlags'
  BY DEF IInv, CallInv, OwnFlags
<1>3. CurrentInv'
  BY DEF IInv, CallInv, CurrentInv
<1> QED
  BY <1>1, <1>2, <1>3 DEF CallInv

(* The caller is ready, and the flags are where the header will take them. *)
LEMMA EnterOpArrayCall ==
  ASSUME IInv, Ready, NEW name \in OpNames, NEW flags, EnterOpArray(name, flags),
         phase' \in Trying, OpCalls' = OpCalls, FrameInv', Len(calls') = Len(calls),
         \A i \in OpCalls : calls'[i] = calls[i],
         \A i \in 1 .. Len(calls) : (Op(i)' <=> Op(i)) /\ calls'[i].step = calls[i].step,
         name # Main => functionFlags' = Append(functionFlags, flags) /\ flags \in Flags,
         UNCHANGED <<ptrList, gsStack, majorId>>
  PROVE  CallInv'
<1>1. Entering' /\ entry'.name = name /\ entry'.pushed = flags
  BY DEF EnterOpArray, Entering
<1>2. \A i \in OpCalls : i \in 1 .. Len(calls) /\ calls[i].step = "dump"
  BY ReadySteps DEF IInv
<1>3. FlagInv'
  BY <1>2 DEF FlagInv
<1>4. OwnFlags'
  BY <1>2 DEF OwnFlags, IInv, CallInv
<1>5. CurrentInv'
  BY DEF CurrentInv, IInv, CallInv
<1>6. Ready'
  BY DEF Ready
<1>7. FlagsOnTop(name, flags)'
  <2>1. functionFlags \in Seq(Flags)
    BY CallTypes DEF IInv
  <2>2. ASSUME name # Main
        PROVE  functionFlags' # <<>> /\ Top(functionFlags') = flags
    <3>1. functionFlags' = Append(functionFlags, flags) /\ flags \in Flags
      BY <2>2
    <3> QED
      BY <2>1, <3>1, AppendFacts
  <2> QED
    BY <2>2 DEF FlagsOnTop
<1>8. EntryInv' /\ PhaseInv'
  BY <1>1, <1>6, <1>7 DEF EntryInv, FlagsOnTop, PhaseInv
<1> QED
  BY <1>3, <1>4, <1>5, <1>8 DEF CallInv

LEMMA EnterClassCall ==
  ASSUME IInv, NEW c \in Classes, EnterClass(c), phase' \in Trying,
         Ready, ~Entering, calls = <<>> \/ InOpArray
  PROVE  CallInv'
<1> DEFINE f == [kind |-> "class", name |-> c, step |-> "head", todo |-> Methods]
<1>1. f \in Frames /\ f.kind = "class"
  BY DEF Frames, ClassFrame
<1>2. /\ calls' = Append(calls, f)
      /\ UNCHANGED <<entry, ptrList, gsStack, functionFlags, majorId>>
  BY DEF EnterClass, current, script
<1> HIDE DEF f
<1>3. calls = <<>> \/ Op(Len(calls))
  <2>1. InOpArray => Op(Len(calls))
    <3>1. InOpArray => calls # <<>>
      BY DEF InOpArray
    <3> QED
      BY <3>1, TopCall DEF IInv, Op, OpCalls
  <2> QED
    BY <2>1
<1>4. FrameInv' /\ OpCalls' = OpCalls /\ \A i \in OpCalls : calls'[i] = calls[i]
  <2>1. /\ FrameInv' /\ OpCalls' = OpCalls \cup {i \in {Len(calls) + 1} : f.kind = "op"}
        /\ \A i \in OpCalls : calls'[i] = calls[i]
    BY <1>1, <1>2, <1>3, CallMade
  <2> QED
    BY <1>1, <2>1
<1>5. EntryInv' /\ PhaseInv'
  BY <1>2 DEF EntryInv, Entering, PhaseInv
<1> QED
  BY <1>2, <1>4, <1>5, SameCallInv

(* The call that enters has its stack. *)
LEMMA PushStackCall ==
  ASSUME IInv, PushStack
  PROVE  CallInv'
<1> DEFINE f == Frame
           n == Len(calls)
<1>1. /\ Ready /\ FlagsOnTop(entry.name, entry.pushed) /\ phase \in Trying /\ Entering
      /\ TypeOK
  BY InsideTry DEF PushStack, Entering, IInv, CallInv, EntryInv
<1>2. /\ f \in Frames /\ f.kind = "op" /\ f.name = entry.name /\ f.pushed = entry.pushed
      /\ f.step = "name"
  BY PushStackType DEF Frame, Frames
<1>3. /\ calls' = Append(calls, f) /\ entry' = NoEntry /\ gsStack' = entry.stack
      /\ ptrList' = Append(ptrList, entry.stack)
      /\ UNCHANGED <<phase, functionFlags, majorId>>
  BY DEF PushStack, names, script
<1> HIDE DEF f, n
<1>4. /\ FrameInv' /\ OpCalls' = OpCalls \cup {n + 1} /\ calls'[n + 1] = f
      /\ \A i \in OpCalls : calls'[i] = calls[i] /\ calls[i].step = "dump"
  BY <1>1, <1>2, <1>3, CallMade DEF n
<1>5. ptrList' # <<>> /\ Top(ptrList') = gsStack'
  <2>1. ptrList \in Seq(Stacks) /\ entry.stack \in Stacks
    BY <1>1, CallTypes, EntryTypes DEF PushStack
  <2> QED
    BY <1>3, <2>1, AppendFacts
<1>6. FlagInv'
  <2> SUFFICES ASSUME NEW i \in OpCalls', calls'[i].step \in {"name", "scan"}
               PROVE  calls'[i].name # Main =>
                        functionFlags' # <<>> /\ Top(functionFlags') = calls'[i].pushed
    BY DEF FlagInv, FlagsOnTop
  <2>1. calls'[i] = f
    BY <1>4
  <2> QED
    BY <1>1, <1>2, <1>3, <2>1 DEF FlagsOnTop
<1>7. OwnFlags'
  <2> SUFFICES ASSUME NEW i \in OpCalls', calls'[i].step = "dump", calls'[i].name # Main,
                      majorId > EXTENSION_ID_1
               PROVE  calls'[i].popped = calls'[i].pushed
    BY <1>3 DEF OwnFlags
  <2>1. i \in OpCalls /\ calls'[i] = calls[i]
    BY <1>2, <1>4
  <2> QED
    BY <2>1 DEF IInv, CallInv, OwnFlags
<1>8. ~Entering'
  BY <1>3, NoEntryFacts DEF Entering
<1> QED
  BY <1>1, <1>3, <1>4, <1>5, <1>6, <1>7, <1>8
  DEF CallInv, PhaseInv, EntryInv, CurrentInv

(* dump_op_array_ex goes on, with the flags where they were. *)
LEMMA OpStepCall ==
  ASSUME IInv, InOpArray, NEW k \in OpSteps \ {"name", "dump"},
         k = "scan" => Top(calls).step = "name",
         calls' = [calls EXCEPT ![Len(calls)].step = k],
         UNCHANGED <<phase, entry, ptrList, gsStack, functionFlags, majorId>>
  PROVE  CallInv'
<1> DEFINE n == Len(calls)
<1>1. PICK f \in OpFrame : /\ f.step = k /\ f.stack = Top(calls).stack
                           /\ f.name = Top(calls).name /\ f.pushed = Top(calls).pushed
                           /\ calls' = [calls EXCEPT ![n] = f]
  BY NextStep DEF IInv
<1> HIDE DEF n
<1>2. /\ FrameInv' /\ OpCalls' = OpCalls /\ n \in OpCalls /\ Top(calls) = calls[n]
      /\ \A i \in OpCalls : i # n => calls'[i] = calls[i] /\ calls[i].step = "dump"
      /\ calls'[n] = f /\ ~Entering'
  BY <1>1, OpChanged DEF n
<1>3. FlagInv'
  <2> SUFFICES ASSUME NEW i \in OpCalls, calls'[i].step \in {"name", "scan"}
               PROVE  calls'[i].name # Main =>
                        functionFlags' # <<>> /\ Top(functionFlags') = calls'[i].pushed
    BY <1>2 DEF FlagInv, FlagsOnTop
  <2>1. i = n /\ calls[i].step = "name"
    BY <1>1, <1>2
  <2>2. FlagsOnTop(calls[n].name, calls[n].pushed)
    BY <1>2, <2>1 DEF IInv, CallInv, FlagInv
  <2> QED
    BY <1>1, <1>2, <2>1, <2>2 DEF FlagsOnTop
<1>4. OwnFlags'
  <2> SUFFICES ASSUME NEW i \in OpCalls, calls'[i].step = "dump", calls'[i].name # Main,
                      majorId > EXTENSION_ID_1
               PROVE  calls'[i].popped = calls'[i].pushed
    BY <1>2 DEF OwnFlags
  <2>1. calls'[i] = calls[i]
    BY <1>1, <1>2
  <2> QED
    BY <2>1 DEF IInv, CallInv, OwnFlags
<1>5. phase \in Trying
  BY InsideTry
<1> QED
  BY <1>2, <1>3, <1>4, <1>5 DEF CallInv, PhaseInv, EntryInv, CurrentInv, IInv

(* A function's header takes the flags its caller has pushed. *)
LEMMA ScanOpArrayCall ==
  ASSUME IInv, ScanOpArray
  PROVE  CallInv'
<1> DEFINE pops == Top(calls).name # Main /\ majorId > EXTENSION_ID_1 /\ functionFlags # <<>>
           f    == [Top(calls) EXCEPT !.step = "dump",
                                      !.popped = IF pops THEN Top(functionFlags) ELSE NULL]
           n    == Len(calls)
<1>1. /\ calls # <<>> /\ Top(calls) \in OpFrame /\ InOpArray
      /\ n \in OpCalls /\ Top(calls) = calls[n] /\ Top(calls).step = "scan"
  BY TopCall DEF ScanOpArray, AtStep, InOpArray, IInv
<1>2. functionFlags # <<>> => Top(functionFlags) \in Flags
  BY CallTypes, PoppedFacts DEF IInv
<1>3. /\ f \in OpFrame /\ f.step = "dump" /\ f.name = Top(calls).name
      /\ f.stack = Top(calls).stack /\ f.pushed = Top(calls).pushed
      /\ f.popped = IF pops THEN Top(functionFlags) ELSE NULL
  BY <1>1, <1>2 DEF OpFrame
<1>4. calls' = [calls EXCEPT ![n] = f]
  BY DEF ScanOpArray, Top
<1>5. UNCHANGED <<phase, entry, ptrList, gsStack, majorId>>
  BY DEF ScanOpArray, current, script
<1> HIDE DEF f, n
<1>6. /\ FrameInv' /\ OpCalls' = OpCalls /\ calls'[n] = f /\ ~Entering'
      /\ \A i \in OpCalls : i # n => calls'[i] = calls[i] /\ calls[i].step = "dump"
  BY <1>1, <1>3, <1>4, <1>5, OpChanged DEF n
<1>7. FlagsOnTop(calls[n].name, calls[n].pushed)
  BY <1>1 DEF IInv, CallInv, FlagInv
<1>8. FlagInv'
  BY <1>3, <1>6 DEF FlagInv
<1>9. OwnFlags'
  <2> SUFFICES ASSUME NEW i \in OpCalls, calls'[i].step = "dump", calls'[i].name # Main,
                      majorId > EXTENSION_ID_1
               PROVE  calls'[i].popped = calls'[i].pushed
    BY <1>5, <1>6 DEF OwnFlags
  <2>1. CASE i = n
    BY <1>1, <1>3, <1>6, <1>7, <2>1 DEF FlagsOnTop
  <2>2. CASE i # n
    BY <1>6, <2>2 DEF OwnFlags, IInv, CallInv
  <2> QED
    BY <2>1, <2>2
<1>10. phase \in Trying
  BY <1>1, InsideTry
<1> QED
  BY <1>5, <1>6, <1>8, <1>9, <1>10 DEF CallInv, PhaseInv, EntryInv, CurrentInv, IInv

(* The caller finds its own stack again. *)
LEMMA LeaveOpArrayCall ==
  ASSUME IInv, LeaveOpArray
  PROVE  CallInv'
<1> DEFINE n == Len(calls)
<1>1. /\ InOpArray /\ calls # <<>> /\ calls' = Popped(calls)
      /\ UNCHANGED <<phase, entry, functionFlags, majorId>>
  BY DEF LeaveOpArray, AtStep, InOpArray, script
<1>2. /\ n \in Nat \ {0} /\ FrameInv' /\ OpCalls' = OpCalls \ {n} /\ n \in OpCalls
      /\ \A i \in OpCalls' : i < n /\ calls'[i] = calls[i] /\ calls[i].step = "dump"
  BY <1>1, CallLeft, TopCall DEF IInv
<1>3. phase \in Trying /\ ptrList # <<>> /\ ptrList \in Seq(Stacks) /\ Len(ptrList) \in Nat
  BY <1>1, InsideTry, TopPlace, CallTypes DEF IInv
<1>4. ptrList' = Popped(ptrList) /\ (Len(ptrList) > 1 => gsStack' = Top(ptrList'))
  BY <1>3 DEF LeaveOpArray, PopSetStack
<1> HIDE DEF n
<1>5. CurrentInv'
  <2> SUFFICES ASSUME NEW i \in OpCalls'
               PROVE  ptrList' # <<>> /\ gsStack' = Top(ptrList')
    BY DEF CurrentInv
  <2>1. PICK p : PlacesIn(p, calls, ptrList, CallNames)
    BY DEF IInv, PlaceInv, Places
  <2>2. i \in OpsOf(calls) /\ n \in OpsOf(calls) /\ i < n
    BY <1>2, OpCallsAre
  <2>3. p[i] < p[n] /\ p[i] \in 1 .. Len(ptrList) /\ p[n] \in 1 .. Len(ptrList)
    <3>1. /\ calls \in Seq(Frames) /\ ptrList \in Seq(Stacks) /\ CallNames \in Seq(OpNames)
      BY CallTypes, CallNamesType DEF IInv
    <3> QED
      BY <2>1, <2>2, <3>1, PlacesApart
  <2>4. Len(ptrList) > 1
    BY <1>3, <2>3
  <2>5. Len(Popped(ptrList)) = Len(ptrList) - 1
    BY <1>3, PoppedFacts
  <2>6. Popped(ptrList) # <<>>
    BY <2>4, <2>5
  <2> QED
    BY <1>4, <2>4, <2>6
<1>6. FlagInv'
  BY <1>2 DEF FlagInv
<1>7. OwnFlags'
  BY <1>1, <1>2 DEF OwnFlags, IInv, CallInv
<1>8. ~Entering'
  BY <1>1 DEF InOpArray, Entering
<1> QED
  BY <1>1, <1>2, <1>3, <1>5, <1>6, <1>7, <1>8 DEF CallInv, PhaseInv, EntryInv

LEMMA CallStep ==
  ASSUME IInv, [Next]_vars
  PROVE  CallInv'
<1> USE DEF pool, current, names, script
<1>1. /\ TypeOK /\ calls \in Seq(Frames) /\ FrameInv /\ PhaseInv
      /\ phase \notin Trying => NoCall
  BY CallTypes DEF IInv, CallInv, PhaseInv
<1>2. ASSUME NEW file \in Files, StartScript(file)
      PROVE  CallInv'
  BY <1>1, <1>2, NoCallsCall DEF StartScript, Trying, NoCall, Entering
<1>3. ASSUME NEW c \in Classes, DumpClassTable(c) \/ DumpClass(c)
      PROVE  CallInv'
  <2>1. NoCall \/ Dumping
    BY <1>3 DEF DumpClassTable, DumpClass
  <2>2. Ready /\ ~Entering
    BY <2>1, TopReady
  <2>3. calls = <<>> \/ InOpArray
    BY <2>1 DEF NoCall, Dumping, AtStep
  <2>4. phase' \in Trying
    BY <1>3, <2>3, InsideTry DEF DumpClassTable, DumpClass, Trying, Dumping, AtStep
  <2> QED
    BY <1>3, <2>2, <2>3, <2>4, EnterClassCall DEF DumpClassTable, DumpClass
<1>4. ASSUME NEW f \in Functions, NEW flags \in Flags,
             DumpFunctionTable(f) \/ DumpFunction(f, flags)
      PROVE  CallInv'
  <2>1. (NoCall \/ Dumping) /\ calls' = calls /\ UNCHANGED <<ptrList, gsStack, majorId>>
    BY <1>4 DEF DumpFunctionTable, DumpFunction
  <2>2. Ready
    BY <2>1, TopReady
  <2>3. phase' \in Trying
    BY <1>4, InsideTry DEF DumpFunctionTable, DumpFunction, Trying, Dumping, AtStep
  <2>4. PICK x \in Flags : DumpWithFlags(f, x)
    BY <1>4, SessionAssumption DEF DumpFunctionTable, DumpFunction
  <2>5. f \in OpNames /\ EnterOpArray(f, x) /\ functionFlags' = Append(functionFlags, x)
    BY <2>4 DEF OpNames, DumpWithFlags
  <2>6. OpCalls' = OpCalls /\ FrameInv' /\ \A i : Op(i)' <=> Op(i)
    BY <1>1, <2>1 DEF OpCalls, FrameInv, Op
  <2> QED
    BY <2>1, <2>2, <2>3, <2>5, <2>6, EnterOpArrayCall
<1>5. ASSUME NEW m \in Methods, NEW flags \in Flags, DumpMethod(m, flags)
      PROVE  CallInv'
  <2>1. /\ calls # <<>> /\ InClass /\ Top(calls).step = "body"
        /\ \E f \in ClassFrame : /\ f.kind = "class" /\ f.step = "body"
                                 /\ calls' = [calls EXCEPT ![Len(calls)] = f]
    BY <1>1, <1>5, DumpMethodCalls
  <2>2. PICK f \in ClassFrame : /\ f.kind = "class" /\ f.step = "body"
                                /\ calls' = [calls EXCEPT ![Len(calls)] = f]
    BY <2>1
  <2>3. /\ OpCalls' = OpCalls /\ FrameInv' /\ Len(calls') = Len(calls)
        /\ calls'[Len(calls)] = f
        /\ \A i \in 1 .. Len(calls) : (Op(i)' <=> Op(i)) /\ (i # Len(calls) => calls'[i] = calls[i])
    <3>1. f \in Frames /\ f.kind = Top(calls).kind /\ f.kind # "op"
      BY <2>1, <2>2 DEF Frames, InClass
    <3> QED
      BY <2>1, <2>2, <3>1, TopChanged
  <2>4. Ready /\ phase' \in Trying
    BY <1>5, <2>1, TopReady, InsideTry DEF DumpMethod
  <2>5. /\ Top(calls) = calls[Len(calls)] /\ Len(calls) \notin OpCalls
    BY <1>1, <2>1, TopCall DEF OpCalls, Op
  <2>6. \A i \in OpCalls : calls'[i] = calls[i]
    <3>1. \A i \in OpCalls : i \in 1 .. Len(calls)
      BY <1>1, OpCallTypes
    <3> QED
      BY <2>3, <2>5, <3>1
  <2>7. \A i \in 1 .. Len(calls) : calls'[i].step = calls[i].step
    BY <2>1, <2>2, <2>3, <2>5
  <2>8. /\ m \in OpNames /\ EnterOpArray(m, flags)
        /\ functionFlags' = Append(functionFlags, flags)
        /\ UNCHANGED <<ptrList, gsStack, majorId>>
    BY <1>5 DEF DumpMethod, DumpWithFlags, OpNames
  <2> QED
    BY <2>3, <2>4, <2>6, <2>7, <2>8, EnterOpArrayCall
<1>6. CASE DumpMain
  <2>1. /\ NoCall /\ phase' \in Trying /\ EnterOpArray(Main, NULL) /\ calls' = calls
        /\ UNCHANGED <<ptrList, gsStack, majorId>>
    BY <1>6 DEF DumpMain, Trying
  <2>2. Ready /\ Main \in OpNames
    BY <2>1, TopReady DEF OpNames
  <2>3. OpCalls' = OpCalls /\ FrameInv' /\ \A i : Op(i)' <=> Op(i)
    BY <1>1, <2>1 DEF OpCalls, FrameInv, Op
  <2> QED
    BY <2>1, <2>2, <2>3, EnterOpArrayCall
<1>7. CASE ClassHeader
  <2> DEFINE f == [Top(calls) EXCEPT !.step = "body"]
  <2>1. /\ calls # <<>> /\ Top(calls) \in ClassFrame /\ InClass /\ Len(calls) \notin OpCalls
    BY <1>1, <1>7, TopCall DEF ClassHeader, InClass, Op, OpCalls
  <2>2. f \in Frames /\ f.kind = "class" /\ Top(calls).kind = "class"
    BY <2>1 DEF Frames, ClassFrame
  <2>3. calls' = [calls EXCEPT ![Len(calls)] = f]
    BY <1>7 DEF ClassHeader, Top
  <2> HIDE DEF f
  <2>4. /\ FrameInv' /\ OpCalls' = OpCalls
        /\ \A i \in OpCalls : i # Len(calls) => calls'[i] = calls[i]
    BY <2>1, <2>2, <2>3, TopChanged
  <2>5. /\ \A i \in OpCalls : calls'[i] = calls[i]
        /\ UNCHANGED <<phase, entry, ptrList, gsStack, functionFlags, majorId>>
    BY <1>7, <2>1, <2>4 DEF ClassHeader
  <2>6. EntryInv' /\ PhaseInv'
    BY <2>1, <2>5, InsideTry DEF EntryInv, Entering, InClass, PhaseInv
  <2> QED
    BY <2>4, <2>5, <2>6, SameCallInv
<1>8. CASE LeaveClass
  <2>1. /\ calls # <<>> /\ InClass /\ Len(calls) \notin OpCalls /\ calls' = Popped(calls)
        /\ UNCHANGED <<phase, entry, ptrList, gsStack, functionFlags, majorId>>
    BY <1>1, <1>8, TopCall DEF LeaveClass, InClass, Op, OpCalls
  <2>2. /\ FrameInv' /\ OpCalls' = OpCalls \ {Len(calls)}
        /\ \A i \in OpCalls' : calls'[i] = calls[i]
    BY <2>1, CallLeft
  <2>3. OpCalls' = OpCalls
    BY <2>1, <2>2
  <2>4. EntryInv' /\ PhaseInv'
    BY <2>1, InsideTry DEF EntryInv, Entering, InClass, PhaseInv
  <2> QED
    BY <2>1, <2>2, <2>3, <2>4, SameCallInv
<1>9. CASE RemoveFree \/ AllocateStack \/ InsertFree \/ AllocateStackFails \/ InsertInUse
  <2>1. /\ UNCHANGED <<phase, calls, ptrList, gsStack, functionFlags, majorId>>
        /\ Entering /\ phase \in Trying
        /\ entry' = NoEntry \/ (entry'.name = entry.name /\ entry'.pushed = entry.pushed)
    <3>1. UNCHANGED <<phase, calls, ptrList, gsStack, functionFlags, majorId>> /\ Entering
      BY <1>9 DEF RemoveFree, AllocateStack, InsertFree, AllocateStackFails, InsertInUse, Entering
    <3>2. entry' = NoEntry \/ (entry'.name = entry.name /\ entry'.pushed = entry.pushed)
      <4>1. CASE RemoveFree \/ InsertFree
        BY <1>1, <4>1, EntryKept DEF RemoveFree, InsertFree
      <4>2. CASE AllocateStack
        BY <1>1, <4>2, EntryKept DEF AllocateStack
      <4>3. CASE AllocateStackFails
        BY <4>3 DEF AllocateStackFails
      <4>4. CASE InsertInUse
        BY <1>1, <4>4, EntryKept DEF InsertInUse
      <4> QED
        BY <1>9, <4>1, <4>2, <4>3, <4>4
    <3> QED
      BY <3>1, <3>2, InsideTry
  <2>2. OpCalls' = OpCalls /\ FrameInv' /\ \A i : Op(i)' <=> Op(i)
    BY <1>1, <2>1 DEF OpCalls, FrameInv, Op
  <2>3. Ready /\ FlagsOnTop(entry.name, entry.pushed)
    BY <2>1 DEF IInv, CallInv, EntryInv
  <2>4. EntryInv'
    <3>1. CASE entry' = NoEntry
      BY <3>1, NoEntryFacts DEF EntryInv, Entering
    <3>2. CASE entry'.name = entry.name /\ entry'.pushed = entry.pushed
      <4>1. Ready'
        BY <2>1, <2>2, <2>3 DEF Ready
      <4> QED
        BY <2>1, <2>3, <3>2, <4>1 DEF EntryInv, FlagsOnTop
    <3> QED
      BY <2>1, <3>1, <3>2
  <2>5. PhaseInv'
    BY <2>1 DEF PhaseInv
  <2> QED
    BY <2>1, <2>2, <2>4, <2>5, SameCallInv
<1>10. CASE PushStack
  BY <1>10, PushStackCall
<1>11. CASE PushFunctionName \/ UnlinkStack \/ FreeVariables \/ GiveBack \/ PopFunctionName
  <2>1. InOpArray /\ UNCHANGED <<phase, entry, ptrList, gsStack, functionFlags, majorId>>
    BY <1>11 DEF PushFunctionName, UnlinkStack, FreeVariables, GiveBack, PopFunctionName,
                 Dumping, AtStep
  <2>2. PICK k \in OpSteps \ {"name", "dump"} :
          /\ k = "scan" => Top(calls).step = "name"
          /\ calls' = [calls EXCEPT ![Len(calls)].step = k]
    BY <1>11 DEF PushFunctionName, UnlinkStack, FreeVariables, GiveBack, PopFunctionName,
                 AtStep, OpSteps
  <2> QED
    BY <2>1, <2>2, OpStepCall
<1>12. CASE ScanOpArray
  BY <1>12, ScanOpArrayCall
<1>13. CASE InsertVariable \/ ClassTableDone \/ MainDone \/ UNCHANGED vars
  <2>1. UNCHANGED <<calls, entry, ptrList, gsStack, functionFlags, majorId>>
    BY <1>13 DEF InsertVariable, ClassTableDone, MainDone, vars
  <2>2. OpCalls' = OpCalls /\ FrameInv' /\ \A i : Op(i)' <=> Op(i)
    BY <1>1, <2>1 DEF OpCalls, FrameInv, Op
  <2>3. EntryInv'
    BY <2>1, <2>2 DEF IInv, CallInv, EntryInv, Entering, Ready, FlagsOnTop
  <2>4. PhaseInv'
    BY <1>1, <1>13, <2>1 DEF InsertVariable, ClassTableDone, MainDone, vars, PhaseInv, NoCall,
                             Entering, Trying
  <2> QED
    BY <2>1, <2>2, <2>3, <2>4, SameCallInv
<1>14. CASE LeaveOpArray
  BY <1>14, LeaveOpArrayCall
<1>15. CASE Exception
  BY <1>15, NoCallsCall, NoEntryFacts DEF Exception
<1>16. CASE EndScript \/ Uninit
  <2>1. calls' = <<>> /\ entry' = entry /\ entry.step = "none"
    BY <1>1, <1>16 DEF EndScript, Uninit, Trying, NoCall, Entering
  <2> QED
    BY <2>1, NoCallsCall
<1> QED
  BY <1>2, <1>3, <1>4, <1>5, <1>6, <1>7, <1>8, <1>9, <1>10, <1>11, <1>12, <1>13, <1>14, <1>15,
     <1>16, SessionAssumption
  DEF Next, Exited
-----------------------------------------------------------------------------
(* The pool. *)

LEMMA InTransitIs ==
  /\ \A x : x \in InTransit <=>
       \/ entry.step \in {"new", "post"} /\ x = entry.stack
       \/ \E i \in OpCalls : calls[i].step \in {"clear", "give"} /\ x = calls[i].stack
  /\ (\A x : x \in InTransit <=>
       \/ entry.step \in {"new", "post"} /\ x = entry.stack
       \/ \E i \in OpCalls : calls[i].step \in {"clear", "give"} /\ x = calls[i].stack)'
BY DEF InTransit

LEMMA EndedType ==
  ASSUME TypeOK
  PROVE  Ended \in Int /\ scripts \in Nat
<1>1. scripts \in Nat
  BY SessionAssumption DEF TypeOK
<1> QED
  BY <1>1 DEF Ended

LEMMA LostShrinks ==
  ASSUME IInv, TypeOK', Lost' \subseteq Lost, Ended <= Ended'
  PROVE  LostInv'
<1>1. IsFiniteSet(Lost) /\ Cardinality(Lost) <= Ended
  BY DEF IInv, PoolInv, LostInv
<1>2. IsFiniteSet(Lost') /\ Cardinality(Lost') <= Cardinality(Lost)
      /\ Cardinality(Lost) \in Nat /\ Cardinality(Lost') \in Nat
  BY <1>1, FS_Subset, FS_CardinalityType
<1>3. Ended \in Int /\ Ended' \in Int
  BY EndedType DEF IInv, TypeOK, Ended
<1>4. Cardinality(Lost') <= Ended'
  BY <1>1, <1>2, <1>3
<1> QED
  BY <1>2, <1>4 DEF LostInv

(* The calls go on with the stacks they had. *)
LEMMA SamePool ==
  ASSUME IInv, TypeOK', UNCHANGED pool, Ended <= Ended',
         \A i \in OpCalls' :
           calls'[i].step \in Owning \cup {"clear", "give"} =>
             /\ i \in OpCalls /\ calls'[i].stack = calls[i].stack /\ calls'[i].name = calls[i].name
             /\ calls'[i].step \in Owning <=> calls[i].step \in Owning
             /\ calls'[i].step \notin Owning => calls'[i].step = calls[i].step,
         \A i \in OpCalls :
           calls[i].step \in {"clear", "give"} => i \in OpCalls' /\ calls'[i] = calls[i],
         entry'.step \in {"new", "post", "enter"} => entry' = entry,
         entry.step \in {"new", "post"} => entry' = entry
  PROVE  PoolInv'
<1>1. Free' = Free /\ InUse' = InUse /\ Astray' = Astray /\ live' = live /\ table' = table
      /\ useList' = useList
  BY DEF pool, Free, InUse, Astray
<1>2. "name" \in Owning /\ "clear" \notin Owning /\ "give" \notin Owning
  BY DEF Owning
<1>3. StackInv'
  <2>1. StackInv
    BY DEF IInv, PoolInv
  <2>2. \A i \in OpCalls' : calls'[i].step \in Owning => calls'[i].stack \in InUse
    BY <2>1 DEF StackInv
  <2>3. \A i \in OpCalls' : calls'[i].step \in {"clear", "give"} => calls'[i].stack \in Astray
    BY <1>2, <2>1 DEF StackInv
  <2>4. \A i, j \in OpCalls' : /\ calls'[i].step \in Owning /\ calls'[j].step \in Owning
                               /\ calls'[i].stack = calls'[j].stack
                             => i = j
    BY <2>1 DEF StackInv
  <2>5. /\ entry'.step \in {"new", "post"} => entry'.stack \in Astray
        /\ entry'.step = "enter" => useList # <<>> /\ Top(useList) = entry'.stack
    BY <2>1 DEF StackInv
  <2>6. entry'.step = "enter" =>
          \A i \in OpCalls' : calls'[i].step \in Owning => calls'[i].stack # entry'.stack
    BY <2>1 DEF StackInv
  <2> QED
    BY <1>1, <2>2, <2>3, <2>4, <2>5, <2>6 DEF StackInv
<1>4. TableInv'
  <2>1. TableInv
    BY DEF IInv, PoolInv
  <2>2. \A i \in OpCalls' : calls'[i].step \in Owning => table[calls'[i].stack] \subseteq {calls'[i].name}
    BY <2>1 DEF TableInv
  <2>3. \A i \in OpCalls' : calls'[i].step = "give" => table[calls'[i].stack] = {}
    BY <1>2, <2>1 DEF TableInv
  <2>4. entry'.step \in {"new", "post", "enter"} => table[entry'.stack] = {}
    BY <2>1 DEF TableInv
  <2> QED
    BY <1>1, <2>1, <2>2, <2>3, <2>4 DEF TableInv
<1>5. InTransit \subseteq InTransit'
  <2>1. ASSUME NEW i \in OpCalls, calls[i].step \in {"clear", "give"}
        PROVE  calls[i].stack \in InTransit'
    BY <2>1, InTransitIs
  <2>2. entry.step \in {"new", "post"} => entry.stack \in InTransit'
    BY InTransitIs
  <2> QED
    BY <2>1, <2>2, InTransitIs
<1>6. Lost' \subseteq Lost
  BY <1>1, <1>5 DEF Lost, Free, InUse
<1> QED
  BY <1>3, <1>4, <1>6, LostShrinks DEF PoolInv

(* The call that enters takes its stack while the others wait. *)
LEMMA EnteringPool ==
  ASSUME IInv, TypeOK', RemoveFree \/ AllocateStack \/ InsertFree \/ InsertInUse
  PROVE  PoolInv'
<1>1. /\ UNCHANGED <<phase, calls, table, scripts>> /\ Entering /\ TypeOK
      /\ OpCalls' = OpCalls /\ Ready /\ StackInv /\ TableInv
  BY DEF RemoveFree, AllocateStack, InsertFree, InsertInUse, script, Entering, OpCalls, IInv,
         PoolInv, CallInv, EntryInv
<1>2. \A i \in OpCalls : calls[i].step = "dump" /\ calls[i].step \in Owning
                         /\ calls[i].stack \in InUse
  BY <1>1, ReadySteps DEF Owning, StackInv
<1>3. Ended' = Ended
  BY <1>1 DEF Ended
<1>4. InUse \subseteq live /\ Free \subseteq live /\ Free \cap InUse = {} /\ live \subseteq Stacks
  BY <1>1 DEF TypeOK, Free, InUse
<1>5. CASE RemoveFree
  <2> DEFINE x == Head(freeList)
  <2>1. freeList \in Seq(Stacks) /\ freeList # <<>> /\ NoDuplicates(freeList)
    BY <1>1, <1>5 DEF RemoveFree, TypeOK
  <2>2. /\ Elems(freeList) = Elems(Tail(freeList)) \cup {x} /\ x \in Stacks
        /\ x \notin Elems(Tail(freeList))
    BY <2>1, TailElems
  <2>3. freeList' = Tail(freeList) /\ useList' = useList /\ live' = live
        /\ entry' = [entry EXCEPT !.step = "post", !.stack = x]
    BY <1>5 DEF RemoveFree
  <2>4. entry'.step = "post" /\ entry'.stack = x
    BY <1>1, <2>2, <2>3, EntryStep
  <2> HIDE DEF x
  <2>5. Free' = Free \ {x} /\ InUse' = InUse /\ x \in Free
    BY <2>2, <2>3 DEF Free, InUse
  <2>6. x \in Astray' /\ table[x] = {}
    BY <1>1, <1>4, <2>2, <2>3, <2>5 DEF Astray, TableInv
  <2>7. StackInv'
    BY <1>1, <1>2, <2>4, <2>5, <2>6 DEF StackInv
  <2>8. TableInv'
    BY <1>1, <1>2, <2>3, <2>4, <2>5, <2>6 DEF TableInv
  <2>9. Lost' \subseteq Lost
    <3>1. x \in InTransit' /\ \A y : y \notin InTransit
      BY <1>2, <1>5, <2>4, InTransitIs DEF RemoveFree
    <3> QED
      BY <2>3, <2>5, <3>1 DEF Lost, Free, InUse
  <2>10. LostInv'
    BY <1>1, <1>3, <2>9, LostShrinks, EndedType
  <2> QED
    BY <2>7, <2>8, <2>10 DEF PoolInv
<1>6. CASE AllocateStack
  <2>1. PICK x \in Stacks \ live :
          live' = live \cup {x} /\ entry' = [entry EXCEPT !.step = "new", !.stack = x]
    BY <1>6 DEF AllocateStack
  <2>2. freeList' = freeList /\ useList' = useList
    BY <1>6 DEF AllocateStack
  <2>3. entry'.step = "new" /\ entry'.stack = x
    BY <1>1, <2>1, EntryStep
  <2>4. Free' = Free /\ InUse' = InUse
    BY <2>2 DEF Free, InUse
  <2>5. x \in Astray' /\ table[x] = {}
    BY <1>1, <1>4, <2>1, <2>4 DEF Astray, TableInv
  <2>6. StackInv'
    BY <1>1, <1>2, <2>3, <2>4, <2>5 DEF StackInv
  <2>7. TableInv'
    BY <1>1, <1>2, <2>1, <2>3, <2>4, <2>5 DEF TableInv
  <2>8. Lost' \subseteq Lost
    <3>1. x \in InTransit' /\ \A y : y \notin InTransit
      BY <1>2, <1>6, <2>3, InTransitIs DEF AllocateStack
    <3> QED
      BY <2>1, <2>4, <3>1 DEF Lost, Free, InUse
  <2>9. LostInv'
    BY <1>1, <1>3, <2>8, LostShrinks, EndedType
  <2> QED
    BY <2>6, <2>7, <2>9 DEF PoolInv
<1>7. CASE InsertFree
  <2> DEFINE x == entry.stack
  <2>1. x \in Astray /\ table[x] = {} /\ entry.step = "new"
    BY <1>1, <1>7 DEF InsertFree, StackInv, TableInv
  <2>2. freeList' = Append(freeList, x) /\ useList' = useList /\ live' = live
        /\ entry' = [entry EXCEPT !.step = "take", !.stack = NULL]
    BY <1>7 DEF InsertFree
  <2>3. entry'.step = "take"
    BY <1>1, <2>2, EntryStep
  <2>4. Elems(freeList') = Elems(freeList) \cup {x}
    <3>1. freeList \in Seq(Stacks) /\ x \in Stacks
      BY <1>1, <2>1, EntryTypes, CallTypes
    <3> QED
      BY <2>2, <3>1, AppendElems
  <2>5. Free' = Free \cup {x} /\ InUse' = InUse /\ InTransit = {x}
    <3>1. \A y : y \in InTransit <=> y = x
      BY <1>2, <2>1, InTransitIs
    <3> QED
      BY <2>2, <2>4, <3>1 DEF Free, InUse
  <2> HIDE DEF x
  <2>6. StackInv'
    BY <1>1, <1>2, <2>3, <2>5 DEF StackInv
  <2>7. TableInv'
    BY <1>1, <1>2, <2>1, <2>2, <2>3, <2>5 DEF TableInv
  <2>8. Lost' \subseteq Lost
    BY <2>2, <2>5 DEF Lost, Free, InUse
  <2>9. LostInv'
    BY <1>1, <1>3, <2>8, LostShrinks, EndedType
  <2> QED
    BY <2>6, <2>7, <2>9 DEF PoolInv
<1>8. CASE InsertInUse
  <2> DEFINE x == entry.stack
  <2>1. x \in Astray /\ table[x] = {} /\ entry.step = "post" /\ x \in Stacks
    BY <1>1, <1>8, EntryTypes DEF InsertInUse, StackInv, TableInv
  <2>2. useList' = Append(useList, x) /\ freeList' = freeList /\ live' = live
        /\ entry' = [entry EXCEPT !.step = "enter"]
    BY <1>8 DEF InsertInUse
  <2>3. entry'.step = "enter" /\ entry'.stack = x
    <3>1. entry' = [entry EXCEPT !.step = "enter", !.stack = x]
      BY <1>1, <2>2 DEF TypeOK, Entries
    <3> QED
      BY <1>1, <2>1, <3>1, EntryStep
  <2>4. /\ Elems(useList') = Elems(useList) \cup {x}
        /\ useList' # <<>> /\ Top(useList') = x
    <3>1. useList \in Seq(Stacks)
      BY <1>1, CallTypes
    <3> QED
      BY <2>1, <2>2, <3>1, AppendElems, AppendFacts
  <2>5. Free' = Free /\ InUse' = InUse \cup {x} /\ InTransit = {x} /\ x \notin InUse
    <3>1. \A y : y \in InTransit <=> y = x
      BY <1>2, <2>1, InTransitIs
    <3> QED
      BY <2>1, <2>2, <2>4, <3>1 DEF Free, InUse, Astray
  <2> HIDE DEF x
  <2>6. StackInv'
    BY <1>1, <1>2, <2>3, <2>4, <2>5 DEF StackInv
  <2>7. TableInv'
    BY <1>1, <1>2, <2>1, <2>2, <2>3, <2>5 DEF TableInv
  <2>8. Lost' \subseteq Lost
    BY <2>2, <2>5 DEF Lost, Free, InUse
  <2>9. LostInv'
    BY <1>1, <1>3, <2>8, LostShrinks, EndedType
  <2> QED
    BY <2>6, <2>7, <2>9 DEF PoolInv
<1> QED
  BY <1>5, <1>6, <1>7, <1>8

(* The stack of the call that enters is in use, and no other call's. *)
LEMMA PushStackPool ==
  ASSUME IInv, TypeOK', PushStack
  PROVE  PoolInv'
<1> DEFINE f == Frame
           n == Len(calls)
<1>1. /\ Ready /\ TypeOK /\ StackInv /\ TableInv
  BY DEF PushStack, Entering, IInv, CallInv, EntryInv, PoolInv
<1>2. /\ f \in Frames /\ f.kind = "op" /\ f.stack = entry.stack /\ f.step = "name"
  BY PushStackType DEF Frame, Frames
<1>3. /\ calls' = Append(calls, f) /\ entry' = NoEntry /\ entry.step = "enter"
      /\ UNCHANGED <<phase, live, freeList, useList, table, scripts>>
  BY DEF PushStack, pool, script
<1> HIDE DEF f, n
<1>4. /\ OpCalls' = OpCalls \cup {n + 1} /\ calls'[n + 1] = f
      /\ \A i \in OpCalls : calls'[i] = calls[i] /\ calls[i].step = "dump"
  BY <1>1, <1>2, <1>3, CallMade DEF n
<1>5. Free' = Free /\ InUse' = InUse /\ Astray' = Astray /\ Ended' = Ended
  BY <1>3 DEF Free, InUse, Astray, Ended
<1>6. entry'.step = "none" /\ "dump" \in Owning /\ "name" \in Owning
  BY <1>3, NoEntryFacts DEF Owning
<1>7. f.stack \in InUse /\ table[f.stack] = {}
  <2>1. useList # <<>> /\ Top(useList) = f.stack /\ useList \in Seq(Stacks)
    BY <1>1, <1>2, <1>3, CallTypes DEF StackInv
  <2>2. Len(useList) \in DOMAIN useList
    BY <2>1
  <2> QED
    BY <1>1, <1>2, <1>3, <2>1, <2>2 DEF InUse, Elems, Top, TableInv
<1>8. StackInv'
  <2>1. \A i \in OpCalls' : calls'[i].step \in Owning /\ calls'[i].stack \in InUse
    BY <1>1, <1>2, <1>4, <1>6, <1>7 DEF StackInv
  <2>2. \A i \in OpCalls' : calls'[i].step \notin {"clear", "give"}
    BY <1>2, <1>4
  <2>3. ASSUME NEW i \in OpCalls', NEW j \in OpCalls', calls'[i].stack = calls'[j].stack
        PROVE  i = j
    <3>1. \A k \in OpCalls : calls'[k].stack = calls[k].stack /\ calls[k].stack # f.stack
      BY <1>1, <1>2, <1>3, <1>4, <1>6 DEF StackInv
    <3>2. CASE i \in OpCalls /\ j \in OpCalls
      BY <1>1, <1>4, <1>6, <2>3, <3>1, <3>2 DEF StackInv
    <3> QED
      BY <1>4, <2>3, <3>1, <3>2
  <2> QED
    BY <1>5, <1>6, <2>1, <2>2, <2>3 DEF StackInv
<1>9. TableInv'
  <2>1. \A i \in OpCalls' : table[calls'[i].stack] \subseteq {calls'[i].name}
    BY <1>1, <1>4, <1>6, <1>7 DEF TableInv
  <2>2. \A i \in OpCalls' : calls'[i].step # "give"
    BY <1>2, <1>4
  <2> QED
    BY <1>1, <1>3, <1>5, <1>6, <2>1, <2>2 DEF TableInv
<1>10. Lost' \subseteq Lost
  <2>1. \A y : y \notin InTransit
    BY <1>3, <1>4, InTransitIs
  <2> QED
    BY <1>3, <2>1 DEF Lost
<1>11. LostInv'
  BY <1>1, <1>5, <1>10, LostShrinks, EndedType
<1> QED
  BY <1>8, <1>9, <1>11 DEF PoolInv

(* The variable enters the stack of the call it belongs to. *)
LEMMA InsertVariablePool ==
  ASSUME IInv, TypeOK', InsertVariable
  PROVE  PoolInv'
<1> DEFINE n == Len(calls)
           s == Top(calls).stack
<1>1. /\ InOpArray /\ n \in OpCalls /\ Top(calls) = calls[n] /\ ~Entering
      /\ calls[n].step \in Owning /\ s = gsStack /\ s \in InUse /\ s \in Stacks
      /\ calls[n].step # "give"
  <2>1. InOpArray /\ calls # <<>> /\ Top(calls).step \in {"scan", "dump"} /\ ~Entering
    BY DEF InsertVariable, Dumping, AtStep, InOpArray
  <2> QED
    BY <2>1, TopCall, TopPlace, TopStack DEF IInv, Owning
<1>2. /\ UNCHANGED <<phase, calls, entry, live, freeList, useList, scripts>>
      /\ table' = [table EXCEPT ![s] = @ \cup {calls[n].name}]
      /\ table \in [Stacks -> SUBSET OpNames]
  BY <1>1 DEF InsertVariable, script, IInv, TypeOK
<1> HIDE DEF n
<1>3. /\ OpCalls' = OpCalls /\ Free' = Free /\ InUse' = InUse /\ Astray' = Astray
      /\ InTransit' = InTransit /\ Ended' = Ended
  BY <1>2 DEF OpCalls, Free, InUse, Astray, InTransit, Ended
<1>4. StackInv /\ TableInv /\ TypeOK
  BY DEF IInv, PoolInv
<1>5. StackInv'
  BY <1>2, <1>3, <1>4 DEF StackInv
<1>6. s \notin Free /\ s \in live /\ s = calls[n].stack
  BY <1>1, <1>4 DEF TypeOK, Free, InUse
<1> HIDE DEF s
<1>7. TableInv'
  <2>1. \A x \in Stacks : x \in Free \/ x \notin live => table'[x] = {}
    BY <1>2, <1>4, <1>6 DEF TableInv
  <2>2. ASSUME NEW i \in OpCalls, calls[i].step \in Owning
        PROVE  table'[calls[i].stack] \subseteq {calls[i].name}
    <3>1. table[calls[i].stack] \subseteq {calls[i].name} /\ calls[i].stack \in Stacks
      BY <1>4, <2>2, OpCallTypes DEF TableInv
    <3>2. CASE calls[i].stack = s
      <4>1. i = n
        BY <1>1, <1>4, <1>6, <2>2, <3>2 DEF StackInv
      <4> QED
        BY <1>1, <1>2, <3>1, <3>2, <4>1
    <3>3. CASE calls[i].stack # s
      BY <1>1, <1>2, <3>1, <3>3
    <3> QED
      BY <3>2, <3>3
  <2>3. \A i \in OpCalls : calls[i].step # "give"
    BY <1>1, BelowTop DEF n
  <2>4. entry.step \notin {"new", "post", "enter"}
    BY <1>1 DEF Entering
  <2> QED
    BY <1>2, <1>3, <2>1, <2>2, <2>3, <2>4 DEF TableInv
<1>8. Lost' = Lost
  BY <1>2, <1>3 DEF Lost
<1>9. LostInv'
  BY <1>3, <1>4, <1>8, LostShrinks, EndedType
<1> QED
  BY <1>5, <1>7, <1>9 DEF PoolInv

(* FreeStackToPool takes the call's stack from the list of stacks in use, frees
   its variables and puts it in the list of free ones. *)
LEMMA FreeStackPool ==
  ASSUME IInv, TypeOK', UnlinkStack \/ FreeVariables \/ GiveBack
  PROVE  PoolInv'
<1> DEFINE n == Len(calls)
           s == Top(calls).stack
<1>1. /\ InOpArray /\ n \in OpCalls /\ Top(calls) = calls[n] /\ s \in Stacks
      /\ s = calls[n].stack /\ entry.step = "none" /\ calls # <<>>
  <2>1. InOpArray /\ calls # <<>> /\ entry.step = "none"
    BY DEF UnlinkStack, FreeVariables, GiveBack, Dumping, AtStep, InOpArray, Entering
  <2> QED
    BY <2>1, TopCall, TopStack DEF IInv
<1>2. UNCHANGED <<phase, entry, live, scripts>> /\ StackInv /\ TableInv /\ TypeOK
  BY DEF UnlinkStack, FreeVariables, GiveBack, script, IInv, PoolInv
<1>3. PICK f \in OpFrame :
        /\ f.step = IF UnlinkStack THEN "clear" ELSE IF FreeVariables THEN "give" ELSE "unname"
        /\ f.stack = Top(calls).stack /\ f.name = Top(calls).name
        /\ calls' = [calls EXCEPT ![n] = f]
  <2>1. PICK k \in OpSteps :
          /\ k = (IF UnlinkStack THEN "clear" ELSE IF FreeVariables THEN "give" ELSE "unname")
          /\ calls' = [calls EXCEPT ![Len(calls)].step = k]
    BY DEF UnlinkStack, FreeVariables, GiveBack, AtStep, Dumping, OpSteps
  <2> DEFINE g == [Top(calls) EXCEPT !.step = k]
  <2>2. /\ g \in OpFrame /\ g.step = k /\ g.stack = Top(calls).stack
        /\ g.name = Top(calls).name /\ calls' = [calls EXCEPT ![n] = g]
    <3>1. InOpArray /\ TypeOK
      BY <1>1, <1>2
    <3>2. calls' = [calls EXCEPT ![Len(calls)].step = k]
      BY <2>1
    <3>3. LET f == [Top(calls) EXCEPT !.step = k]
          IN  /\ f \in OpFrame /\ f.kind = "op" /\ f.step = k /\ f.stack = Top(calls).stack
              /\ f.name = Top(calls).name /\ f.pushed = Top(calls).pushed
              /\ f.popped = Top(calls).popped
              /\ calls' = [calls EXCEPT ![Len(calls)] = f]
      <4> HIDE DEF n, s, g
      <4> QED
        BY <3>1, <3>2, NextStep
    <3> QED
      BY <3>3
  <2> HIDE DEF g
  <2> QED
    BY <2>1, <2>2, Zenon
<1> HIDE DEF n, s
<1>4. /\ OpCalls' = OpCalls /\ calls'[n] = f
      /\ \A i \in OpCalls : i # n => calls'[i] = calls[i] /\ calls[i].step = "dump"
  BY <1>1, <1>2, <1>3, OpChanged DEF n
<1>5. "dump" \in Owning /\ {"clear", "give", "unname"} \cap Owning = {}
  BY DEF Owning
<1>6. /\ \A i \in OpCalls : calls'[i].step \in Owning => i # n
      /\ \A i \in OpCalls : i # n => /\ calls'[i].step \notin {"clear", "give"}
                                     /\ calls[i].stack \in InUse
                                     /\ table[calls[i].stack] \subseteq {calls[i].name}
      /\ \A i, j \in OpCalls : i # n /\ j # n /\ calls[i].stack = calls[j].stack => i = j
  BY <1>2, <1>3, <1>4, <1>5 DEF StackInv, TableInv
<1>7. Ended' = Ended
  BY <1>2 DEF Ended
<1>8. CASE UnlinkStack
  <2>1. /\ freeList' = freeList /\ table' = table /\ f.step = "clear"
        /\ InUse' = InUse \ {s} /\ s \in InUse /\ calls[n].step \in Owning
    BY <1>1, <1>3, <1>5, <1>8, UnlinkType DEF UnlinkStack, Dumping, AtStep, s
  <2>2. Free' = Free /\ s \in Astray'
    BY <1>2, <2>1 DEF Free, InUse, Astray, TypeOK
  <2>3. \A i \in OpCalls : i # n => calls[i].stack # s
    BY <1>1, <1>2, <1>4, <1>5, <2>1 DEF StackInv
  <2>4. StackInv'
    BY <1>1, <1>2, <1>3, <1>4, <1>6, <2>1, <2>2, <2>3 DEF StackInv, s
  <2>5. TableInv'
    BY <1>1, <1>2, <1>4, <1>6, <2>1, <2>2 DEF TableInv
  <2>6. Lost' \subseteq Lost
    <3>1. /\ s \in InTransit' /\ \A y : y \notin InTransit
      <4>1. calls'[n].stack = s /\ calls'[n].step = "clear"
        BY <1>3, <1>4, <2>1 DEF s
      <4>2. calls[n].step = "dump"
        BY <1>1, <1>8 DEF UnlinkStack, Dumping, AtStep
      <4> QED
        BY <1>1, <1>4, <4>1, <4>2, InTransitIs
    <3> QED
      BY <1>2, <2>1, <2>2, <3>1 DEF Lost, Free, InUse
  <2>7. LostInv'
    BY <1>2, <1>7, <2>6, LostShrinks, EndedType
  <2> QED
    BY <2>4, <2>5, <2>7 DEF PoolInv
<1>9. CASE FreeVariables
  <2>1. /\ freeList' = freeList /\ useList' = useList /\ table' = [table EXCEPT ![s] = {}]
        /\ calls[n].step = "clear" /\ s \in Astray /\ table \in [Stacks -> SUBSET OpNames]
    BY <1>1, <1>2, <1>9 DEF FreeVariables, AtStep, StackInv, s, TypeOK
  <2>2. f.step = "give"
    BY <1>1, <1>3, <1>9 DEF UnlinkStack, FreeVariables, Dumping, AtStep
  <2>3. Free' = Free /\ InUse' = InUse /\ Astray' = Astray
    BY <1>2, <2>1 DEF Free, InUse, Astray
  <2>4. StackInv'
    BY <1>1, <1>2, <1>3, <1>4, <1>6, <2>1, <2>2, <2>3 DEF StackInv, s
  <2>5. TableInv'
    <3>1. \A x \in Stacks : table'[x] = {} \/ table'[x] = table[x]
      BY <2>1
    <3>2. table'[s] = {} /\ calls'[n].stack = s
      BY <1>1, <1>3, <1>4, <2>1 DEF s
    <3>3. \A i \in OpCalls : calls'[i].stack \in Stacks
      BY <1>1, <1>2, <1>4, <3>2, OpCallTypes
    <3>4. \A i \in OpCalls : calls'[i].step \in Owning => table'[calls'[i].stack] \subseteq {calls'[i].name}
      BY <1>4, <1>6, <3>1, <3>3
    <3>5. \A i \in OpCalls : calls'[i].step = "give" => table'[calls'[i].stack] = {}
      BY <1>4, <3>2
    <3>6. \A x \in Stacks : x \in Free \/ x \notin live => table'[x] = {}
      BY <1>2, <3>1 DEF TableInv
    <3> QED
      BY <1>1, <1>2, <1>4, <2>3, <3>4, <3>5, <3>6 DEF TableInv
  <2>6. Lost' \subseteq Lost
    <3>1. /\ s \in InTransit' /\ \A y : y \in InTransit => y = s
      <4>1. calls'[n].stack = s /\ calls'[n].step = "give"
        BY <1>3, <1>4, <2>2 DEF s
      <4> QED
        BY <1>1, <1>4, <4>1, InTransitIs
    <3> QED
      BY <1>2, <2>1, <2>3, <3>1 DEF Lost, Free, InUse
  <2>7. LostInv'
    BY <1>2, <1>7, <2>6, LostShrinks, EndedType
  <2> QED
    BY <2>4, <2>5, <2>7 DEF PoolInv
<1>10. CASE GiveBack
  <2>1. /\ freeList' = Append(freeList, s) /\ useList' = useList /\ table' = table
        /\ calls[n].step = "give" /\ s \in Astray /\ table[s] = {}
    BY <1>1, <1>2, <1>10 DEF GiveBack, AtStep, StackInv, TableInv, s
  <2>2. f.step = "unname"
    BY <1>1, <1>3, <1>10 DEF UnlinkStack, FreeVariables, GiveBack, Dumping, AtStep
  <2>3. Free' = Free \cup {s} /\ InUse' = InUse
    <3>1. freeList \in Seq(Stacks)
      BY <1>2, CallTypes
    <3> QED
      BY <1>1, <2>1, <3>1, AppendElems DEF Free, InUse
  <2>4. StackInv'
    BY <1>1, <1>2, <1>3, <1>4, <1>6, <2>1, <2>2, <2>3 DEF StackInv, s
  <2>5. TableInv'
    BY <1>1, <1>2, <1>4, <1>6, <2>1, <2>2, <2>3 DEF TableInv
  <2>6. Lost' \subseteq Lost
    <3>1. \A y : y \in InTransit => y = s
      BY <1>1, <1>4, InTransitIs
    <3> QED
      BY <1>2, <2>1, <2>3, <3>1 DEF Lost, Free, InUse
  <2>7. LostInv'
    BY <1>2, <1>7, <2>6, LostShrinks, EndedType
  <2> QED
    BY <2>4, <2>5, <2>7 DEF PoolInv
<1> QED
  BY <1>8, <1>9, <1>10

(* No call is active. *)
LEMMA NoCallsPool ==
  ASSUME OpCalls' = {}, entry'.step = "none",
         \A s \in Stacks : s \in Free' \/ s \notin live' => table'[s] = {}
  PROVE  StackInv' /\ TableInv'
BY DEF StackInv, TableInv

(* At most one stack is on its way between the lists. *)
LEMMA OneInTransit ==
  ASSUME IInv
  PROVE  \E x : InTransit \subseteq {x}
<1>1. CASE Entering
  <2>1. Ready /\ TypeOK
    BY <1>1 DEF IInv, CallInv, EntryInv
  <2>2. \A i \in OpCalls : calls[i].step = "dump"
    BY <2>1, ReadySteps
  <2>3. InTransit \subseteq {entry.stack}
    BY <2>2, InTransitIs
  <2> QED
    BY <2>3
<1>2. CASE ~Entering
  <2>1. \A i \in OpCalls : calls[i].step \in {"clear", "give"} => i = Len(calls)
    BY BelowTop
  <2>2. InTransit \subseteq {calls[Len(calls)].stack}
    BY <1>2, <2>1, InTransitIs DEF Entering
  <2> QED
    BY <2>2
<1> QED
  BY <1>1, <1>2

(* An exception loses the stack that is on its way. *)
LEMMA ExceptionPool ==
  ASSUME IInv, TypeOK', Exception
  PROVE  PoolInv'
<1>1. /\ calls' = <<>> /\ entry' = NoEntry /\ phase \in Trying /\ phase' = "tail"
      /\ UNCHANGED <<live, freeList, useList, table, scripts>> /\ TypeOK
  BY DEF Exception, pool, script, IInv
<1>2. OpCalls' = {} /\ entry'.step = "none"
  BY <1>1, NoEntryFacts DEF OpCalls
<1>3. StackInv' /\ TableInv'
  <2>1. \A s \in Stacks : s \in Free' \/ s \notin live' => table'[s] = {}
    BY <1>1 DEF IInv, PoolInv, TableInv, Free
  <2> QED
    BY <1>2, <2>1, NoCallsPool
<1>4. PICK x : InTransit \subseteq {x}
  BY OneInTransit
<1>5. Lost' \subseteq Lost \cup {x}
  BY <1>1, <1>4 DEF Lost
<1>6. IsFiniteSet(Lost) /\ Cardinality(Lost) <= Ended
  BY DEF IInv, PoolInv, LostInv
<1>7. /\ IsFiniteSet(Lost \cup {x})
      /\ Cardinality(Lost \cup {x}) = IF x \in Lost THEN Cardinality(Lost) ELSE Cardinality(Lost) + 1
      /\ Cardinality(Lost) \in Nat
  BY <1>6, FS_AddElement, FS_CardinalityType
<1>8. /\ IsFiniteSet(Lost') /\ Cardinality(Lost') <= Cardinality(Lost \cup {x})
      /\ Cardinality(Lost') \in Nat /\ Cardinality(Lost \cup {x}) \in Nat
  BY <1>5, <1>7, FS_Subset, FS_CardinalityType
<1>9. scripts \in Nat /\ Ended = scripts - 1 /\ Ended' = scripts
  BY <1>1, EndedType DEF Ended, Trying
<1>10. Cardinality(Lost') <= Ended'
  BY <1>6, <1>7, <1>8, <1>9
<1> QED
  BY <1>3, <1>8, <1>10 DEF PoolInv, LostInv

(* UninitGlobalSetting frees what is in the lists. *)
LEMMA UninitPool ==
  ASSUME IInv, TypeOK', Uninit
  PROVE  PoolInv'
<1>1. /\ calls' = calls /\ entry' = entry /\ phase = "idle" /\ phase' = "done"
      /\ live' = live \ (InUse \cup Free) /\ useList' = <<>> /\ freeList' = <<>>
      /\ \A s \in Stacks : table'[s] = {}
      /\ scripts' = scripts /\ TypeOK
  BY DEF Uninit, script, IInv, InUse, Free
<1>2. NoCall
  BY <1>1 DEF IInv, CallInv, PhaseInv, Trying
<1>3. OpCalls' = {} /\ OpCalls = {} /\ entry.step = "none" /\ entry'.step = "none"
  BY <1>1, <1>2 DEF OpCalls, NoCall, Entering
<1>4. StackInv' /\ TableInv'
  BY <1>1, <1>3, NoCallsPool
<1>5. Lost' \subseteq Lost
  <2>1. \A y : y \notin InTransit
    BY <1>3, InTransitIs
  <2> QED
    BY <1>1, <2>1 DEF Lost, InUse, Free
<1>6. Ended' = Ended
  BY <1>1 DEF Ended, Trying
<1>7. LostInv'
  BY <1>1, <1>5, <1>6, LostShrinks, EndedType
<1> QED
  BY <1>4, <1>7 DEF PoolInv

LEMMA PoolStep ==
  ASSUME IInv, TypeOK', [Next]_vars
  PROVE  PoolInv'
<1> DEFINE Giving == {"clear", "give"}
           Quiet  == /\ UNCHANGED pool /\ Ended <= Ended'
                     /\ \A i \in OpCalls' : calls'[i].step \in Owning \cup Giving =>
                          /\ i \in OpCalls /\ calls'[i].stack = calls[i].stack
                          /\ calls'[i].name = calls[i].name
                          /\ calls'[i].step \in Owning <=> calls[i].step \in Owning
                          /\ calls'[i].step \notin Owning => calls'[i].step = calls[i].step
                     /\ \A i \in OpCalls : calls[i].step \in Giving =>
                          i \in OpCalls' /\ calls'[i] = calls[i]
                     /\ entry'.step \in {"new", "post", "enter"} => entry' = entry
                     /\ entry.step \in {"new", "post"} => entry' = entry
<1>1. Quiet => PoolInv'
  BY SamePool
<1>2. /\ TypeOK /\ scripts \in Nat /\ Ended \in Int /\ NoEntry.step = "none"
      /\ calls \in Seq(Frames) /\ "dump" \in Owning
      /\ phase \notin Trying => calls = <<>> /\ entry.step = "none"
  BY EndedType, NoEntryFacts, CallTypes DEF IInv, Owning, CallInv, PhaseInv, NoCall, Entering
<1>3. ASSUME UNCHANGED <<phase, scripts>>
      PROVE  Ended <= Ended'
  BY <1>2, <1>3 DEF Ended
<1>4. ASSUME NEW file \in Files, StartScript(file)
      PROVE  PoolInv'
  <2>1. Ended' = Ended
    BY <1>2, <1>4 DEF StartScript, Ended, Trying
  <2>2. Quiet
    BY <1>2, <1>4, <2>1 DEF StartScript, OpCalls, Trying
  <2> QED
    BY <1>1, <2>2
<1>5. ASSUME NEW c \in Classes, DumpClassTable(c) \/ DumpClass(c)
      PROVE  PoolInv'
  <2> DEFINE f == [kind |-> "class", name |-> c, step |-> "head", todo |-> Methods]
  <2>1. NoCall \/ Dumping
    BY <1>5 DEF DumpClassTable, DumpClass
  <2>2. Ready /\ ~Entering
    BY <2>1, TopReady
  <2>3. f \in Frames /\ f.kind = "class"
    BY DEF Frames, ClassFrame
  <2>4. /\ calls' = Append(calls, f) /\ UNCHANGED <<pool, entry, phase, scripts>>
    BY <1>5 DEF DumpClassTable, DumpClass, EnterClass, script
  <2> HIDE DEF f
  <2>5. calls = <<>> \/ Op(Len(calls))
    <3>1. InOpArray => calls # <<>>
      BY DEF InOpArray
    <3> QED
      BY <1>2, <2>1, <3>1, TopCall DEF Op, OpCalls, NoCall, Dumping, AtStep
  <2>6. /\ OpCalls' = OpCalls \cup {i \in {Len(calls) + 1} : f.kind = "op"}
        /\ \A i \in OpCalls : calls'[i] = calls[i]
    BY <2>2, <2>3, <2>4, <2>5, CallMade
  <2>7. OpCalls' = OpCalls
    BY <2>3, <2>6
  <2>8. Quiet
    BY <1>3, <2>2, <2>4, <2>6, <2>7 DEF Entering
  <2> QED
    BY <1>1, <2>8
<1>6. ASSUME NEW f \in Functions, NEW flags \in Flags,
             DumpFunctionTable(f) \/ DumpFunction(f, flags)
      PROVE  PoolInv'
  <2>1. /\ UNCHANGED <<phase, calls, pool, scripts>> /\ entry'.step = "take"
        /\ entry.step = "none" /\ OpCalls' = OpCalls
    BY <1>6 DEF DumpFunctionTable, DumpFunction, DumpWithFlags, EnterOpArray, script, OpCalls,
                NoCall, Dumping, AtStep, InOpArray, Entering
  <2>2. Quiet
    BY <1>3, <2>1
  <2> QED
    BY <1>1, <2>2
<1>7. ASSUME NEW m \in Methods, NEW flags \in Flags, DumpMethod(m, flags)
      PROVE  PoolInv'
  <2>1. /\ calls # <<>> /\ InClass
        /\ \E f \in ClassFrame : /\ f.kind = "class" /\ f.step = "body"
                                 /\ calls' = [calls EXCEPT ![Len(calls)] = f]
    BY <1>2, <1>7, DumpMethodCalls
  <2>2. PICK f \in ClassFrame : /\ f.kind = "class"
                                /\ calls' = [calls EXCEPT ![Len(calls)] = f]
    BY <2>1
  <2>3. /\ OpCalls' = OpCalls /\ Len(calls) \notin OpCalls
        /\ \A i \in OpCalls : i # Len(calls) => calls'[i] = calls[i]
    <3>1. f \in Frames /\ f.kind = Top(calls).kind /\ f.kind # "op"
      BY <2>1, <2>2 DEF Frames, InClass
    <3>2. Len(calls) \notin OpCalls
      BY <1>2, <2>1, TopCall DEF OpCalls, Op
    <3> QED
      BY <2>1, <2>2, <3>1, <3>2, TopChanged
  <2>4. /\ UNCHANGED <<phase, pool, scripts>> /\ entry'.step = "take" /\ entry.step = "none"
    BY <1>7 DEF DumpMethod, DumpWithFlags, EnterOpArray, script, InClass, Entering
  <2>5. Quiet
    BY <1>3, <2>3, <2>4
  <2> QED
    BY <1>1, <2>5
<1>8. CASE DumpMain
  <2>1. /\ UNCHANGED <<calls, pool, scripts>> /\ entry'.step = "take"
        /\ entry.step = "none" /\ OpCalls' = OpCalls /\ Ended' = Ended
    BY <1>8 DEF DumpMain, EnterOpArray, script, OpCalls, NoCall, Entering, Ended, Trying
  <2>2. Quiet
    BY <1>2, <2>1
  <2> QED
    BY <1>1, <2>2
<1>9. CASE ClassHeader
  <2> DEFINE f == [Top(calls) EXCEPT !.step = "body"]
  <2>1. /\ calls # <<>> /\ Top(calls) \in ClassFrame /\ InClass /\ Len(calls) \notin OpCalls
    BY <1>2, <1>9, TopCall DEF ClassHeader, InClass, Op, OpCalls
  <2>2. f \in Frames /\ f.kind = "class" /\ Top(calls).kind = "class"
    BY <2>1 DEF Frames, ClassFrame
  <2>3. calls' = [calls EXCEPT ![Len(calls)] = f]
    BY <1>9 DEF ClassHeader, Top
  <2> HIDE DEF f
  <2>4. OpCalls' = OpCalls /\ \A i \in OpCalls : i # Len(calls) => calls'[i] = calls[i]
    BY <2>1, <2>2, <2>3, TopChanged
  <2>5. UNCHANGED <<phase, entry, pool, scripts>>
    BY <1>9 DEF ClassHeader, script
  <2>6. Quiet
    BY <1>3, <2>1, <2>4, <2>5
  <2> QED
    BY <1>1, <2>6
<1>10. CASE LeaveClass \/ LeaveOpArray
  <2>1. /\ calls # <<>> /\ calls' = Popped(calls) /\ UNCHANGED <<phase, entry, pool, scripts>>
        /\ Len(calls) \in OpCalls => calls[Len(calls)].step \notin Giving
    <3>1. CASE LeaveClass
      <4>1. InClass /\ calls # <<>>
        BY <3>1 DEF LeaveClass, InClass
      <4> QED
        BY <1>2, <3>1, <4>1, TopCall DEF LeaveClass, script, OpCalls, Op
    <3>2. CASE LeaveOpArray
      <4>1. AtStep("pop") /\ calls # <<>>
        BY <3>2 DEF LeaveOpArray, AtStep, InOpArray
      <4> QED
        BY <1>2, <3>2, <4>1, TopCall DEF LeaveOpArray, script, AtStep
    <3> QED
      BY <1>10, <3>1, <3>2
  <2>2. /\ OpCalls' = OpCalls \ {Len(calls)}
        /\ \A i \in OpCalls' : calls'[i] = calls[i] /\ calls[i].step = "dump"
    BY <2>1, CallLeft
  <2>3. Quiet
    BY <1>3, <2>1, <2>2
  <2> QED
    BY <1>1, <2>3
<1>11. CASE RemoveFree \/ AllocateStack \/ InsertFree \/ InsertInUse
  BY <1>11, EnteringPool
<1>12. CASE AllocateStackFails
  <2>1. /\ UNCHANGED <<phase, calls, pool, scripts>> /\ OpCalls' = OpCalls
        /\ entry'.step = "none" /\ entry.step = "take"
    BY <1>2, <1>12 DEF AllocateStackFails, script, OpCalls
  <2>2. Quiet
    BY <1>3, <2>1
  <2> QED
    BY <1>1, <2>2
<1>13. CASE PushStack
  BY <1>13, PushStackPool
<1>14. CASE PushFunctionName \/ PopFunctionName
  <2>1. /\ InOpArray /\ UNCHANGED <<phase, entry, pool, scripts>>
        /\ Top(calls).step \notin Giving
        /\ Top(calls).step \in Owning <=> PushFunctionName
    BY <1>14 DEF PushFunctionName, PopFunctionName, AtStep, script, Owning
  <2>2. PICK k \in {"scan", "pop"} :
          k = (IF PushFunctionName THEN "scan" ELSE "pop")
          /\ calls' = [calls EXCEPT ![Len(calls)].step = k]
    BY <1>14 DEF PushFunctionName, PopFunctionName
  <2>3. PICK f \in OpFrame : /\ f.step = k /\ f.stack = Top(calls).stack
                             /\ f.name = Top(calls).name
                             /\ calls' = [calls EXCEPT ![Len(calls)] = f]
    <3>1. k \in OpSteps /\ calls' = [calls EXCEPT ![Len(calls)].step = k]
      BY <2>2 DEF OpSteps
    <3> QED
      BY <1>2, <2>1, <3>1, NextStep
  <2>4. /\ OpCalls' = OpCalls /\ calls'[Len(calls)] = f /\ Top(calls) = calls[Len(calls)]
        /\ \A i \in OpCalls : i # Len(calls) => calls'[i] = calls[i]
    BY <2>1, <2>3, OpChanged
  <2>5. k \in Owning <=> PushFunctionName
    BY <2>2 DEF Owning
  <2>6. Quiet
    <3>1. \A i \in OpCalls : i # Len(calls) => calls'[i] = calls[i]
      BY <2>4
    <3>2. /\ calls'[Len(calls)].stack = calls[Len(calls)].stack
          /\ calls'[Len(calls)].name = calls[Len(calls)].name
          /\ calls'[Len(calls)].step = k
          /\ calls[Len(calls)].step \notin Giving
          /\ calls[Len(calls)].step \in Owning <=> k \in Owning
      BY <2>1, <2>3, <2>4, <2>5
    <3>3. k \notin Giving
      BY <2>2
    <3> QED
      BY <1>3, <2>1, <2>4, <3>1, <3>2, <3>3
  <2> QED
    BY <1>1, <2>6
<1>15. CASE ScanOpArray
  <2>1. /\ InOpArray /\ UNCHANGED <<phase, entry, pool, scripts>> /\ calls # <<>>
        /\ Top(calls).step = "scan" /\ Top(calls) \in OpFrame
    BY <1>2, <1>15, TopCall DEF ScanOpArray, AtStep, InOpArray, script
  <2>2. PICK popped \in Flags \cup {NULL} :
          calls' = [calls EXCEPT ![Len(calls)].step = "dump", ![Len(calls)].popped = popped]
    <3>1. functionFlags # <<>> => Top(functionFlags) \in Flags
      BY <1>2, CallTypes, PoppedFacts
    <3> QED
      BY <1>15, <3>1 DEF ScanOpArray
  <2> DEFINE f == [Top(calls) EXCEPT !.step = "dump", !.popped = popped]
  <2>3. f \in OpFrame /\ f.step = "dump" /\ f.stack = Top(calls).stack /\ f.name = Top(calls).name
    BY <2>1 DEF OpFrame
  <2>4. calls' = [calls EXCEPT ![Len(calls)] = f]
    BY <1>2, <2>1, <2>2, TopCall DEF Top
  <2> HIDE DEF f
  <2>5. /\ OpCalls' = OpCalls /\ calls'[Len(calls)] = f /\ Top(calls) = calls[Len(calls)]
        /\ \A i \in OpCalls : i # Len(calls) => calls'[i] = calls[i]
    BY <2>1, <2>3, <2>4, OpChanged
  <2>6. "scan" \in Owning /\ "scan" \notin Giving /\ "dump" \notin Giving
    BY DEF Owning
  <2>7. Quiet
    BY <1>2, <1>3, <2>1, <2>3, <2>5, <2>6
  <2> QED
    BY <1>1, <2>7
<1>16. CASE InsertVariable
  BY <1>16, InsertVariablePool
<1>17. CASE UnlinkStack \/ FreeVariables \/ GiveBack
  BY <1>17, FreeStackPool
<1>18. CASE Exception
  BY <1>18, ExceptionPool
<1>19. CASE ClassTableDone \/ MainDone \/ EndScript \/ UNCHANGED vars
  <2>1. /\ UNCHANGED <<calls, entry, pool, scripts>> /\ OpCalls' = OpCalls
        /\ phase' \in Trying => phase \in Trying
    BY <1>19 DEF ClassTableDone, MainDone, EndScript, vars, script, OpCalls, Trying
  <2>2. Ended <= Ended'
    BY <1>2, <2>1 DEF Ended
  <2>3. Quiet
    BY <2>1, <2>2
  <2> QED
    BY <1>1, <2>3
<1>20. CASE Uninit
  BY <1>20, UninitPool
<1> QED
  <2> HIDE DEF Quiet, Giving
  <2> QED
    BY <1>4, <1>5, <1>6, <1>7, <1>8, <1>9, <1>10, <1>11, <1>12, <1>13, <1>14, <1>15, <1>16,
       <1>17, <1>18, <1>19, <1>20, SessionAssumption
    DEF Next, Exited
-----------------------------------------------------------------------------
(* Where the names and the stacks of the calls are. *)

LEMMA FoundTypes ==
  ASSUME IInv, Clean
  PROVE  /\ found.ptrList \in Seq(Stacks) /\ found.functionName \in Seq(OpNames)
         /\ found.className \in Seq(Classes \cup {Main})
         /\ Named(found.className) \in Seq(Classes \cup {Main})
         /\ found.functionFlags \in Seq(Flags) /\ found.gsLocks \in Nat
         /\ found.useList \in Seq(Stacks)
<1>1. found \in [useList : Seq(Stacks), ptrList : Seq(Stacks),
                 functionName : Seq(OpNames), className : Seq(Classes \cup {Main}),
                 functionFlags : Seq(Flags), gsLocks : Nat]
  BY DEF IInv, PastInv, FoundType, Clean
<1>2. <<Main>> \in Seq(Classes \cup {Main})
  OBVIOUS
<1> QED
  BY <1>1, <1>2 DEF Named

LEMMA SamePlaces ==
  ASSUME IInv, SameCalls(calls', calls), UNCHANGED <<ptrList, className>>,
         CallNames' = CallNames,
         phase' \in Trying => phase \in Trying, Clean' => Clean /\ found' = found
  PROVE  PlaceInv'
<1>1. PICK p : Places(p) /\ NamesBelow(p[0]) /\ (Clean => FoundBelow(p[0]))
  BY DEF IInv, PlaceInv
<1>2. Places(p)'
  BY <1>1, SameCallsPlaces DEF Places
<1>3. NamesBelow(p[0])'
  BY <1>1 DEF NamesBelow, Trying
<1>4. Clean' => FoundBelow(p[0])'
  BY <1>1 DEF FoundBelow, ClassNames, SameCalls
<1> QED
  BY <1>2, <1>3, <1>4 DEF PlaceInv

LEMMA EnterOpArrayPlaces ==
  ASSUME IInv, TypeOK', phase \in Trying, NEW base \in Seq(Frames), SameCalls(base, calls),
         NEW f \in OpFrame, Pushed(calls', base, f), Pushed(ptrList', ptrList, f.stack),
         Pushed(CallNames', CallNames, f.name), CallNames' \in Seq(OpNames),
         UNCHANGED <<className, found>>
  PROVE  PlaceInv'
<1>1. PICK p : Places(p) /\ NamesBelow(p[0]) /\ (Clean => FoundBelow(p[0]))
  BY DEF IInv, PlaceInv
<1>2. /\ ptrList \in Seq(Stacks) /\ CallNames \in Seq(OpNames)
      /\ calls' \in Seq(Frames) /\ ptrList' \in Seq(Stacks) /\ CallNames' \in Seq(OpNames)
      /\ Len(calls) \in Nat /\ Len(ptrList) \in Nat /\ Len(CallNames) \in Nat
  BY CallTypes, CallNamesType DEF IInv, TypeOK, Frames, OpNames
<1>3. f \in Frames /\ f.kind = "op" /\ f.stack \in Stacks /\ f.name \in OpNames
  BY DEF Frames, OpFrame, OpNames
<1>4. Len(calls') = Len(calls) + 1
  BY DEF Pushed, SameCalls
<1>5. Len(ptrList') = Len(ptrList) + 1
  BY DEF Pushed
<1>6. Len(CallNames') = Len(CallNames) + 1
  BY DEF Pushed
<1>7. PlacesIn(p, base, ptrList, CallNames) /\ NamePlace(p[0], ptrList, CallNames) > 0
  BY <1>1, SameCallsPlaces DEF Places, NamesBelow
<1>8. p[0] \in 0 .. Len(ptrList)
  <2>1. \A i \in 0 .. Len(base) : p[i] \in 0 .. Len(ptrList)
    BY <1>2, <1>7, PlacesApart
  <2>2. 0 \in 0 .. Len(base)
    BY <1>2 DEF SameCalls
  <2> QED
    BY <2>1, <2>2
<1>9. PICK r : PlacesIn(r, calls', ptrList', CallNames') /\ r[0] = p[0]
  BY <1>2, <1>3, <1>4, <1>5, <1>6, <1>7, PushedOpPlaces
<1>10. NamePlace(r[0], ptrList', CallNames') = NamePlace(p[0], ptrList, CallNames)
  BY <1>2, <1>5, <1>6, <1>8, <1>9 DEF NamePlace
<1>11. ASSUME Clean'
       PROVE  FoundBelow(r[0])'
  <2>1. Clean /\ FoundBelow(p[0])
    BY <1>1, <1>11 DEF Clean
  <2>2. /\ StartsWith(ptrList', found.ptrList) /\ StartsWith(CallNames', found.functionName)
    BY <1>2, <1>5, <1>6, <2>1, FoundTypes, StartsWithPushed DEF FoundBelow
  <2>3. ASSUME NEW b \in Seq(Classes \cup {Main}), ClassNames(b, p[0])
        PROVE  ClassNames(b, p[0])'
    <3>1. Len(className) + Len(ptrList) = Len(b) + Len(calls) + p[0]
      BY <2>3 DEF ClassNames
    <3>2. /\ Len(b) \in Nat /\ Len(className) \in Nat /\ Len(ptrList) \in Nat
          /\ Len(calls) \in Nat
      BY CallTypes, CallNamesType DEF IInv
    <3>3. Len(className) + (Len(ptrList) + 1) = Len(b) + (Len(calls) + 1) + p[0]
      <4> DEFINE cl == Len(className)
                 bl == Len(b)
                 nl == Len(calls)
                 ql == Len(ptrList)
                 k  == p[0]
      <4>1. cl \in Nat /\ bl \in Nat /\ nl \in Nat /\ ql \in Nat /\ k \in 0 .. ql
        BY <1>8, <3>2
      <4>2. cl + ql = bl + nl + k
        BY <3>1
      <4> HIDE DEF cl, bl, nl, ql, k
      <4>3. cl + (ql + 1) = bl + (nl + 1) + k
        BY <4>1, <4>2
      <4> QED
        BY <4>3 DEF cl, bl, nl, ql, k
    <3> QED
      BY <1>4, <1>5, <2>3, <3>3 DEF ClassNames
  <2>4. ClassNames(found.className, p[0])' \/ ClassNames(Named(found.className), p[0])'
    BY <2>1, <2>3, FoundTypes DEF FoundBelow
  <2> QED
    BY <1>9, <1>10, <2>1, <2>2, <2>4 DEF FoundBelow
<1> QED
  BY <1>7, <1>9, <1>10, <1>11 DEF PlaceInv, Places, NamesBelow
LEMMA EnterClassPlaces ==
  ASSUME IInv, TypeOK', NEW c \in Classes, EnterClass(c), UNCHANGED phase, CallNames' = CallNames
  PROVE  PlaceInv'
<1> DEFINE f == [kind |-> "class", name |-> c, step |-> "head", todo |-> Methods]
<1>1. PICK p : Places(p) /\ NamesBelow(p[0]) /\ (Clean => FoundBelow(p[0]))
  BY DEF IInv, PlaceInv
<1>2. f \in Frames /\ f.kind = "class"
  BY DEF Frames, ClassFrame
<1>3. /\ calls' = Append(calls, f) /\ className' = Append(className, c)
      /\ UNCHANGED <<ptrList, CallNames, found>>
  BY DEF EnterClass, current
<1> HIDE DEF f
<1>4. /\ calls \in Seq(Frames) /\ ptrList \in Seq(Stacks) /\ CallNames \in Seq(OpNames)
      /\ className \in Seq(Classes \cup {Main}) /\ c \in Classes \cup {Main}
      /\ calls' \in Seq(Frames) /\ className' \in Seq(Classes \cup {Main})
      /\ Len(calls) \in Nat /\ Len(ptrList) \in Nat /\ Len(className) \in Nat
  BY CallTypes, CallNamesType DEF IInv, TypeOK, Frames
<1>5. Pushed(calls', calls, f) /\ Len(calls') = Len(calls) + 1
  BY <1>2, <1>3, <1>4, AppendFacts DEF Pushed
<1>6. Pushed(className', className, c) /\ Len(className') = Len(className) + 1
  BY <1>3, <1>4, AppendFacts DEF Pushed
<1>7. PICK r : PlacesIn(r, calls', ptrList, CallNames) /\ r[0] = p[0]
  BY <1>1, <1>2, <1>4, <1>5, PushedClassPlaces DEF Places
<1>8. p[0] \in 0 .. Len(ptrList)
  <2>1. \A i \in 0 .. Len(calls) : p[i] \in 0 .. Len(ptrList)
    BY <1>1, <1>4, PlacesApart DEF Places
  <2> QED
    BY <1>4, <2>1
<1>9. ASSUME Clean'
      PROVE  FoundBelow(r[0])'
  <2>1. Clean /\ FoundBelow(p[0])
    BY <1>1, <1>3, <1>9 DEF Clean, Trying
  <2>2. ASSUME NEW b \in Seq(Classes \cup {Main}), ClassNames(b, p[0])
        PROVE  ClassNames(b, p[0])'
    <3>1. StartsWith(className', b)
      BY <1>4, <1>6, <2>2, StartsWithPushed DEF ClassNames
    <3>2. Len(b) \in Nat
      OBVIOUS
    <3>3. (Len(className) + 1) + Len(ptrList) = Len(b) + (Len(calls) + 1) + p[0]
      <4>1. Len(className) + Len(ptrList) = Len(b) + Len(calls) + p[0]
        BY <2>2 DEF ClassNames
      <4>2. /\ Len(className) \in Nat /\ Len(ptrList) \in Nat /\ Len(calls) \in Nat
            /\ p[0] \in Nat
        BY <1>4, <1>8
      <4> QED
        BY <3>2, <4>1, <4>2
    <3>4. ptrList' = ptrList
      BY <1>3
    <3> QED
      BY <1>5, <1>6, <3>1, <3>3, <3>4 DEF ClassNames
  <2>3. ClassNames(found.className, p[0])' \/ ClassNames(Named(found.className), p[0])'
    BY <1>3, <2>1, <2>2, FoundTypes DEF FoundBelow
  <2> QED
    BY <1>3, <1>7, <2>1, <2>3 DEF FoundBelow
<1> QED
  BY <1>1, <1>3, <1>7, <1>9 DEF PlaceInv, Places, NamesBelow, Trying
LEMMA LeaveOpArrayPlaces ==
  ASSUME IInv, TypeOK', InOpArray, Pushed(calls, calls', Top(calls)),
         Pushed(ptrList, ptrList', Top(ptrList)),
         Pushed(CallNames, CallNames', Top(CallNames)), CallNames' \in Seq(OpNames),
         UNCHANGED <<phase, className, found>>
  PROVE  PlaceInv'
<1>1. PICK p : Places(p) /\ NamesBelow(p[0]) /\ (Clean => FoundBelow(p[0]))
  BY DEF IInv, PlaceInv
<1>2. /\ calls \in Seq(Frames) /\ ptrList \in Seq(Stacks) /\ CallNames \in Seq(OpNames)
      /\ calls' \in Seq(Frames) /\ ptrList' \in Seq(Stacks) /\ CallNames' \in Seq(OpNames)
      /\ Len(calls') \in Nat /\ Len(ptrList') \in Nat /\ Len(CallNames') \in Nat
  BY CallTypes, CallNamesType, SMTT(30) DEF IInv, TypeOK, Frames, OpNames
<1>3. /\ Len(calls) = Len(calls') + 1 /\ Len(ptrList) = Len(ptrList') + 1
      /\ Len(CallNames) = Len(CallNames') + 1
  BY DEF Pushed
<1>4. Top(calls).kind = "op" /\ PlacesIn(p, calls, ptrList, CallNames)
  BY <1>1 DEF InOpArray, Places
<1>5. NamePlace(p[0], ptrList, CallNames) > 0
  BY <1>1, InsideTry DEF NamesBelow
<1>6. /\ p[0] \in 0 .. Len(ptrList')
      /\ \E r : PlacesIn(r, calls', ptrList', CallNames') /\ r[0] = p[0]
  BY <1>2, <1>4, <1>5, PoppedOpPlaces
<1>7. PICK r : PlacesIn(r, calls', ptrList', CallNames') /\ r[0] = p[0]
  BY <1>6
<1>8. NamePlace(r[0], ptrList', CallNames') = NamePlace(p[0], ptrList, CallNames)
  BY <1>2, <1>3, <1>6, <1>7 DEF NamePlace
<1>9. ASSUME Clean'
      PROVE  FoundBelow(r[0])'
  <2>1. Clean /\ FoundBelow(p[0])
    BY <1>1, <1>9 DEF Clean, Trying
  <2>2. StartsWith(ptrList', found.ptrList)
    BY <1>2, <1>6, <2>1, FoundTypes, StartsWithPushed DEF FoundBelow
  <2>3. Len(found.functionName) <= Len(CallNames')
    <3>1. NamePlace(p[0], ptrList, CallNames) = Len(found.functionName) + 1
      BY <2>1 DEF FoundBelow
    <3>2. Len(found.functionName) \in Nat
      BY <2>1, FoundTypes
    <3> QED
      BY <1>2, <1>3, <1>6, <3>1, <3>2 DEF NamePlace
  <2>4. StartsWith(CallNames', found.functionName)
    BY <1>2, <2>1, <2>3, FoundTypes, StartsWithPushed DEF FoundBelow
  <2>5. ASSUME NEW b \in Seq(Classes \cup {Main}), ClassNames(b, p[0])
        PROVE  ClassNames(b, p[0])'
    <3>1. Len(className) + Len(ptrList) = Len(b) + Len(calls) + p[0]
      BY <2>5 DEF ClassNames
    <3>2. /\ Len(b) \in Nat /\ Len(className) \in Nat /\ Len(ptrList') \in Nat
          /\ Len(calls') \in Nat
      BY <1>2, CallTypes, CallNamesType DEF IInv
    <3>3. Len(className) + Len(ptrList') = Len(b) + Len(calls') + p[0]
      <4> DEFINE cl == Len(className)
                 bl == Len(b)
                 nl == Len(calls')
                 ql == Len(ptrList')
                 k  == p[0]
      <4>1. cl \in Nat /\ bl \in Nat /\ nl \in Nat /\ ql \in Nat /\ k \in Nat
        BY <1>2, <1>6, <3>2
      <4>2. cl + (ql + 1) = bl + (nl + 1) + k
        BY <1>3, <3>1
      <4> HIDE DEF cl, bl, nl, ql, k
      <4>3. cl + ql = bl + nl + k
        BY <4>1, <4>2
      <4> QED
        BY <4>3 DEF cl, bl, nl, ql, k
    <3> QED
      BY <2>5, <3>3 DEF ClassNames
  <2>6. ClassNames(found.className, p[0])' \/ ClassNames(Named(found.className), p[0])'
    BY <2>1, <2>5, FoundTypes DEF FoundBelow
  <2> QED
    BY <1>7, <1>8, <2>1, <2>2, <2>4, <2>6 DEF FoundBelow
<1> QED
  BY <1>5, <1>7, <1>8, <1>9 DEF PlaceInv, Places, NamesBelow
LEMMA LeaveClassPlaces ==
  ASSUME IInv, TypeOK', LeaveClass, CallNames' = CallNames
  PROVE  PlaceInv'
<1>1. PICK p : Places(p) /\ NamesBelow(p[0]) /\ (Clean => FoundBelow(p[0]))
  BY DEF IInv, PlaceInv
<1>2. /\ calls \in Seq(Frames) /\ ptrList \in Seq(Stacks) /\ CallNames \in Seq(OpNames)
      /\ className \in Seq(Classes \cup {Main}) /\ className' \in Seq(Classes \cup {Main})
      /\ calls' \in Seq(Frames) /\ Len(calls') \in Nat /\ Len(ptrList) \in Nat
      /\ Len(className) \in Nat /\ Len(calls) \in Nat
  BY CallTypes, CallNamesType, SMTT(30) DEF IInv, TypeOK, Frames
<1>3. /\ UNCHANGED <<phase, ptrList, CallNames, found>> /\ calls' = Popped(calls)
      /\ className' = PopName(className)
  BY DEF LeaveClass, current
<1>4. calls # <<>> /\ Top(calls).kind = "class"
  BY DEF LeaveClass, InClass
<1>5. Pushed(calls, calls', Top(calls)) /\ Len(calls) = Len(calls') + 1
  BY <1>2, <1>3, <1>4, PoppedPushed DEF Pushed
<1>6. PlacesIn(p, calls, ptrList, CallNames)
  BY <1>1 DEF Places
<1>7. PICK r : PlacesIn(r, calls', ptrList, CallNames) /\ r[0] = p[0]
  <2> HIDE <1>3
  <2> QED
    BY <1>2, <1>4, <1>5, <1>6, PoppedClassPlaces
<1>8. p[0] \in 0 .. Len(ptrList) /\ Len(ptrList) - p[0] <= Len(calls')
  <2>1. 0 \in 0 .. Len(calls') /\ Len(calls') \in 0 .. Len(calls') /\ 0 <= Len(calls')
    BY <1>2
  <2>2. r[Len(calls')] = Len(ptrList) /\ r[Len(calls')] - r[0] <= Len(calls') - 0
    BY <1>7, <2>1 DEF PlacesIn
  <2>3. r[0] \in 0 .. Len(ptrList)
    BY <1>7, <2>1 DEF PlacesIn
  <2> QED
    BY <1>2, <1>7, <2>2, <2>3
<1>9. ASSUME Clean'
      PROVE  FoundBelow(r[0])'
  <2>1. Clean /\ FoundBelow(p[0])
    BY <1>1, <1>3, <1>9 DEF Clean, Trying
  <2>2. PICK b \in {found.className, Named(found.className)} : ClassNames(b, p[0])
    BY <2>1 DEF FoundBelow
  <2>3. b \in Seq(Classes \cup {Main}) /\ Len(b) \in Nat
    BY <2>1, FoundTypes
  <2>4. /\ Len(className) + Len(ptrList) = Len(b) + Len(calls) + p[0]
        /\ StartsWith(className, b)
    BY <2>2 DEF ClassNames
  <2> DEFINE cl == Len(className)
             bl == Len(b)
             nl == Len(calls)
             ql == Len(ptrList)
             k  == p[0]
  <2>5. /\ cl \in Nat /\ bl \in Nat /\ nl \in Nat \ {0} /\ ql \in Nat /\ k \in 0 .. ql
        /\ cl + ql = bl + nl + k /\ ql - k <= nl - 1 /\ Len(calls') = nl - 1
    BY <1>2, <1>5, <1>8, <2>3, <2>4
  <2> HIDE DEF cl, bl, nl, ql, k
  <2>6. /\ cl > bl /\ (cl - 1) + ql = bl + (nl - 1) + k
        /\ cl <= 1 => cl = 1 /\ bl = 0 /\ 1 + ql = 1 + (nl - 1) + k
    BY <2>5
  <2>7. Len(className) > Len(b)
    BY <2>6 DEF cl, bl
  <2>8. ASSUME Len(className) > 1
        PROVE  ClassNames(b, p[0])'
    <3>1. className # <<>> /\ className' = Popped(className)
      BY <1>2, <1>3, <2>8, PopNameFacts
    <3>2. Pushed(className, className', Top(className))
      BY <1>2, <3>1, PoppedPushed
    <3>3. Len(className') = Len(className) - 1
      BY <1>2, <3>1, PoppedFacts
    <3>4. StartsWith(className', b)
      BY <1>2, <2>3, <2>4, <2>7, <3>2, <3>3, StartsWithPushed
    <3>5. (Len(className) - 1) + Len(ptrList) = Len(b) + (Len(calls) - 1) + p[0]
      BY <2>6 DEF cl, bl, nl, ql, k
    <3>6. Len(calls') = Len(calls) - 1 /\ ptrList' = ptrList
      BY <1>3, <2>5 DEF nl
    <3> QED
      BY <3>3, <3>4, <3>5, <3>6 DEF ClassNames
  <2>9. ASSUME ~(Len(className) > 1)
        PROVE  b = <<>> /\ ClassNames(<<Main>>, p[0])'
    <3>1. /\ Len(className) = 1 /\ Len(b) = 0 /\ Len(className) <= 1
          /\ 1 + Len(ptrList) = 1 + (Len(calls) - 1) + p[0]
      <4>1. cl <= 1
        BY <2>9, <2>5 DEF cl
      <4> QED
        BY <2>6, <4>1 DEF cl, bl, nl, ql, k
    <3>2. b = <<>>
      BY <2>3, <3>1
    <3>3. className' = <<Main>>
      <4>1. className' = PopName(className)
        BY <1>3
      <4> QED
        BY <1>2, <3>1, <4>1, PopNameFacts
    <3>4. Len(<<Main>>) = 1 /\ StartsWith(className', <<Main>>)
      BY <3>3 DEF StartsWith
    <3>5. Len(calls') = Len(calls) - 1 /\ ptrList' = ptrList
      BY <1>3, <2>5 DEF nl
    <3> QED
      BY <3>1, <3>2, <3>3, <3>4, <3>5 DEF ClassNames
  <2>10. ClassNames(found.className, p[0])' \/ ClassNames(Named(found.className), p[0])'
    <3>1. CASE Len(className) > 1
      BY <1>3, <2>2, <2>8, <3>1
    <3>2. CASE ~(Len(className) > 1)
      <4>1. Named(found.className) = <<Main>>
        BY <2>2, <2>9, <3>2 DEF Named
      <4> QED
        BY <1>3, <2>9, <3>2, <4>1
    <3> QED
      BY <3>1, <3>2
  <2> QED
    BY <1>3, <1>7, <2>1, <2>10 DEF FoundBelow
<1> QED
  BY <1>1, <1>3, <1>7, <1>9 DEF PlaceInv, Places, NamesBelow, Trying
LEMMA NoCallsPlaces ==
  ASSUME TypeOK', calls' = <<>>, phase' \notin Trying, ~Clean'
  PROVE  PlaceInv'
<1>1. PICK n \in Nat : n = Len(ptrList')
  BY DEF TypeOK
<1> DEFINE p == [i \in 0 .. 0 |-> n]
<1>2. OpsOf(<<>>) = {} /\ Len(<<>>) = 0
  BY DEF OpsOf
<1>3. Places(p)'
  BY <1>1, <1>2 DEF Places, PlacesIn
<1> HIDE DEF p
<1>4. NamesBelow(p[0])'
  BY DEF NamesBelow, Trying
<1> QED
  BY <1>3, <1>4 DEF PlaceInv
LEMMA StartScriptPlaces ==
  ASSUME IInv, TypeOK', calls = <<>>, calls' = <<>>, UNCHANGED <<ptrList, className>>,
         CallNames = functionName, CallNames' = Append(CallNames, Main),
         Clean' => found' = kept
  PROVE  PlaceInv'
<1> DEFINE q == Len(ptrList)
           p == [i \in 0 .. 0 |-> q]
<1>1. /\ ptrList \in Seq(Stacks) /\ CallNames \in Seq(OpNames) /\ Main \in OpNames
      /\ className \in Seq(Classes \cup {Main}) /\ CallNames' \in Seq(OpNames)
      /\ q \in Nat /\ Len(CallNames) \in Nat
  BY CallTypes, CallNamesType DEF IInv, OpNames, TypeOK
<1>2. OpsOf(<<>>) = {} /\ Len(<<>>) = 0
  BY DEF OpsOf
<1>3. Places(p)'
  BY <1>1, <1>2 DEF PlacesIn, Places
<1>4. Pushed(CallNames', CallNames, Main) /\ Len(CallNames') = Len(CallNames) + 1
  BY <1>1, AppendPushed DEF Pushed
<1>5. NamePlace(p[0], ptrList', CallNames') = Len(CallNames) + 1
  BY <1>1, <1>4 DEF NamePlace
<1>6. ASSUME Clean'
      PROVE  FoundBelow(p[0])'
  <2>1. /\ found'.ptrList = ptrList /\ found'.functionName = CallNames
        /\ found'.className = className
    BY <1>6 DEF kept
  <2>2. StartsWith(ptrList, ptrList) /\ StartsWith(CallNames, CallNames)
        /\ StartsWith(className, className)
    BY <1>1 DEF StartsWith
  <2>3. StartsWith(CallNames', CallNames)
    BY <1>1, <1>4, <2>2, StartsWithPushed
  <2>4. ClassNames(className, q)'
    BY <1>1, <1>2, <2>2 DEF ClassNames
  <2> QED
    BY <1>5, <2>1, <2>2, <2>3, <2>4 DEF FoundBelow
<1>7. NamesBelow(p[0])'
  BY <1>1, <1>5 DEF NamesBelow
<1> QED
  BY <1>3, <1>6, <1>7 DEF PlaceInv

LEMMA AppendPopped ==
  ASSUME NEW S, NEW s \in Seq(S), s # <<>>
  PROVE  Append(Popped(s), Top(s)) = s
<1> DEFINE t == Append(Popped(s), Top(s))
<1>1. /\ Popped(s) \in Seq(S) /\ Len(s) \in Nat \ {0} /\ Len(Popped(s)) = Len(s) - 1
      /\ \A i \in 1 .. Len(s) - 1 : Popped(s)[i] = s[i]
      /\ Top(s) = s[Len(s)] /\ Top(s) \in S
  BY PoppedFacts
<1>2. /\ t \in Seq(S) /\ Len(t) = Len(Popped(s)) + 1
      /\ \A i \in 1 .. Len(Popped(s)) : t[i] = Popped(s)[i]
      /\ t[Len(Popped(s)) + 1] = Top(s)
  BY <1>1, AppendFacts
<1> HIDE DEF t
<1>3. Len(t) = Len(s) /\ Len(Popped(s)) + 1 = Len(s)
  BY <1>1, <1>2
<1>4. \A i \in 1 .. Len(s) : t[i] = s[i]
  BY <1>1, <1>2, <1>3
<1>5. t = s
  BY <1>2, <1>3, <1>4, SameSequence
<1> QED
  BY <1>5 DEF t

(* The head of a function is written. *)
LEMMA ScanOpArrayFrame ==
  ASSUME TypeOK, InOpArray, ScanOpArray
  PROVE  \E f \in OpFrame : /\ f.stack = Top(calls).stack /\ f.name = Top(calls).name
                            /\ calls' = [calls EXCEPT ![Len(calls)] = f]
                            /\ f.step \in OpSteps \ {"name"}
                            /\ f.step = "pop" <=> PopFunctionName
<1> DEFINE pops == Top(calls).name # Main /\ majorId > EXTENSION_ID_1 /\ functionFlags # <<>>
           f    == [Top(calls) EXCEPT !.step = "dump",
                                      !.popped = IF pops THEN Top(functionFlags) ELSE NULL]
<1>1. Top(calls) \in OpFrame
  BY TopCall DEF InOpArray
<1>2. functionFlags # <<>> => Top(functionFlags) \in Flags
  BY CallTypes, PoppedFacts
<1>3. /\ f \in OpFrame /\ f.step = "dump" /\ f.name = Top(calls).name
      /\ f.stack = Top(calls).stack
  BY <1>1, <1>2 DEF OpFrame
<1>4. calls' = [calls EXCEPT ![Len(calls)] = f]
  BY DEF ScanOpArray, Top
<1>5. ~PopFunctionName
  BY DEF ScanOpArray, PopFunctionName, AtStep
<1> HIDE DEF f
<1> QED
  BY <1>3, <1>4, <1>5 DEF OpSteps

(* The call that enters pushes its stack, and is about to push its name. *)
LEMMA PushStackPlaces ==
  ASSUME IInv, TypeOK', PushStack
  PROVE  PlaceInv'
<1> DEFINE f == Frame
<1>1. /\ phase \in Trying /\ Entering /\ TypeOK /\ Ready
  BY InsideTry DEF PushStack, Entering, IInv, CallInv, EntryInv
<1>2. /\ f \in OpFrame /\ f.kind = "op" /\ f.name = entry.name /\ f.stack = entry.stack
      /\ f.step = "name"
  BY PushStackType DEF Frame
<1>3. /\ calls' = Append(calls, f) /\ entry' = NoEntry
      /\ ptrList' = Append(ptrList, f.stack) /\ UNCHANGED <<functionName, className, found>>
  BY <1>2 DEF PushStack, names
<1> HIDE DEF f
<1>4. CallNames = functionName
  BY <1>1 DEF CallNames, AtStep, InOpArray
<1>5. /\ calls \in Seq(Frames) /\ ptrList \in Seq(Stacks) /\ functionName \in Seq(OpNames)
      /\ f \in Frames /\ f.stack \in Stacks /\ f.name \in OpNames
  BY <1>1, <1>2, CallTypes DEF Frames, OpFrame
<1>6. Pushed(calls', calls, f) /\ Top(calls') = f /\ calls' # <<>>
  BY <1>3, <1>5, AppendFacts DEF Pushed
<1>7. Pushed(ptrList', ptrList, f.stack)
  BY <1>3, <1>5, AppendPushed
<1>8. CallNames' = Append(functionName, f.name)
  <2>1. AtStep("name")'
    BY <1>2, <1>3, <1>6, NoEntryFacts DEF AtStep, InOpArray, Entering
  <2> QED
    BY <1>3, <1>6, <2>1 DEF CallNames
<1>9. CallNames' \in Seq(OpNames) /\ Pushed(CallNames', CallNames, f.name)
  BY <1>4, <1>5, <1>8, AppendFacts DEF Pushed
<1>10. SameCalls(calls, calls)
  BY DEF SameCalls
<1> QED
  BY <1>1, <1>2, <1>3, <1>5, <1>6, <1>7, <1>9, <1>10, EnterOpArrayPlaces

LEMMA PlaceStep ==
  ASSUME IInv, TypeOK', [Next]_vars
  PROVE  PlaceInv'
<1>1. /\ TypeOK /\ calls \in Seq(Frames) /\ functionName \in Seq(OpNames)
      /\ phase \notin Trying => calls = <<>> /\ ~Entering
      /\ SameCalls(calls, calls) /\ NoEntry.step = "none"
  BY CallTypes, NoEntryFacts DEF IInv, CallInv, PhaseInv, NoCall, SameCalls
<1>2. ~AtStep("name") /\ ~AtStep("pop") => CallNames = functionName
  BY DEF CallNames
<1>3. ~AtStep("name")' /\ ~AtStep("pop")' => CallNames' = functionName'
  BY DEF CallNames
<1>4. ASSUME NEW file \in Files, StartScript(file)
      PROVE  PlaceInv'
  <2>1. /\ calls = <<>> /\ calls' = <<>> /\ UNCHANGED <<ptrList, className>>
        /\ functionName' = Append(functionName, Main) /\ (Clean' => found' = kept)
    BY <1>1, <1>4 DEF StartScript, Trying, current, Clean
  <2>2. CallNames = functionName /\ CallNames' = functionName'
    BY <1>2, <1>3, <2>1 DEF AtStep, InOpArray
  <2> QED
    BY <2>1, <2>2, StartScriptPlaces
<1>5. ASSUME NEW c \in Classes, DumpClassTable(c) \/ DumpClass(c)
      PROVE  PlaceInv'
  <2>1. EnterClass(c) /\ UNCHANGED phase /\ (NoCall \/ Dumping)
    BY <1>5 DEF DumpClassTable, DumpClass
  <2>2. UNCHANGED <<functionName, entry>> /\ ~Entering
    BY <2>1 DEF EnterClass, NoCall, Dumping, AtStep, InOpArray
  <2>3. ~AtStep("name") /\ ~AtStep("pop")
    BY <2>1 DEF NoCall, Dumping, AtStep, InOpArray
  <2>4. ~AtStep("name")' /\ ~AtStep("pop")'
    <3> DEFINE f == [kind |-> "class", name |-> c, step |-> "head", todo |-> Methods]
    <3>1. calls' = Append(calls, f) /\ f \in Frames
      BY <2>1 DEF EnterClass, Frames, ClassFrame
    <3>2. Top(calls') = f
      BY <1>1, <3>1, AppendFacts
    <3> QED
      BY <3>2 DEF AtStep, InOpArray
  <2> QED
    BY <1>2, <1>3, <2>1, <2>2, <2>3, <2>4, EnterClassPlaces
<1>6. ASSUME NEW f \in Functions, NEW flags \in Flags,
             DumpFunctionTable(f) \/ DumpFunction(f, flags)
      PROVE  PlaceInv'
  <2>1. /\ UNCHANGED <<phase, calls, ptrList, className, functionName, found>>
        /\ Entering' /\ (NoCall \/ Dumping)
    BY <1>6 DEF DumpFunctionTable, DumpFunction, DumpWithFlags, EnterOpArray, Entering, current,
                names
  <2>2. CallNames = functionName /\ CallNames' = functionName'
    BY <1>2, <1>3, <2>1 DEF NoCall, Dumping, AtStep, InOpArray
  <2> QED
    BY <1>1, <2>1, <2>2, SamePlaces DEF Clean
<1>7. ASSUME NEW m \in Methods, NEW flags \in Flags, DumpMethod(m, flags)
      PROVE  PlaceInv'
  <2>1. /\ calls # <<>> /\ InClass
        /\ \E f \in ClassFrame : /\ f.kind = "class" /\ f.step = "body"
                                 /\ calls' = [calls EXCEPT ![Len(calls)] = f]
    BY <1>1, <1>7, DumpMethodCalls
  <2>2. PICK f \in ClassFrame : /\ f.kind = "class"
                                /\ calls' = [calls EXCEPT ![Len(calls)] = f]
    BY <2>1
  <2>3. SameCalls(calls', calls)
    <3>1. f \in Frames /\ f.kind = Top(calls).kind /\ f.kind # "op"
      BY <2>1, <2>2 DEF Frames, InClass
    <3> QED
      BY <2>1, <2>2, <3>1, TopChanged
  <2>4. UNCHANGED <<phase, ptrList, className, functionName, found>> /\ Entering'
    BY <1>7 DEF DumpMethod, DumpWithFlags, EnterOpArray, Entering, current, names
  <2>5. CallNames = functionName /\ CallNames' = functionName'
    BY <1>2, <1>3, <2>1, <2>4 DEF InClass, AtStep, InOpArray
  <2> QED
    BY <2>3, <2>4, <2>5, SamePlaces DEF Clean
<1>8. CASE DumpMain
  <2>1. /\ UNCHANGED <<calls, ptrList, className, functionName, found>> /\ Entering' /\ NoCall
        /\ phase = "functions" /\ phase' = "main"
    BY <1>8 DEF DumpMain, EnterOpArray, Entering, current, names
  <2>2. CallNames = functionName /\ CallNames' = functionName'
    BY <1>2, <1>3, <2>1 DEF NoCall, AtStep, InOpArray
  <2> QED
    BY <1>1, <2>1, <2>2, SamePlaces DEF Clean, Trying
<1>9. CASE ClassHeader
  <2> DEFINE f == [Top(calls) EXCEPT !.step = "body"]
  <2>1. calls # <<>> /\ Top(calls) \in ClassFrame /\ InClass
    BY <1>1, <1>9, TopCall DEF ClassHeader, InClass
  <2>2. f \in Frames /\ f.kind = "class" /\ Top(calls).kind = "class"
    BY <2>1 DEF Frames, ClassFrame
  <2>3. calls' = [calls EXCEPT ![Len(calls)] = f]
    BY <1>9 DEF ClassHeader, Top
  <2> HIDE DEF f
  <2>4. SameCalls(calls', calls) /\ Top(calls') = f
    BY <2>1, <2>2, <2>3, TopChanged
  <2>5. UNCHANGED <<phase, ptrList, className, functionName, found>>
    BY <1>9 DEF ClassHeader, current, names
  <2>6. CallNames = functionName /\ CallNames' = functionName'
    BY <1>2, <1>3, <2>1, <2>2, <2>4 DEF InClass, AtStep, InOpArray
  <2> QED
    BY <2>4, <2>5, <2>6, SamePlaces DEF Clean
<1>10. CASE LeaveClass
  <2>1. /\ InClass /\ calls # <<>> /\ calls' = Popped(calls) /\ UNCHANGED <<entry, functionName>>
    BY <1>10 DEF LeaveClass, InClass
  <2>2. ~AtStep("name")' /\ ~AtStep("pop")'
    BY <2>1, CallLeft DEF AtStep
  <2>3. CallNames' = CallNames
    BY <1>2, <1>3, <2>1, <2>2 DEF InClass, AtStep, InOpArray
  <2> QED
    BY <1>10, <2>3, LeaveClassPlaces
<1>11. CASE RemoveFree \/ AllocateStack \/ InsertFree \/ AllocateStackFails \/ InsertInUse
  <2>1. /\ UNCHANGED <<phase, calls, ptrList, className, functionName>> /\ Entering
        /\ found' = found \/ found' = NULL
    BY <1>11 DEF RemoveFree, AllocateStack, InsertFree, AllocateStackFails, InsertInUse, Entering,
                 current, names
  <2>2. Ready
    BY <2>1 DEF IInv, CallInv, EntryInv
  <2>3. calls # <<>> /\ Top(calls).kind = "op" => Top(calls).step = "dump"
    <3> SUFFICES ASSUME calls # <<>>, Top(calls).kind = "op"
                 PROVE  Top(calls).step = "dump"
      OBVIOUS
    <3>1. Len(calls) \in 1 .. Len(calls) /\ Top(calls) = calls[Len(calls)]
      BY <1>1, TopCall
    <3> QED
      BY <2>2, <3>1 DEF Ready, Op
  <2>4. CallNames = functionName /\ CallNames' = functionName'
    BY <1>2, <1>3, <2>1, <2>3 DEF AtStep, InOpArray
  <2> QED
    BY <1>1, <2>1, <2>4, SamePlaces DEF Clean
<1>12. CASE PushStack
  BY <1>12, PushStackPlaces
<1>13. CASE PushFunctionName \/ UnlinkStack \/ FreeVariables \/ GiveBack \/ PopFunctionName
            \/ ScanOpArray
  <2>1. /\ InOpArray /\ calls # <<>>
        /\ UNCHANGED <<phase, entry, ptrList, className, found>>
    BY <1>13 DEF PushFunctionName, UnlinkStack, FreeVariables, GiveBack, PopFunctionName,
                 ScanOpArray, Dumping, AtStep, InOpArray, current, names
  <2>2. PICK f \in OpFrame : /\ f.stack = Top(calls).stack /\ f.name = Top(calls).name
                             /\ calls' = [calls EXCEPT ![Len(calls)] = f]
                             /\ f.step \in OpSteps \ {"name"}
                             /\ f.step = "pop" <=> PopFunctionName
    <3>1. CASE ScanOpArray
      BY <1>1, <2>1, <3>1, ScanOpArrayFrame
    <3>2. CASE ~ScanOpArray
      <4>1. PICK k \in OpSteps : /\ calls' = [calls EXCEPT ![Len(calls)].step = k]
                                 /\ k # "name" /\ (k = "pop" <=> PopFunctionName)
        <5>1. CASE PushFunctionName
          BY <5>1 DEF PushFunctionName, PopFunctionName, OpSteps, AtStep
        <5>2. CASE UnlinkStack
          BY <5>2 DEF UnlinkStack, PopFunctionName, OpSteps, AtStep, Dumping
        <5>3. CASE FreeVariables
          BY <5>3 DEF FreeVariables, PopFunctionName, OpSteps, AtStep
        <5>4. CASE GiveBack
          BY <5>4 DEF GiveBack, PopFunctionName, OpSteps, AtStep
        <5>5. CASE PopFunctionName
          BY <5>5 DEF PopFunctionName, OpSteps
        <5> QED
          BY <1>13, <3>2, <5>1, <5>2, <5>3, <5>4, <5>5
      <4>2. PICK f \in OpFrame : /\ f.step = k /\ f.stack = Top(calls).stack
                                 /\ f.name = Top(calls).name
                                 /\ calls' = [calls EXCEPT ![Len(calls)] = f]
        BY <1>1, <2>1, <4>1, NextStep
      <4> QED
        BY <4>1, <4>2
    <3> QED
      BY <3>1, <3>2
  <2>3. SameCalls(calls', calls) /\ InOpArray' /\ Top(calls') = f
    BY <2>1, <2>2, OpChanged
  <2>4. CallNames' = CallNames
    <3>1. CASE PushFunctionName
      <4>1. AtStep("name") /\ functionName' = Append(functionName, Top(calls).name)
        BY <3>1 DEF PushFunctionName
      <4>2. f.step \notin {"name", "pop"}
        BY <2>2, <4>1, <3>1 DEF PushFunctionName, PopFunctionName, AtStep
      <4> QED
        BY <1>3, <2>3, <4>1, <4>2 DEF AtStep, CallNames
    <3>2. CASE PopFunctionName
      <4>1. AtStep("unname") /\ functionName' = PopName(functionName)
        BY <3>2 DEF PopFunctionName
      <4>2. CallNames = functionName
        BY <1>2, <4>1 DEF AtStep
      <4>3. Len(functionName) > 1 /\ Top(calls).name = Top(functionName)
        BY <2>1, <4>2, TopPlace
      <4>4. functionName' = Popped(functionName) /\ functionName # <<>>
        BY <4>1, <4>3 DEF PopName
      <4>5. AtStep("pop")'
        BY <2>2, <2>3, <3>2 DEF AtStep
      <4>6. CallNames' = Append(Popped(functionName), Top(functionName))
        BY <2>2, <2>3, <4>3, <4>4, <4>5 DEF CallNames
      <4> QED
        BY <1>1, <4>2, <4>4, <4>6, AppendPopped
    <3>3. CASE ~PushFunctionName /\ ~PopFunctionName
      <4>1. functionName' = functionName /\ ~AtStep("name") /\ ~AtStep("pop")
        BY <1>13, <3>3 DEF UnlinkStack, FreeVariables, GiveBack, ScanOpArray, Dumping, AtStep,
                           names
      <4>2. f.step \notin {"name", "pop"}
        BY <2>2, <3>3
      <4> QED
        BY <1>2, <1>3, <2>3, <4>1, <4>2 DEF AtStep
    <3> QED
      BY <3>1, <3>2, <3>3
  <2> QED
    BY <2>1, <2>3, <2>4, SamePlaces DEF Clean
<1>14. CASE LeaveOpArray
  <2>1. /\ InOpArray /\ calls # <<>> /\ calls' = Popped(calls) /\ AtStep("pop")
        /\ UNCHANGED <<phase, entry, functionName, className, found>>
    BY <1>14 DEF LeaveOpArray, AtStep, InOpArray, names
  <2>2. Pushed(calls, calls', Top(calls)) /\ ~AtStep("name")' /\ ~AtStep("pop")'
    BY <2>1, CallLeft DEF AtStep
  <2>3. ptrList # <<>> /\ ptrList \in Seq(Stacks)
    BY <1>1, <2>1, TopPlace, CallTypes
  <2>4. Pushed(ptrList, ptrList', Top(ptrList))
    BY <1>14, <2>3, PoppedPushed DEF LeaveOpArray, PopSetStack
  <2>5. CallNames = Append(functionName, Top(calls).name) /\ CallNames' = functionName
    BY <1>3, <2>1, <2>2 DEF CallNames
  <2>6. Top(calls).name \in OpNames
    BY <1>1, <2>1, TopCall DEF OpFrame
  <2>7. CallNames' \in Seq(OpNames) /\ Pushed(CallNames, CallNames', Top(CallNames))
    BY <1>1, <2>5, <2>6, AppendFacts DEF Pushed
  <2> QED
    BY <2>1, <2>2, <2>4, <2>7, LeaveOpArrayPlaces
<1>15. CASE InsertVariable \/ ClassTableDone \/ MainDone \/ UNCHANGED vars
  <2>1. /\ UNCHANGED <<calls, entry, ptrList, className, functionName, found>>
        /\ phase' = phase \/ (phase \in Trying /\ phase' \in {"functions", "tail"})
    BY <1>15 DEF InsertVariable, ClassTableDone, MainDone, vars, current, names, Trying
  <2>2. CallNames' = CallNames
    BY <2>1 DEF CallNames, AtStep, InOpArray, Entering
  <2> QED
    BY <1>1, <2>1, <2>2, SamePlaces DEF Clean, Trying
<1>16. CASE Exception \/ EndScript \/ Uninit
  <2>1. calls' = <<>> /\ phase' \notin Trying /\ ~Clean'
    BY <1>1, <1>16 DEF Exception, EndScript, Uninit, Trying, Clean
  <2> QED
    BY <2>1, NoCallsPlaces
<1> QED
  BY <1>4, <1>5, <1>6, <1>7, <1>8, <1>9, <1>10, <1>11, <1>12, <1>13, <1>14, <1>15, <1>16,
     SessionAssumption
  DEF Next, Exited
-----------------------------------------------------------------------------
(* What a script without a fault has found and what it has done since. *)

(* The stacks in use and those of the calls, over the steps that move one. *)
LEMMA UsedStartsEqual ==
  ASSUME NEW use \in Seq(Stacks), NEW ptrs \in Seq(Stacks)
  PROVE  UsedAbove(use, Len(use), ptrs, Len(ptrs), 0, 0) /\ StartsWith(use, use)
<1>1. Len(use) \in Nat /\ Len(ptrs) \in Nat
  OBVIOUS
<1>2. \A j \in Nat \ {0} : ~(Len(use) + j <= Len(use))
  BY <1>1
<1> QED
  BY <1>1, <1>2 DEF UsedAbove, StartsWith

LEMMA UsedInserted ==
  ASSUME NEW use \in Seq(Stacks), NEW ptrs \in Seq(Stacks), NEW new \in Seq(Stacks),
         NEW x, NEW d \in Nat, NEW k \in Nat, Pushed(new, use, x), d <= Len(use),
         UsedAbove(use, d, ptrs, k, 0, 0)
  PROVE  UsedAbove(new, d, ptrs, k, 1, 0)
<1>1. Len(use) \in Nat /\ Len(ptrs) \in Nat /\ Len(new) = Len(use) + 1
      /\ Len(use) + k = d + Len(ptrs)
  BY DEF Pushed, UsedAbove
<1>2. ASSUME NEW j \in Nat \ {0}, d + j <= Len(new), k + j <= Len(ptrs)
      PROVE  new[d + j] = ptrs[k + j]
  <2>1. d + j \in 1 .. Len(use) /\ d + j <= Len(use)
    BY <1>1, <1>2
  <2> QED
    BY <1>2, <2>1 DEF Pushed, UsedAbove
<1>3. Len(new) + k + 0 = d + Len(ptrs) + 1
  BY <1>1
<1> QED
  BY <1>2, <1>3 DEF UsedAbove

LEMMA UsedPushed ==
  ASSUME NEW use \in Seq(Stacks), NEW ptrs \in Seq(Stacks), NEW new \in Seq(Stacks),
         NEW x, NEW d \in Nat, NEW k \in Nat, Pushed(new, ptrs, x), use # <<>>, Top(use) = x,
         k <= Len(ptrs), UsedAbove(use, d, ptrs, k, 1, 0)
  PROVE  UsedAbove(use, d, new, k, 0, 0)
<1>1. Len(use) \in Nat /\ Len(ptrs) \in Nat /\ Len(new) = Len(ptrs) + 1
      /\ Len(use) + k = d + Len(ptrs) + 1
  BY DEF Pushed, UsedAbove
<1>2. ASSUME NEW j \in Nat \ {0}, d + j <= Len(use), k + j <= Len(new)
      PROVE  use[d + j] = new[k + j]
  <2>1. CASE k + j <= Len(ptrs)
    <3>1. k + j \in 1 .. Len(ptrs)
      BY <1>1, <2>1
    <3> QED
      BY <1>2, <2>1, <3>1 DEF Pushed, UsedAbove
  <2>2. CASE k + j = Len(ptrs) + 1
    <3>1. d + j = Len(use)
      BY <1>1, <2>2
    <3>2. use[Len(use)] = x /\ new[Len(ptrs) + 1] = x
      BY DEF Top, Pushed
    <3> QED
      BY <2>2, <3>1, <3>2
  <2> QED
    BY <1>1, <1>2, <2>1, <2>2
<1>3. Len(use) + k + 0 = d + Len(new) + 0
  BY <1>1, SMTT(30)
<1> QED
  BY <1>2, <1>3 DEF UsedAbove

LEMMA UsedUnlinked ==
  ASSUME NEW use \in Seq(Stacks), NEW ptrs \in Seq(Stacks), NEW new \in Seq(Stacks),
         NEW x, NEW d \in Nat, NEW k \in Nat, Pushed(use, new, x), k < Len(ptrs),
         UsedAbove(use, d, ptrs, k, 0, 0)
  PROVE  UsedAbove(new, d, ptrs, k, 0, 1) /\ d <= Len(new) /\ x = Top(ptrs)
<1>1. Len(new) \in Nat /\ Len(ptrs) \in Nat /\ Len(use) = Len(new) + 1
      /\ Len(use) + k = d + Len(ptrs)
  BY DEF Pushed, UsedAbove
<1>2. ASSUME NEW j \in Nat \ {0}, d + j <= Len(new), k + j <= Len(ptrs)
      PROVE  new[d + j] = ptrs[k + j]
  <2>1. d + j \in 1 .. Len(new) /\ d + j <= Len(use)
    BY <1>1, <1>2
  <2> QED
    BY <1>2, <2>1 DEF Pushed, UsedAbove
<1>3. Len(new) + k + 1 = d + Len(ptrs) + 0 /\ d <= Len(new)
  BY <1>1
<1>4. x = Top(ptrs)
  <2> DEFINE j == Len(ptrs) - k
  <2>1. /\ j \in Nat \ {0} /\ d + j = Len(use) /\ k + j = Len(ptrs)
        /\ d + j <= Len(use) /\ k + j <= Len(ptrs)
    BY <1>1
  <2> HIDE DEF j
  <2>2. use[d + j] = ptrs[k + j]
    BY <2>1 DEF UsedAbove
  <2>3. use[Len(use)] = x
    BY <1>1 DEF Pushed
  <2> QED
    BY <2>1, <2>2, <2>3 DEF Top
<1> QED
  BY <1>2, <1>3, <1>4 DEF UsedAbove

LEMMA UsedPopped ==
  ASSUME NEW use \in Seq(Stacks), NEW ptrs \in Seq(Stacks), NEW new \in Seq(Stacks),
         NEW x, NEW d \in Nat, NEW k \in Nat, Pushed(ptrs, new, x),
         UsedAbove(use, d, ptrs, k, 0, 1)
  PROVE  UsedAbove(use, d, new, k, 0, 0)
<1>1. Len(use) \in Nat /\ Len(new) \in Nat /\ Len(ptrs) = Len(new) + 1
      /\ Len(use) + k + 1 = d + Len(ptrs)
  BY DEF Pushed, UsedAbove
<1>2. ASSUME NEW j \in Nat \ {0}, d + j <= Len(use), k + j <= Len(new)
      PROVE  use[d + j] = new[k + j]
  <2>1. k + j \in 1 .. Len(new) /\ k + j <= Len(ptrs)
    BY <1>1, <1>2
  <2> QED
    BY <1>2, <2>1 DEF Pushed, UsedAbove
<1>3. Len(use) + k + 0 = d + Len(new) + 0
  BY <1>1, SMTT(30)
<1> QED
  BY <1>2, <1>3 DEF UsedAbove

(* Where the innermost call is, and so what it has done. *)
Returning == {"clear", "give", "unname", "pop"}

LEMMA OpShape ==
  ASSUME InOpArray
  PROVE  /\ Ahead = 0 /\ (Behind = IF Top(calls).step \in Returning THEN 1 ELSE 0)
         /\ Locked <=> Top(calls).step \in {"clear", "give"}
         /\ Waiting <=> Top(calls).step \in {"name", "scan"} /\ Top(calls).name # Main
         /\ WaitingFlags = Top(calls).pushed
BY DEF InOpArray, Entering, Ahead, Behind, Freeing, AtStep, Locked, InHeader, InClass, Waiting,
       WaitingFlags, Returning

LEMMA OpShapeNext ==
  ASSUME InOpArray'
  PROVE  /\ Ahead' = 0 /\ (Behind' = IF Top(calls').step \in Returning THEN 1 ELSE 0)
         /\ Locked' <=> Top(calls').step \in {"clear", "give"}
         /\ Waiting' <=> Top(calls').step \in {"name", "scan"} /\ Top(calls').name # Main
         /\ WaitingFlags' = Top(calls').pushed
BY DEF InOpArray, Entering, Ahead, Behind, Freeing, AtStep, Locked, InHeader, InClass, Waiting,
       WaitingFlags, Returning

LEMMA EntryShape ==
  ASSUME Entering
  PROVE  /\ (Ahead = IF entry.step = "enter" THEN 1 ELSE 0) /\ Behind = 0 /\ ~Locked
         /\ Waiting <=> entry.name # Main
         /\ WaitingFlags = entry.pushed
BY DEF InOpArray, Entering, Ahead, Behind, Freeing, AtStep, Locked, InHeader, InClass, Waiting,
       WaitingFlags

LEMMA EntryShapeNext ==
  ASSUME Entering'
  PROVE  /\ (Ahead' = IF entry'.step = "enter" THEN 1 ELSE 0) /\ Behind' = 0 /\ ~Locked'
         /\ Waiting' <=> entry'.name # Main
         /\ WaitingFlags' = entry'.pushed
BY DEF InOpArray, Entering, Ahead, Behind, Freeing, AtStep, Locked, InHeader, InClass, Waiting,
       WaitingFlags

LEMMA OtherShapeNext ==
  ASSUME ~Entering', ~InOpArray'
  PROVE  Ahead' = 0 /\ Behind' = 0 /\ ~Waiting' /\ (Locked' <=> InHeader')
BY DEF InOpArray, Entering, Ahead, Behind, Freeing, AtStep, Locked, Waiting

LEMMA UseKept ==
  ASSUME IInv, UNCHANGED <<useList, ptrList>>, Ahead' = Ahead, Behind' = Behind,
         Clean' => Clean /\ found' = found
  PROVE  UseInv'
BY DEF IInv, PastInv, UseInv

LEMMA LockKept ==
  ASSUME IInv, gsLocks' = gsLocks, Locked' <=> Locked, Clean' => Clean /\ found' = found
  PROVE  LockInv'
BY DEF IInv, PastInv, LockInv

LEMMA FlagsKept ==
  ASSUME IInv, UNCHANGED <<functionFlags, majorId>>, Waiting' <=> Waiting,
         Waiting => WaitingFlags' = WaitingFlags, Clean' => Clean /\ found' = found
  PROVE  FlagsInv'
BY DEF IInv, PastInv, FlagsInv

LEMMA NotClean ==
  ASSUME ~Clean', ~Locked'
  PROVE  UseInv' /\ LockInv' /\ FlagsInv'
BY DEF UseInv, LockInv, FlagsInv

(* The flags of the function that is called are pushed. *)
LEMMA CalledPast ==
  ASSUME IInv, ~Entering, Ready, ~Waiting, ~Locked, Ahead = 0, Behind = 0,
         NEW name, NEW flags, EnterOpArray(name, flags),
         name # Main => functionFlags' = Append(functionFlags, flags),
         name = Main => functionFlags' = functionFlags,
         UNCHANGED <<useList, ptrList, gsLocks, majorId>>, Clean' => Clean /\ found' = found
  PROVE  UseInv' /\ LockInv' /\ FlagsInv'
<1>1. Entering' /\ entry'.name = name /\ entry'.pushed = flags /\ entry'.step = "take"
  BY DEF EnterOpArray, Entering
<1>2. /\ Ahead' = 0 /\ Behind' = 0 /\ ~Locked' /\ (Waiting' <=> name # Main)
      /\ WaitingFlags' = flags
  BY <1>1, EntryShapeNext
<1>3. UseInv' /\ LockInv'
  BY <1>2, UseKept, LockKept
<1>4. FlagsInv'
  BY <1>2 DEF IInv, PastInv, FlagsInv
<1> QED
  BY <1>3, <1>4

(* The stack taken for the call is the last one in StackList. *)
LEMMA InsertInUsePast ==
  ASSUME IInv, TypeOK', InsertInUse
  PROVE  UseInv' /\ LockInv' /\ FlagsInv'
<1>1. /\ entry.step = "post" /\ Entering /\ useList' = Append(useList, entry.stack)
      /\ UNCHANGED <<phase, ptrList, gsLocks, functionFlags, majorId, found>>
      /\ entry' = [entry EXCEPT !.step = "enter"]
  BY DEF InsertInUse, Entering, current, script
<1>2. /\ entry'.step = "enter" /\ entry'.name = entry.name /\ entry'.pushed = entry.pushed
      /\ Entering' /\ entry.stack \in Stacks /\ useList \in Seq(Stacks)
      /\ ptrList \in Seq(Stacks) /\ useList' \in Seq(Stacks)
  BY <1>1, EntryTypes, CallTypes DEF IInv, TypeOK, Entries, Entering
<1>3. /\ Ahead = 0 /\ Behind = 0 /\ Ahead' = 1 /\ Behind' = 0 /\ ~Locked /\ ~Locked'
      /\ (Waiting' <=> Waiting) /\ WaitingFlags' = WaitingFlags
  BY <1>1, <1>2, EntryShape, EntryShapeNext
<1>4. Clean' => Clean /\ found' = found
  BY <1>1 DEF Clean
<1>5. UseInv'
  <2> SUFFICES ASSUME Clean'
               PROVE  /\ StartsWith(useList', found.useList)
                      /\ UsedAbove(useList', Len(found.useList), ptrList, Len(found.ptrList), 1, 0)
    BY <1>1, <1>3 DEF UseInv
  <2> DEFINE d == Len(found.useList)
             k == Len(found.ptrList)
  <2>1. /\ StartsWith(useList, found.useList) /\ UsedAbove(useList, d, ptrList, k, 0, 0)
    BY <1>3, <1>4 DEF IInv, PastInv, UseInv
  <2>2. found.useList \in Seq(Stacks) /\ d \in Nat /\ k \in Nat
    BY <1>4, FoundTypes
  <2>3. d <= Len(useList)
    BY <2>1 DEF StartsWith
  <2>4. Pushed(useList', useList, entry.stack)
    BY <1>1, <1>2, AppendPushed
  <2>5. StartsWith(useList', found.useList)
    BY <1>2, <2>1, <2>2, <2>4, StartsWithPushed
  <2> HIDE DEF d, k
  <2>6. UsedAbove(useList', d, ptrList, k, 1, 0)
    BY <1>2, <2>1, <2>2, <2>3, <2>4, UsedInserted
  <2> QED
    BY <2>5, <2>6 DEF d, k
<1> QED
  BY <1>1, <1>3, <1>4, <1>5, LockKept, FlagsKept

LEMMA PushStackPast ==
  ASSUME IInv, TypeOK', PushStack
  PROVE  UseInv' /\ LockInv' /\ FlagsInv'
<1> DEFINE f == Frame
<1>1. /\ phase \in Trying /\ Entering /\ TypeOK /\ entry.step = "enter"
  BY InsideTry DEF PushStack, Entering, IInv
<1>2. /\ f \in OpFrame /\ f.kind = "op" /\ f.name = entry.name /\ f.pushed = entry.pushed
      /\ f.step = "name" /\ entry.stack \in Stacks
  BY <1>1, PushStackType, EntryTypes DEF Frame
<1>3. /\ calls' = Append(calls, f) /\ entry' = NoEntry /\ ptrList' = Append(ptrList, entry.stack)
      /\ UNCHANGED <<phase, useList, gsLocks, functionFlags, majorId, found>>
  BY DEF PushStack, pool, script
<1> HIDE DEF f
<1>4. InOpArray' /\ Top(calls') = f
  <2>1. calls \in Seq(Frames) /\ f \in Frames
    BY <1>1, <1>2, CallTypes DEF Frames
  <2>2. Top(calls') = f /\ calls' # <<>>
    BY <1>3, <2>1, AppendFacts
  <2> QED
    BY <1>2, <1>3, <2>2, NoEntryFacts DEF InOpArray, Entering
<1>5. /\ Ahead = 1 /\ Behind = 0 /\ Ahead' = 0 /\ Behind' = 0 /\ ~Locked /\ ~Locked'
      /\ (Waiting' <=> Waiting) /\ WaitingFlags' = WaitingFlags
  BY <1>1, <1>2, <1>4, EntryShape, OpShapeNext DEF Returning
<1>6. Clean' => Clean /\ found' = found
  BY <1>3 DEF Clean
<1>7. UseInv'
  <2> SUFFICES ASSUME Clean'
               PROVE  /\ StartsWith(useList, found.useList)
                      /\ UsedAbove(useList, Len(found.useList), ptrList', Len(found.ptrList), 0, 0)
    BY <1>3, <1>5 DEF UseInv
  <2> DEFINE d == Len(found.useList)
             k == Len(found.ptrList)
  <2>1. /\ StartsWith(useList, found.useList) /\ UsedAbove(useList, d, ptrList, k, 1, 0)
    BY <1>5, <1>6 DEF IInv, PastInv, UseInv
  <2>2. d \in Nat /\ k \in Nat /\ useList \in Seq(Stacks) /\ ptrList \in Seq(Stacks)
        /\ ptrList' \in Seq(Stacks)
    <3>1. found.useList \in Seq(Stacks) /\ found.ptrList \in Seq(Stacks)
      BY <1>6, FoundTypes
    <3>2. useList \in Seq(Stacks) /\ ptrList \in Seq(Stacks)
      BY <1>1, CallTypes
    <3>3. useList' \in Seq(Stacks) /\ ptrList' \in Seq(Stacks)
      BY DEF TypeOK
    <3> QED
      BY <3>1, <3>2, <3>3
  <2>3. k <= Len(ptrList)
    BY <1>6 DEF IInv, PlaceInv, FoundBelow, StartsWith
  <2>4. Pushed(ptrList', ptrList, entry.stack)
    BY <1>2, <1>3, <2>2, AppendPushed
  <2>5. useList # <<>> /\ Top(useList) = entry.stack
    BY <1>1 DEF IInv, PoolInv, StackInv
  <2> HIDE DEF d, k
  <2>6. UsedAbove(useList, d, ptrList', k, 0, 0)
    BY <2>1, <2>2, <2>3, <2>4, <2>5, UsedPushed
  <2> QED
    BY <2>1, <2>6 DEF d, k
<1> QED
  BY <1>3, <1>5, <1>6, <1>7, LockKept, FlagsKept

(* The stack of the innermost call is the last one in StackList: the others
   have given theirs back. *)
LEMMA UnlinkStackPast ==
  ASSUME IInv, TypeOK', UnlinkStack, InOpArray', Top(calls').step = "clear"
  PROVE  UseInv' /\ LockInv' /\ FlagsInv'
<1>1. /\ InOpArray /\ Top(calls).step = "dump" /\ gsLocks' = gsLocks + 1 /\ TypeOK
      /\ UNCHANGED <<phase, ptrList, functionFlags, majorId, found>>
  BY DEF UnlinkStack, Dumping, AtStep, current, script, IInv
<1>2. /\ Ahead = 0 /\ Behind = 0 /\ Ahead' = 0 /\ Behind' = 1 /\ ~Locked /\ Locked'
      /\ ~Waiting /\ ~Waiting'
  BY <1>1, OpShape, OpShapeNext DEF Returning
<1>3. Clean' => Clean /\ found' = found
  BY <1>1 DEF Clean
<1>4. gsLocks \in Nat
  BY <1>1, CallTypes
<1>5. LockInv'
  <2>1. Clean' => gsLocks = found'.gsLocks /\ found'.gsLocks \in Nat
    <3>1. Clean => gsLocks = found.gsLocks + 0 /\ found.gsLocks \in Nat
      BY <1>2, FoundTypes DEF IInv, PastInv, LockInv
    <3> QED
      BY <1>3, <3>1
  <2> QED
    BY <1>1, <1>2, <1>4, <2>1 DEF LockInv
<1>6. UseInv'
  <2> SUFFICES ASSUME Clean'
               PROVE  /\ StartsWith(useList', found.useList)
                      /\ UsedAbove(useList', Len(found.useList), ptrList, Len(found.ptrList), 0, 1)
    BY <1>1, <1>2 DEF UseInv
  <2> DEFINE d == Len(found.useList)
             k == Len(found.ptrList)
  <2>1. /\ StartsWith(useList, found.useList) /\ UsedAbove(useList, d, ptrList, k, 0, 0)
    BY <1>2, <1>3 DEF IInv, PastInv, UseInv
  <2>2. d \in Nat /\ k \in Nat /\ useList \in Seq(Stacks) /\ ptrList \in Seq(Stacks)
        /\ useList' \in Seq(Stacks) /\ found.useList \in Seq(Stacks)
    <3>1. found.useList \in Seq(Stacks) /\ found.ptrList \in Seq(Stacks)
      BY <1>3, FoundTypes
    <3>2. useList \in Seq(Stacks) /\ ptrList \in Seq(Stacks)
      BY <1>1, CallTypes
    <3>3. useList' \in Seq(Stacks) /\ ptrList' \in Seq(Stacks)
      BY DEF TypeOK
    <3> QED
      BY <3>1, <3>2, <3>3
  <2>3. k < Len(ptrList) /\ Top(calls).stack = Top(ptrList)
    BY <1>1, <1>3, TopPlace
  <2> HIDE DEF d, k
  <2>4. useList # <<>>
    <3>1. Len(useList) + k + 0 = d + Len(ptrList) + 0
      BY <2>1 DEF UsedAbove
    <3>2. Len(useList) > 0
      BY <2>2, <2>3, <3>1
    <3> QED
      BY <3>2
  <2>5. Pushed(useList, Popped(useList), Top(useList)) /\ Popped(useList) \in Seq(Stacks)
    BY <2>2, <2>4, PoppedPushed, PoppedFacts
  <2>6. /\ UsedAbove(Popped(useList), d, ptrList, k, 0, 1) /\ d <= Len(Popped(useList))
        /\ Top(useList) = Top(ptrList)
    BY <2>1, <2>2, <2>3, <2>5, UsedUnlinked
  <2>7. useList' = Popped(useList)
    <3>1. Top(useList) = Top(calls).stack /\ Top(useList) \in Elems(useList)
      <4>1. Len(useList) \in DOMAIN useList /\ Top(useList) = useList[Len(useList)]
        BY <2>2, <2>4 DEF Top
      <4> QED
        BY <2>3, <2>6, <4>1 DEF Elems
    <3>2. PICK i \in DOMAIN useList : useList[i] = Top(useList) /\ useList' = Unlinked(useList, i)
      BY <3>1 DEF UnlinkStack
    <3>3. NoDuplicates(useList)
      BY <1>1 DEF TypeOK
    <3> QED
      BY <2>2, <2>4, <3>2, <3>3, UnlinkedTop
  <2>8. StartsWith(Popped(useList), found.useList)
    BY <2>1, <2>2, <2>5, <2>6, StartsWithPushed DEF d
  <2> QED
    BY <2>6, <2>7, <2>8 DEF d, k
<1> QED
  BY <1>1, <1>2, <1>3, <1>5, <1>6, FlagsKept

LEMMA LeaveOpArrayPast ==
  ASSUME IInv, TypeOK', LeaveOpArray
  PROVE  UseInv' /\ LockInv' /\ FlagsInv'
<1>1. /\ InOpArray /\ calls # <<>> /\ calls' = Popped(calls) /\ Top(calls).step = "pop"
      /\ UNCHANGED <<phase, entry, useList, gsLocks, functionFlags, majorId, found>> /\ TypeOK
  BY DEF LeaveOpArray, AtStep, InOpArray, pool, script, IInv
<1>2. ~InHeader' /\ (InOpArray' => Top(calls').step = "dump") /\ ~Entering'
  BY <1>1, CallLeft DEF InOpArray, Entering
<1>3. /\ Ahead = 0 /\ Behind = 1 /\ ~Locked /\ ~Waiting
      /\ Ahead' = 0 /\ Behind' = 0 /\ ~Locked' /\ ~Waiting'
  <2>1. Ahead = 0 /\ Behind = 1 /\ ~Locked /\ ~Waiting
    BY <1>1, OpShape DEF Returning
  <2>2. CASE InOpArray'
    BY <1>2, <2>1, <2>2, OpShapeNext DEF Returning
  <2>3. CASE ~InOpArray'
    BY <1>2, <2>1, <2>3, OtherShapeNext
  <2> QED
    BY <2>2, <2>3
<1>4. Clean' => Clean /\ found' = found
  BY <1>1 DEF Clean
<1>5. UseInv'
  <2> SUFFICES ASSUME Clean'
               PROVE  /\ StartsWith(useList, found.useList)
                      /\ UsedAbove(useList, Len(found.useList), ptrList', Len(found.ptrList), 0, 0)
    BY <1>1, <1>3 DEF UseInv
  <2> DEFINE d == Len(found.useList)
             k == Len(found.ptrList)
  <2>1. /\ StartsWith(useList, found.useList) /\ UsedAbove(useList, d, ptrList, k, 0, 1)
    BY <1>3, <1>4 DEF IInv, PastInv, UseInv
  <2>2. d \in Nat /\ k \in Nat /\ useList \in Seq(Stacks) /\ ptrList \in Seq(Stacks)
        /\ ptrList' \in Seq(Stacks)
    <3>1. found.useList \in Seq(Stacks) /\ found.ptrList \in Seq(Stacks)
      BY <1>4, FoundTypes
    <3>2. useList \in Seq(Stacks) /\ ptrList \in Seq(Stacks)
      BY <1>1, CallTypes
    <3>3. useList' \in Seq(Stacks) /\ ptrList' \in Seq(Stacks)
      BY DEF TypeOK
    <3> QED
      BY <3>1, <3>2, <3>3
  <2>3. ptrList # <<>>
    BY <1>1, TopPlace
  <2>4. Pushed(ptrList, ptrList', Top(ptrList))
    BY <2>2, <2>3, PoppedPushed DEF LeaveOpArray, PopSetStack
  <2> HIDE DEF d, k
  <2>5. UsedAbove(useList, d, ptrList', k, 0, 0)
    BY <2>1, <2>2, <2>4, UsedPopped
  <2> QED
    BY <2>1, <2>5 DEF d, k
<1> QED
  BY <1>1, <1>3, <1>4, <1>5, LockKept, FlagsKept

(* The steps of dump_op_array_ex that do not move its stack. *)
LEMMA OpStepPast ==
  ASSUME IInv, InOpArray, NEW k \in OpSteps, calls' = [calls EXCEPT ![Len(calls)].step = k],
         Top(calls).step \in Returning <=> k \in Returning,
         Top(calls).step \in {"name", "scan"} <=> k \in {"name", "scan"},
         UNCHANGED <<phase, entry, useList, ptrList, functionFlags, majorId, found>>
  PROVE  UseInv' /\ FlagsInv' /\ InOpArray' /\ Top(calls').step = k
<1>1. PICK f \in OpFrame : /\ f.step = k /\ f.stack = Top(calls).stack
                           /\ f.name = Top(calls).name /\ f.pushed = Top(calls).pushed
                           /\ calls' = [calls EXCEPT ![Len(calls)] = f]
  BY NextStep DEF IInv
<1>2. InOpArray' /\ Top(calls') = f
  BY <1>1, OpChanged
<1>3. /\ Ahead' = Ahead /\ Behind' = Behind /\ (Waiting' <=> Waiting)
      /\ WaitingFlags' = WaitingFlags
  BY <1>1, <1>2, OpShape, OpShapeNext
<1>4. Clean' => Clean /\ found' = found
  BY DEF Clean
<1> QED
  BY <1>1, <1>2, <1>3, <1>4, UseKept, FlagsKept

LEMMA ScanOpArrayPast ==
  ASSUME IInv, ScanOpArray
  PROVE  UseInv' /\ LockInv' /\ FlagsInv'
<1> DEFINE pops == Top(calls).name # Main /\ majorId > EXTENSION_ID_1 /\ functionFlags # <<>>
           f    == [Top(calls) EXCEPT !.step = "dump",
                                      !.popped = IF pops THEN Top(functionFlags) ELSE NULL]
<1>1. /\ InOpArray /\ calls # <<>> /\ TypeOK /\ Top(calls).step = "scan"
      /\ UNCHANGED <<phase, entry, useList, ptrList, gsLocks, majorId, found>>
      /\ functionFlags' = IF pops THEN Popped(functionFlags) ELSE functionFlags
  BY DEF ScanOpArray, AtStep, InOpArray, IInv, pool, current, script
<1>2. Top(calls) \in OpFrame /\ (functionFlags # <<>> => Top(functionFlags) \in Flags)
  BY <1>1, TopCall, CallTypes, PoppedFacts
<1>3. /\ f \in OpFrame /\ f.step = "dump" /\ f.name = Top(calls).name
      /\ f.stack = Top(calls).stack
  BY <1>2 DEF OpFrame
<1>4. calls' = [calls EXCEPT ![Len(calls)] = f]
  BY DEF ScanOpArray, Top
<1> HIDE DEF f
<1>5. InOpArray' /\ Top(calls') = f
  BY <1>1, <1>3, <1>4, OpChanged
<1>6. /\ Ahead' = Ahead /\ Behind' = Behind /\ (Waiting <=> Top(calls).name # Main) /\ ~Waiting'
      /\ WaitingFlags = Top(calls).pushed /\ ~Locked /\ ~Locked'
  BY <1>1, <1>3, <1>5, OpShape, OpShapeNext DEF Returning
<1>7. Clean' => Clean /\ found' = found
  BY <1>1 DEF Clean
<1>8. FlagsInv'
  <2> SUFFICES ASSUME Clean'
               PROVE  majorId > EXTENSION_ID_1 /\ functionFlags' = found.functionFlags
    BY <1>1, <1>6 DEF FlagsInv
  <2>1. /\ majorId > EXTENSION_ID_1 /\ found.functionFlags \in Seq(Flags)
        /\ Waiting => functionFlags = Append(found.functionFlags, Top(calls).pushed)
        /\ ~Waiting => functionFlags = found.functionFlags
    BY <1>6, <1>7, FoundTypes DEF IInv, PastInv, FlagsInv
  <2>2. CASE Waiting
    <3>1. FlagsOnTop(Top(calls).name, Top(calls).pushed)
      BY <1>1, TopCall DEF IInv, CallInv, FlagInv
    <3>2. Top(calls).pushed \in Flags /\ functionFlags # <<>>
      BY <1>2, <1>6, <2>2, <3>1 DEF FlagsOnTop
    <3>3. Popped(Append(found.functionFlags, Top(calls).pushed)) = found.functionFlags
      BY <2>1, <3>2, PoppedAppend
    <3> QED
      BY <1>1, <1>6, <2>1, <2>2, <3>2, <3>3
  <2>3. CASE ~Waiting
    BY <1>1, <1>6, <2>1, <2>3
  <2> QED
    BY <2>2, <2>3
<1> QED
  BY <1>1, <1>6, <1>7, <1>8, UseKept, LockKept

LEMMA EnterClassPast ==
  ASSUME IInv, ~Entering, Ready, ~Waiting, ~Locked, Ahead = 0, Behind = 0,
         NEW c \in Classes, EnterClass(c), UNCHANGED phase
  PROVE  UseInv' /\ LockInv' /\ FlagsInv'
<1> DEFINE f == [kind |-> "class", name |-> c, step |-> "head", todo |-> Methods]
<1>1. /\ calls' = Append(calls, f) /\ f \in Frames /\ gsLocks' = gsLocks + 1
      /\ UNCHANGED <<entry, useList, ptrList, functionFlags, majorId, found>>
  BY DEF EnterClass, Frames, ClassFrame, pool, current, script
<1>2. Top(calls') = f /\ calls' # <<>>
  BY <1>1, CallTypes, AppendFacts DEF IInv
<1>3. ~Entering' /\ ~InOpArray' /\ InHeader'
  BY <1>1, <1>2 DEF Entering, InOpArray, InHeader, InClass
<1>4. Ahead' = 0 /\ Behind' = 0 /\ ~Waiting' /\ Locked'
  BY <1>3, OtherShapeNext
<1>5. Clean' => Clean /\ found' = found
  BY <1>1 DEF Clean
<1>6. LockInv'
  <2>1. Clean' => gsLocks = found'.gsLocks /\ found'.gsLocks \in Nat
    <3>1. Clean => gsLocks = found.gsLocks + 0 /\ found.gsLocks \in Nat
      BY FoundTypes DEF IInv, PastInv, LockInv
    <3> QED
      BY <1>5, <3>1
  <2>2. gsLocks \in Nat
    BY CallTypes DEF IInv
  <2> QED
    BY <1>1, <1>4, <2>1, <2>2 DEF LockInv
<1> QED
  BY <1>1, <1>4, <1>5, <1>6, UseKept, FlagsKept

LEMMA ClassHeaderPast ==
  ASSUME IInv, ClassHeader
  PROVE  UseInv' /\ LockInv' /\ FlagsInv'
<1> DEFINE f == [Top(calls) EXCEPT !.step = "body"]
<1>1. /\ calls # <<>> /\ InClass /\ TypeOK /\ gsLocks' = gsLocks - 1 /\ ~Entering /\ ~InOpArray
      /\ InHeader
      /\ UNCHANGED <<phase, entry, useList, ptrList, functionFlags, majorId, found>>
  BY DEF ClassHeader, InClass, InOpArray, InHeader, IInv, pool, current, script
<1>2. Top(calls) \in ClassFrame
  BY <1>1, TopCall
<1>3. f \in Frames /\ f.kind = "class" /\ f.step = "body" /\ Top(calls).kind = "class"
  BY <1>2 DEF Frames, ClassFrame
<1>4. calls' = [calls EXCEPT ![Len(calls)] = f]
  BY DEF ClassHeader, Top
<1> HIDE DEF f
<1>5. Top(calls') = f
  BY <1>1, <1>3, <1>4, TopChanged
<1>6. ~Entering' /\ ~InOpArray' /\ ~InHeader'
  BY <1>1, <1>3, <1>5 DEF Entering, InOpArray, InHeader, InClass
<1>7. Ahead' = 0 /\ Behind' = 0 /\ ~Waiting' /\ ~Locked'
  BY <1>6, OtherShapeNext
<1>8. Ahead = 0 /\ Behind = 0 /\ ~Waiting /\ Locked
  BY <1>1 DEF Entering, Ahead, Behind, Freeing, AtStep, Locked, Waiting
<1>9. Clean' => Clean /\ found' = found
  BY <1>1 DEF Clean
<1>10. LockInv'
  <2>1. Clean' => gsLocks = found'.gsLocks + 1 /\ found'.gsLocks \in Nat
    <3>1. Clean => gsLocks = found.gsLocks + 1 /\ found.gsLocks \in Nat
      BY <1>8, FoundTypes DEF IInv, PastInv, LockInv
    <3> QED
      BY <1>9, <3>1
  <2> QED
    BY <1>1, <1>7, <2>1 DEF LockInv
<1> QED
  BY <1>1, <1>7, <1>8, <1>9, <1>10, UseKept, FlagsKept

LEMMA LeaveClassPast ==
  ASSUME IInv, LeaveClass
  PROVE  UseInv' /\ LockInv' /\ FlagsInv'
<1>1. /\ calls # <<>> /\ calls' = Popped(calls) /\ InClass /\ Top(calls).step = "body"
      /\ UNCHANGED <<phase, entry, useList, ptrList, gsLocks, functionFlags, majorId, found>>
  BY DEF LeaveClass, InClass, pool, current, script
<1>2. ~Waiting /\ ~Locked /\ Ahead = 0 /\ Behind = 0 /\ ~Entering
  BY <1>1, TopReady DEF Locked
<1>3. ~InHeader' /\ (InOpArray' => Top(calls').step = "dump") /\ ~Entering'
  BY <1>1, <1>2, CallLeft DEF Entering
<1>4. Ahead' = 0 /\ Behind' = 0 /\ ~Locked' /\ ~Waiting'
  <2>1. CASE InOpArray'
    BY <1>3, <2>1, OpShapeNext DEF Returning
  <2>2. CASE ~InOpArray'
    BY <1>3, <2>2, OtherShapeNext
  <2> QED
    BY <2>1, <2>2
<1>5. Clean' => Clean /\ found' = found
  BY <1>1 DEF Clean
<1> QED
  BY <1>1, <1>2, <1>4, <1>5, UseKept, LockKept, FlagsKept

LEMMA PresentStep ==
  ASSUME IInv, TypeOK', [Next]_vars
  PROVE  UseInv' /\ LockInv' /\ FlagsInv'
<1> USE DEF pool, current, script
<1>1. /\ TypeOK /\ NoEntry.step = "none"
      /\ phase \notin Trying => calls = <<>> /\ ~Entering
  BY NoEntryFacts DEF IInv, CallInv, PhaseInv, NoCall
<1>2. ASSUME calls' = <<>>, ~Entering'
      PROVE  Ahead' = 0 /\ Behind' = 0 /\ ~Locked' /\ ~Waiting'
  BY <1>2, OtherShapeNext DEF InOpArray, InHeader, InClass
<1>3. ASSUME NEW file \in Files, StartScript(file)
      PROVE  UseInv' /\ LockInv' /\ FlagsInv'
  <2>1. /\ calls' = <<>> /\ ~Entering' /\ UNCHANGED <<useList, ptrList, functionFlags, gsLocks>>
        /\ Clean' => found' = kept /\ majorId' > EXTENSION_ID_1
    BY <1>1, <1>3 DEF StartScript, Trying, Entering, Clean
  <2>2. Ahead' = 0 /\ Behind' = 0 /\ ~Locked' /\ ~Waiting'
    BY <1>2, <2>1
  <2>3. /\ useList \in Seq(Stacks) /\ ptrList \in Seq(Stacks) /\ gsLocks \in Nat
    BY <1>1, CallTypes
  <2>4. /\ kept.useList = useList /\ kept.ptrList = ptrList
        /\ kept.functionFlags = functionFlags /\ kept.gsLocks = gsLocks
    BY DEF kept
  <2>5. UsedAbove(useList, Len(useList), ptrList, Len(ptrList), 0, 0) /\ StartsWith(useList, useList)
    BY <2>3, UsedStartsEqual
  <2>6. UseInv'
    BY <2>1, <2>2, <2>4, <2>5 DEF UseInv
  <2>7. LockInv'
    BY <2>1, <2>2, <2>3, <2>4 DEF LockInv
  <2>8. FlagsInv'
    BY <2>1, <2>2, <2>4 DEF FlagsInv
  <2> QED
    BY <2>6, <2>7, <2>8
<1>4. ASSUME NEW c \in Classes, DumpClassTable(c) \/ DumpClass(c)
      PROVE  UseInv' /\ LockInv' /\ FlagsInv'
  <2>1. EnterClass(c) /\ UNCHANGED phase /\ (NoCall \/ Dumping)
    BY <1>4 DEF DumpClassTable, DumpClass
  <2>2. Ready /\ ~Waiting /\ ~Locked /\ Ahead = 0 /\ Behind = 0 /\ ~Entering
    BY <2>1, TopReady DEF Locked
  <2> QED
    BY <2>1, <2>2, EnterClassPast
<1>5. ASSUME NEW f \in Functions, NEW flags \in Flags,
             DumpFunctionTable(f) \/ DumpFunction(f, flags)
      PROVE  UseInv' /\ LockInv' /\ FlagsInv'
  <2>1. /\ UNCHANGED <<phase, useList, ptrList, gsLocks, majorId, found>>
        /\ NoCall \/ Dumping
    BY <1>5 DEF DumpFunctionTable, DumpFunction
  <2>2. PICK x \in Flags : EnterOpArray(f, x) /\ functionFlags' = Append(functionFlags, x)
    BY <1>5, SessionAssumption DEF DumpFunctionTable, DumpFunction, DumpWithFlags
  <2>3. Ready /\ ~Waiting /\ ~Locked /\ Ahead = 0 /\ Behind = 0 /\ ~Entering
    BY <2>1, TopReady DEF Locked
  <2>4. f # Main /\ (Clean' => Clean /\ found' = found)
    BY <2>1, SessionAssumption DEF Clean
  <2> QED
    BY <2>1, <2>2, <2>3, <2>4, CalledPast
<1>6. ASSUME NEW m \in Methods, NEW flags \in Flags, DumpMethod(m, flags)
      PROVE  UseInv' /\ LockInv' /\ FlagsInv'
  <2>1. /\ UNCHANGED <<phase, useList, ptrList, gsLocks, majorId, found>>
        /\ InClass /\ Top(calls).step = "body"
        /\ EnterOpArray(m, flags) /\ functionFlags' = Append(functionFlags, flags)
    BY <1>6 DEF DumpMethod, DumpWithFlags
  <2>2. Ready /\ ~Waiting /\ ~Locked /\ Ahead = 0 /\ Behind = 0 /\ ~Entering
    BY <2>1, TopReady DEF Locked
  <2>3. m # Main /\ (Clean' => Clean /\ found' = found)
    BY <2>1, SessionAssumption DEF Clean
  <2> QED
    BY <2>1, <2>2, <2>3, CalledPast
<1>7. CASE DumpMain
  <2>1. /\ UNCHANGED <<useList, ptrList, functionFlags, gsLocks, majorId, found>> /\ NoCall
        /\ EnterOpArray(Main, NULL) /\ phase = "functions"
    BY <1>7 DEF DumpMain
  <2>2. Ready /\ ~Waiting /\ ~Locked /\ Ahead = 0 /\ Behind = 0 /\ ~Entering
    BY <2>1, TopReady DEF Locked
  <2>3. Clean' => Clean /\ found' = found
    BY <2>1 DEF Clean, Trying
  <2> QED
    BY <2>1, <2>2, <2>3, CalledPast
<1>8. CASE ClassHeader
  BY <1>8, ClassHeaderPast
<1>9. CASE LeaveClass
  BY <1>9, LeaveClassPast
<1>10. CASE RemoveFree \/ AllocateStack \/ InsertFree
  <2>1. /\ UNCHANGED <<phase, useList, ptrList, gsLocks, functionFlags, majorId, found>>
        /\ entry.step \in {"take", "new"} /\ Entering
    BY <1>10 DEF RemoveFree, AllocateStack, InsertFree, Entering
  <2>2. entry \in Entries
    BY <1>1 DEF TypeOK
  <2>3. /\ entry'.step \in {"take", "new", "post"}
        /\ entry'.name = entry.name /\ entry'.pushed = entry.pushed
    <3>1. CASE RemoveFree
      BY <2>2, <3>1 DEF RemoveFree, Entries
    <3>2. CASE AllocateStack
      BY <2>2, <3>2 DEF AllocateStack, Entries
    <3>3. CASE InsertFree
      BY <2>2, <3>3 DEF InsertFree, Entries
    <3> QED
      BY <1>10, <3>1, <3>2, <3>3
  <2>4. Entering'
    BY <2>3 DEF Entering
  <2>5. /\ Ahead' = Ahead /\ Behind' = Behind /\ (Locked' <=> Locked) /\ (Waiting' <=> Waiting)
        /\ WaitingFlags' = WaitingFlags
    BY <2>1, <2>3, <2>4, EntryShape, EntryShapeNext
  <2>6. Clean' => Clean /\ found' = found
    BY <2>1 DEF Clean
  <2> QED
    BY <2>1, <2>5, <2>6, UseKept, LockKept, FlagsKept
<1>11. CASE InsertInUse
  BY <1>11, InsertInUsePast
<1>12. CASE AllocateStackFails
  <2>1. ~Clean' /\ ~Entering' /\ Entering /\ calls' = calls
    BY <1>1, <1>12 DEF AllocateStackFails, Clean, Entering
  <2>2. Ready
    BY <2>1 DEF IInv, CallInv, EntryInv
  <2>3. calls # <<>> => Top(calls).step \in {"dump", "body"}
    <3> SUFFICES ASSUME calls # <<>> PROVE Top(calls).step \in {"dump", "body"}
      OBVIOUS
    <3>1. Len(calls) \in 1 .. Len(calls) /\ Top(calls) = calls[Len(calls)]
      BY <1>1, TopCall
    <3> QED
      BY <2>2, <3>1 DEF Ready
  <2>4. ~Locked'
    BY <2>1, <2>3 DEF Locked, InHeader, InClass, Freeing, AtStep, InOpArray
  <2> QED
    BY <2>1, <2>4, NotClean
<1>13. CASE PushStack
  BY <1>13, PushStackPast
<1>14. CASE ScanOpArray
  BY <1>14, ScanOpArrayPast
<1>15. CASE UnlinkStack
  <2>1. InOpArray /\ calls' = [calls EXCEPT ![Len(calls)].step = "clear"] /\ entry' = entry
    BY <1>15 DEF UnlinkStack, Dumping, AtStep
  <2>2. PICK f \in OpFrame : /\ f.step = "clear" /\ f.stack = Top(calls).stack
                             /\ f.name = Top(calls).name
                             /\ calls' = [calls EXCEPT ![Len(calls)] = f]
    BY <1>1, <2>1, NextStep DEF OpSteps
  <2>3. InOpArray' /\ Top(calls') = f
    BY <2>1, <2>2, OpChanged
  <2> QED
    BY <1>15, <2>2, <2>3, UnlinkStackPast
<1>16. CASE PushFunctionName \/ FreeVariables \/ PopFunctionName
  <2>1. /\ InOpArray
        /\ UNCHANGED <<phase, entry, useList, ptrList, functionFlags, gsLocks, majorId, found>>
    BY <1>16 DEF PushFunctionName, FreeVariables, PopFunctionName, AtStep
  <2>2. PICK k \in OpSteps : /\ calls' = [calls EXCEPT ![Len(calls)].step = k]
                             /\ Top(calls).step \in Returning <=> k \in Returning
                             /\ Top(calls).step \in {"name", "scan"} <=> k \in {"name", "scan"}
                             /\ Top(calls).step \in {"clear", "give"} <=> k \in {"clear", "give"}
    <3>1. CASE PushFunctionName
      BY <3>1 DEF PushFunctionName, AtStep, OpSteps, Returning
    <3>2. CASE FreeVariables
      BY <3>2 DEF FreeVariables, AtStep, OpSteps, Returning
    <3>3. CASE PopFunctionName
      BY <3>3 DEF PopFunctionName, AtStep, OpSteps, Returning
    <3> QED
      BY <1>16, <3>1, <3>2, <3>3
  <2>3. UseInv' /\ FlagsInv' /\ InOpArray' /\ Top(calls').step = k
    BY <2>1, <2>2, OpStepPast
  <2>4. Locked' <=> Locked
    BY <2>1, <2>2, <2>3, OpShape, OpShapeNext
  <2>5. Clean' => Clean /\ found' = found
    BY <2>1 DEF Clean
  <2> QED
    BY <2>1, <2>3, <2>4, <2>5, LockKept
<1>17. CASE GiveBack
  <2>1. /\ InOpArray /\ Top(calls).step = "give" /\ gsLocks' = gsLocks - 1
        /\ UNCHANGED <<phase, entry, useList, ptrList, functionFlags, majorId, found>>
        /\ calls' = [calls EXCEPT ![Len(calls)].step = "unname"]
    BY <1>17 DEF GiveBack, AtStep
  <2>2. "unname" \in OpSteps /\ "unname" \in Returning /\ "give" \in Returning
    BY DEF OpSteps, Returning
  <2>3. UseInv' /\ FlagsInv' /\ InOpArray' /\ Top(calls').step = "unname"
    BY <2>1, <2>2, OpStepPast
  <2>4. Locked /\ ~Locked'
    BY <2>1, <2>3, OpShape, OpShapeNext
  <2>5. Clean' => gsLocks = found'.gsLocks + 1 /\ found'.gsLocks \in Nat
    <3>1. Clean => gsLocks = found.gsLocks + 1 /\ found.gsLocks \in Nat
      BY <2>4, FoundTypes DEF IInv, PastInv, LockInv
    <3> QED
      BY <2>1, <3>1 DEF Clean
  <2>6. LockInv'
    BY <2>1, <2>4, <2>5 DEF LockInv
  <2> QED
    BY <2>3, <2>6
<1>18. CASE LeaveOpArray
  BY <1>18, LeaveOpArrayPast
<1>19. CASE InsertVariable \/ ClassTableDone \/ MainDone \/ UNCHANGED vars
  <2>1. /\ UNCHANGED <<calls, entry, useList, ptrList, functionFlags, gsLocks, majorId, found>>
        /\ phase' = phase \/ (phase \in Trying /\ phase' \in {"functions", "tail"})
    BY <1>19 DEF InsertVariable, ClassTableDone, MainDone, vars, Trying
  <2>2. /\ Ahead' = Ahead /\ Behind' = Behind /\ (Locked' <=> Locked) /\ (Waiting' <=> Waiting)
        /\ WaitingFlags' = WaitingFlags
    BY <2>1 DEF Ahead, Behind, Locked, Freeing, InHeader, InClass, Waiting, WaitingFlags, AtStep,
                InOpArray, Entering
  <2>3. Clean' => Clean /\ found' = found
    BY <2>1 DEF Clean, Trying
  <2> QED
    BY <2>1, <2>2, <2>3, UseKept, LockKept, FlagsKept
<1>20. CASE Exception \/ EndScript \/ Uninit
  <2>1. calls' = <<>> /\ ~Entering' /\ ~Clean'
    BY <1>1, <1>20 DEF Exception, EndScript, Uninit, Trying, Clean, Entering
  <2> QED
    BY <1>2, <2>1, NotClean
<1> QED
  BY <1>3, <1>4, <1>5, <1>6, <1>7, <1>8, <1>9, <1>10, <1>11, <1>12, <1>13, <1>14, <1>15, <1>16,
     <1>17, <1>18, <1>19, <1>20, SessionAssumption
  DEF Next, Exited

(* What a script has found stays what it was. *)
LEMMA FoundTypeStep ==
  ASSUME IInv, [Next]_vars
  PROVE  FoundType'
<1>1. FoundType /\ TypeOK
  BY DEF IInv, PastInv
<1>2. ASSUME NEW file \in Files, StartScript(file)
      PROVE  FoundType'
  <2>1. kept \in [useList : Seq(Stacks), ptrList : Seq(Stacks),
                  functionName : Seq(OpNames), className : Seq(Classes \cup {Main}),
                  functionFlags : Seq(Flags), gsLocks : Nat]
    BY <1>1 DEF kept, TypeOK
  <2>2. phase' = "classes" /\ (found' # NULL => found' = kept)
    BY <1>2 DEF StartScript
  <2> QED
    BY <2>1, <2>2 DEF FoundType
<1>3. CASE UNCHANGED vars
  BY <1>1, <1>3 DEF FoundType, vars
<1>4. CASE Next /\ ~(\E file \in Files : StartScript(file)) /\ ~UNCHANGED vars
  <2>1. found' = NULL \/ (found' = found /\ (phase' = "done" => phase = "done"))
    BY <1>4 DEF Next, Exited, DumpClassTable, DumpClass, DumpFunctionTable, DumpFunction, DumpMethod,
                DumpWithFlags, EnterClass, ClassTableDone, ClassHeader, LeaveClass, RemoveFree,
                AllocateStack, InsertFree, AllocateStackFails, InsertInUse, DumpMain, PushStack,
                PushFunctionName, ScanOpArray, InsertVariable, UnlinkStack, FreeVariables, GiveBack,
                PopFunctionName, LeaveOpArray, Exception, MainDone, EndScript, Uninit
  <2> QED
    BY <1>1, <2>1 DEF FoundType
<1> QED
  BY <1>2, <1>3, <1>4

(* The stacks are as long as they were found, and begin with what was found. *)
LEMMA ScriptBalanced ==
  ASSUME IInv, phase = "tail", found # NULL
  PROVE  /\ useList = found.useList /\ ptrList = found.ptrList
         /\ PopName(PopName(functionName)) = PopName(found.functionName)
         /\ Named(className) = Named(found.className)
         /\ functionFlags = found.functionFlags /\ gsLocks = found.gsLocks
<1>1. Clean /\ calls = <<>> /\ NoCall
  BY DEF Clean, IInv, CallInv, PhaseInv, Trying, NoCall
<1>2. PICK p : Places(p) /\ FoundBelow(p[0])
  BY <1>1 DEF IInv, PlaceInv
<1>3. /\ ptrList \in Seq(Stacks) /\ functionName \in Seq(OpNames)
      /\ className \in Seq(Classes \cup {Main})
      /\ Len(ptrList) \in Nat /\ Len(functionName) \in Nat /\ Len(className) \in Nat
  BY CallTypes DEF IInv
<1>4. /\ found.ptrList \in Seq(Stacks) /\ found.functionName \in Seq(OpNames)
      /\ found.className \in Seq(Classes \cup {Main})
      /\ Named(found.className) \in Seq(Classes \cup {Main})
      /\ found.functionFlags \in Seq(Flags) /\ found.gsLocks \in Nat
      /\ found.useList \in Seq(Stacks)
  BY <1>1, FoundTypes
<1>5. Len(calls) = 0 /\ p[0] = Len(ptrList)
  BY <1>1, <1>2 DEF Places, PlacesIn
<1>6. ptrList = found.ptrList
  <2>1. Len(ptrList) = Len(found.ptrList) /\ StartsWith(ptrList, found.ptrList)
    BY <1>2, <1>5 DEF FoundBelow
  <2> QED
    BY <1>3, <1>4, <2>1, SameSequence DEF StartsWith
<1>7. useList = found.useList
  <2>1. ~Entering /\ ~InOpArray /\ Ahead = 0 /\ Behind = 0
    BY <1>1 DEF NoCall, InOpArray, Ahead, Behind, Entering, Freeing, AtStep
  <2>2. /\ StartsWith(useList, found.useList)
        /\ Len(useList) + Len(found.ptrList) + 0 = Len(found.useList) + Len(ptrList) + 0
    BY <1>1, <2>1 DEF IInv, PastInv, UseInv, UsedAbove
  <2>3. useList \in Seq(Stacks) /\ Len(useList) \in Nat /\ Len(found.useList) \in Nat
    BY <1>4, CallTypes DEF IInv
  <2>4. Len(useList) = Len(found.useList)
    <3>1. Len(found.ptrList) = Len(ptrList) /\ Len(ptrList) \in Nat
      BY <1>3, <1>6
    <3> QED
      BY <2>2, <2>3, <3>1
  <2> QED
    BY <1>4, <2>2, <2>3, <2>4, SameSequence DEF StartsWith
<1>8. PopName(PopName(functionName)) = PopName(found.functionName)
  <2>1. /\ Len(functionName) = Len(found.functionName) + 1
        /\ StartsWith(functionName, found.functionName)
    <3>1. CallNames = functionName
      BY <1>1 DEF CallNames, AtStep, InOpArray
    <3> QED
      BY <1>2, <1>3, <1>5, <3>1 DEF FoundBelow, NamePlace
  <2>2. functionName # <<>> /\ Len(found.functionName) \in Nat
    BY <1>4, <2>1
  <2>3. /\ Popped(functionName) \in Seq(OpNames)
        /\ Len(Popped(functionName)) = Len(functionName) - 1
        /\ \A i \in 1 .. Len(functionName) - 1 : Popped(functionName)[i] = functionName[i]
    BY <1>3, <2>2, PoppedFacts
  <2>4. Popped(functionName) = found.functionName
    <3>1. /\ Len(Popped(functionName)) = Len(found.functionName)
          /\ \A i \in 1 .. Len(found.functionName) :
               Popped(functionName)[i] = found.functionName[i]
      BY <2>1, <2>2, <2>3 DEF StartsWith
    <3> QED
      BY <1>4, <2>3, <3>1, SameSequence
  <2>5. CASE Len(functionName) > 1
    BY <2>4, <2>5 DEF PopName
  <2>6. CASE ~(Len(functionName) > 1)
    <3>1. Len(functionName) <= 1 /\ Len(found.functionName) <= 1 /\ Len(<<Main>>) = 1
      BY <1>3, <2>1, <2>2, <2>6
    <3>2. PopName(functionName) = <<Main>> /\ PopName(found.functionName) = <<Main>>
          /\ PopName(<<Main>>) = <<Main>>
      BY <3>1 DEF PopName
    <3> QED
      BY <3>2
  <2> QED
    BY <2>5, <2>6
<1>9. Named(className) = Named(found.className)
  <2>1. ASSUME NEW base \in Seq(Classes \cup {Main}), ClassNames(base, p[0])
        PROVE  className = base
    <3>1. Len(className) = Len(base) /\ StartsWith(className, base)
      <4>1. Len(className) + Len(ptrList) = Len(base) + 0 + Len(ptrList)
        BY <1>5, <2>1 DEF ClassNames
      <4>2. Len(base) \in Nat
        OBVIOUS
      <4> QED
        BY <1>3, <2>1, <4>1, <4>2 DEF ClassNames
    <3> QED
      BY <1>3, <3>1, SameSequence DEF StartsWith
  <2>2. className = found.className \/ className = Named(found.className)
    BY <1>2, <1>4, <2>1 DEF FoundBelow
  <2>3. Named(Named(found.className)) = Named(found.className)
    BY DEF Named
  <2> QED
    BY <2>2, <2>3
<1>10. functionFlags = found.functionFlags /\ gsLocks = found.gsLocks
  <2>1. ~Waiting /\ ~Locked
    BY <1>1, TopReady DEF Locked
  <2> QED
    BY <1>1, <1>4, <2>1 DEF IInv, PastInv, FlagsInv, LockInv
<1> QED
  BY <1>6, <1>7, <1>8, <1>9, <1>10

LEMMA BalancedStep ==
  ASSUME IInv, [Next]_vars
  PROVE  Balanced'
<1>1. Balanced /\ (phase = "idle" => NoCall)
  BY DEF IInv, PastInv, CallInv, PhaseInv, Trying
<1>2. CASE EndScript
  <2>1. /\ phase = "tail"
        /\ UNCHANGED <<useList, ptrList, className, functionFlags, gsLocks, found>>
        /\ functionName' = PopName(PopName(functionName))
    BY <1>2 DEF EndScript, pool, current
  <2> QED
    BY <2>1, ScriptBalanced DEF Balanced
<1>3. CASE UNCHANGED vars
  BY <1>1, <1>3 DEF Balanced, vars, pool, current, names
<1>4. CASE Next /\ ~EndScript /\ ~UNCHANGED vars
  <2>1. phase' # "idle"
    <3> USE <1>1 DEF NoCall, AtStep, InOpArray, InClass, Dumping, Entering
    <3>1. ASSUME NEW c \in Classes, DumpClassTable(c) \/ DumpClass(c)
          PROVE  phase' # "idle"
      BY <3>1 DEF DumpClassTable, DumpClass
    <3>2. ASSUME NEW f \in Functions, NEW flags \in Flags,
                 DumpFunctionTable(f) \/ DumpFunction(f, flags)
          PROVE  phase' # "idle"
      BY <3>2 DEF DumpFunctionTable, DumpFunction
    <3>3. ASSUME NEW m \in Methods, NEW flags \in Flags, DumpMethod(m, flags)
          PROVE  phase' # "idle"
      BY <3>3 DEF DumpMethod
    <3>4. CASE ClassHeader \/ LeaveClass
      BY <3>4 DEF ClassHeader, LeaveClass
    <3>5. CASE RemoveFree \/ AllocateStack \/ InsertFree \/ AllocateStackFails \/ InsertInUse
               \/ PushStack
      BY <3>5 DEF RemoveFree, AllocateStack, InsertFree, AllocateStackFails, InsertInUse, PushStack
    <3>6. CASE PushFunctionName \/ ScanOpArray \/ InsertVariable \/ UnlinkStack \/ FreeVariables
               \/ GiveBack \/ PopFunctionName \/ LeaveOpArray
      BY <3>6 DEF PushFunctionName, ScanOpArray, InsertVariable, UnlinkStack, FreeVariables,
                  GiveBack, PopFunctionName, LeaveOpArray
    <3>7. ASSUME (\E file \in Files : StartScript(file)) \/ ClassTableDone \/ DumpMain \/ MainDone
                 \/ Exception \/ Uninit
          PROVE  phase' # "idle"
      BY <3>7 DEF StartScript, ClassTableDone, DumpMain, MainDone, Exception, Uninit
    <3> QED
      BY <1>4, <3>1, <3>2, <3>3, <3>4, <3>5, <3>6, <3>7, SessionAssumption DEF Next, Exited
  <2> QED
    BY <2>1 DEF Balanced
<1> QED
  BY <1>2, <1>3, <1>4

(* Every step of the process keeps the invariant. *)
LEMMA IInvStep ==
  ASSUME IInv, [Next]_vars
  PROVE  IInv'
<1>1. TypeOK' /\ CallInv'
  BY TypeStep, CallStep
<1>2. PoolInv' /\ PlaceInv'
  BY <1>1, PoolStep, PlaceStep
<1>3. PastInv'
  BY <1>1, PresentStep, FoundTypeStep, BalancedStep DEF PastInv
<1> QED
  BY <1>1, <1>2, <1>3 DEF IInv
-----------------------------------------------------------------------------
(* The innermost call of dump_op_array_ex, in which a class may be dumped. *)
LEMMA InnermostPlace ==
  ASSUME IInv, NEW i \in DOMAIN calls, Innermost(i), calls[i].step \in {"scan", "dump"}
  PROVE  /\ gsStack = calls[i].stack
         /\ ptrList # <<>> /\ Top(ptrList) = gsStack
         /\ functionName # <<>> /\ Top(functionName) = calls[i].name
<1> DEFINE n == Len(calls)
<1>1. /\ calls \in Seq(Frames) /\ ptrList \in Seq(Stacks) /\ CallNames \in Seq(OpNames)
      /\ n \in Nat /\ DOMAIN calls = 1 .. n /\ Len(ptrList) \in Nat
  BY CallTypes, CallNamesType DEF IInv
<1>2. i \in 1 .. n /\ i \in OpCalls /\ \A j \in 1 .. n : Op(j) => j <= i
  BY <1>1 DEF Innermost, OpCalls, Op
<1>3. PICK p : PlacesIn(p, calls, ptrList, CallNames) /\ NamesBelow(p[0])
  BY DEF IInv, PlaceInv, Places
<1>4. calls # <<>> /\ phase \in Trying
  BY <1>1, <1>2 DEF IInv, CallInv, PhaseInv, NoCall
<1>5. /\ p[i] \in 1 .. Len(ptrList)
      /\ NamePlace(p[i], ptrList, CallNames) \in 1 .. Len(CallNames)
      /\ ptrList[p[i]] = calls[i].stack
      /\ CallNames[NamePlace(p[i], ptrList, CallNames)] = calls[i].name
  <2>1. i \in OpsOf(calls) /\ NamePlace(p[0], ptrList, CallNames) > 0
    BY <1>2, <1>3, <1>4, OpCallsAre DEF NamesBelow
  <2>2. /\ p[i] \in 1 .. Len(ptrList)
        /\ NamePlace(p[i], ptrList, CallNames) \in 1 .. Len(CallNames)
    BY <1>1, <1>3, <2>1, PlacesApart
  <2> QED
    BY <1>3, <2>1, <2>2 DEF PlacesIn
<1> HIDE DEF n
<1>6. i = n \/ (i = n - 1 /\ n \in (1 .. n) \ OpsOf(calls))
  <2> SUFFICES ASSUME i # n
               PROVE  i = n - 1 /\ n \in (1 .. n) \ OpsOf(calls)
    OBVIOUS
  <2>1. i \in 1 .. n - 1 /\ n \in 1 .. n /\ i + 1 \in 1 .. n
    BY <1>1, <1>2
  <2>2. ~Op(i + 1) /\ ~Op(n)
    <3>1. ~(i + 1 <= i) /\ ~(n <= i)
      BY <1>1, <2>1
    <3> QED
      BY <1>2, <2>1, <3>1
  <2>3. i + 1 \notin 1 .. n - 1
    <3> SUFFICES ASSUME i + 1 \in 1 .. n - 1 PROVE FALSE
      OBVIOUS
    <3>1. Op(i + 1 + 1)
      BY <2>2 DEF IInv, CallInv, FrameInv, n
    <3>2. i + 1 + 1 \in 1 .. n /\ ~(i + 1 + 1 <= i)
      BY <1>1, <1>2
    <3> QED
      BY <1>2, <3>1, <3>2
  <2>4. i = n - 1
    BY <1>1, <2>1, <2>3
  <2> QED
    BY <2>1, <2>2, <2>4 DEF OpsOf, Op
<1>7. p[i] = Len(ptrList)
  <2>1. p[n] = Len(ptrList)
    BY <1>3 DEF PlacesIn, n
  <2>2. n \in (1 .. n) \ OpsOf(calls) => p[n] = p[n - 1]
    BY <1>3 DEF PlacesIn, n
  <2> QED
    BY <1>6, <2>1, <2>2
<1>8. /\ ptrList # <<>> /\ gsStack = Top(ptrList) /\ Top(ptrList) = calls[i].stack
  <2>1. ptrList # <<>> /\ gsStack = Top(ptrList)
    BY <1>2 DEF IInv, CallInv, CurrentInv
  <2> QED
    BY <1>5, <1>7, <2>1 DEF Top
<1>9. CallNames # <<>> /\ Top(CallNames) = calls[i].name
  <2>1. Len(CallNames) \in Nat /\ NamePlace(p[i], ptrList, CallNames) = Len(CallNames)
    BY <1>1, <1>7, CallNamesType DEF NamePlace, IInv
  <2>2. Len(CallNames) > 0 /\ CallNames # <<>>
    BY <1>5, <2>1
  <2> QED
    BY <1>5, <2>1, <2>2 DEF Top
<1>10. CallNames = functionName
  <2>1. ASSUME InOpArray
        PROVE  Top(calls) = calls[i]
    <3>1. n \in OpCalls /\ Top(calls) = calls[n]
      BY <1>4, <2>1, TopCall DEF IInv, n
    <3>2. n \in Nat /\ n <= i
      BY <1>1, <3>1 DEF Innermost
    <3> QED
      BY <1>2, <3>1, <3>2
  <2>2. ~AtStep("name") /\ ~AtStep("pop")
    BY <2>1 DEF AtStep
  <2> QED
    BY <2>2 DEF CallNames
<1> QED
  BY <1>8, <1>9, <1>10

LEMMA IInvImplies ==
  ASSUME IInv
  PROVE  TypeOK /\ CurrentCall /\ OwnVariables /\ LostOnce /\ OwnFlags /\ Balanced
<1>1. CurrentCall
  BY InnermostPlace DEF CurrentCall
<1>2. OwnVariables
  <2>1. \A i, j \in OpCalls : /\ {calls[i].step, calls[j].step} \subseteq Owning
                              /\ calls[i].stack = calls[j].stack
                            => i = j
    BY DEF IInv, PoolInv, StackInv
  <2>2. \A i \in OpCalls : calls[i].step \in Owning =>
          /\ calls[i].stack \in Elems(useList)
          /\ table[calls[i].stack] \subseteq {calls[i].name}
    BY DEF IInv, PoolInv, StackInv, TableInv, InUse
  <2>3. \A s \in Elems(freeList) : table[s] = {}
    <3>1. \A s \in Elems(freeList) : s \in Stacks
      BY DEF IInv, TypeOK
    <3> QED
      BY <3>1 DEF IInv, PoolInv, TableInv, Free
  <2>4. entry.stack # NULL => table[entry.stack] = {}
    BY EntryTypes DEF IInv, PoolInv, TableInv
  <2> QED
    BY <2>1, <2>2, <2>3, <2>4 DEF OwnVariables
<1>3. LostOnce
  <2>1. IsFiniteSet(Lost) /\ Cardinality(Lost) <= Ended
    BY DEF IInv, PoolInv, LostInv
  <2>2. Cardinality(Lost) \in Nat
    BY <2>1, FS_CardinalityType
  <2>3. scripts \in Nat /\ Ended \in {scripts, scripts - 1}
    BY EndedType DEF IInv, Ended
  <2> QED
    BY <2>1, <2>2, <2>3 DEF LostOnce
<1> QED
  BY <1>1, <1>2, <1>3 DEF IInv, CallInv, PastInv

(* The invariant holds in every state of a process. *)
THEOREM Invariance == Spec => []IInv
<1>1. Init => IInv
  BY InitIInv
<1>2. IInv /\ [Next]_vars => IInv'
  BY IInvStep
<1> QED
  BY <1>1, <1>2, PTL DEF Spec

(* Whatever exceptions and failed allocations happen, inside the pool's
   operations too, no stack is in both lists of the pool or twice in one, a
   failed allocation makes nothing the current stack, and the lock is never
   left more often than it is entered. *)
THEOREM TypeCorrect == Spec => []TypeOK
<1>1. IInv => TypeOK
  BY IInvImplies
<1> QED
  BY <1>1, Invariance, PTL

(* The innermost call of dump_op_array_ex works on its own stack and under its
   own name at any depth of nesting, after any number of failed ones. *)
THEOREM InnermostIsCurrent == Spec => []CurrentCall
<1>1. IInv => CurrentCall
  BY IInvImplies
<1> QED
  BY <1>1, Invariance, PTL

(* No two active calls share a stack, a stack holds only the variables of its
   own op array, and one in the pool or on its way to a new call holds none. *)
THEOREM VariablesApart == Spec => []OwnVariables
<1>1. IInv => OwnVariables
  BY IInvImplies
<1> QED
  BY <1>1, Invariance, PTL

(* Of the stacks that are in neither list and on no call's way to one, there
   are never more than scripts have been dumped: an exception inside
   AllocateStackFromPool or FreeStackToPool loses one, nothing else does. *)
THEOREM StacksLost == Spec => []LostOnce
<1>1. IInv => LostOnce
  BY IInvImplies
<1> QED
  BY <1>1, Invariance, PTL

(* The flags popped for a function's header are those pushed for it. *)
THEOREM FlagsOfCaller == Spec => []OwnFlags
<1>1. IInv => OwnFlags
  BY IInvImplies
<1> QED
  BY <1>1, Invariance, PTL

(* A script without a fault gives back what it has pushed, on top of whatever
   earlier faults have left. *)
THEOREM ScriptsBalanced == Spec => []Balanced
<1>1. IInv => Balanced
  BY IInvImplies
<1> QED
  BY <1>1, Invariance, PTL
=============================================================================
