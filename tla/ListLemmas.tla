----------------------------- MODULE ListLemmas -----------------------------
(***************************************************************************)
(* What insertion at the tail, removal of the head and unlinking of one    *)
(* entry do to the entries of a list, and insertion in the place that the  *)
(* order of a sorted one gives.                                            *)
(***************************************************************************)
EXTENDS Lists, Integers, FiniteSetTheorems, SequenceTheorems, WellFoundedInduction, TLAPS

(* InsertTailList adds its entry and keeps a list free of duplicates when the
   entry was not linked. *)
LEMMA AppendElems ==
  ASSUME NEW S, NEW list \in Seq(S), NEW x \in S
  PROVE  /\ Append(list, x) \in Seq(S)
         /\ Elems(Append(list, x)) = Elems(list) \cup {x}
         /\ NoDuplicates(list) /\ x \notin Elems(list)
              => NoDuplicates(Append(list, x))
<1> DEFINE app == Append(list, x)
<1>1. /\ app \in Seq(S)
      /\ Len(app) = Len(list) + 1
      /\ DOMAIN app = 1 .. Len(list) + 1
      /\ DOMAIN list = 1 .. Len(list)
      /\ \A i \in 1 .. Len(list) : app[i] = list[i]
      /\ app[Len(list) + 1] = x
  OBVIOUS
<1>2. Elems(app) = Elems(list) \cup {x}
  BY <1>1 DEF Elems
<1>3. NoDuplicates(list) /\ x \notin Elems(list) => NoDuplicates(app)
  BY <1>1 DEF Elems, NoDuplicates
<1> QED
  BY <1>1, <1>2, <1>3

(* RemoveHeadList takes the first entry and leaves the others. *)
LEMMA TailElems ==
  ASSUME NEW S, NEW list \in Seq(S), list # <<>>
  PROVE  /\ Head(list) \in S
         /\ Tail(list) \in Seq(S)
         /\ Elems(list) = Elems(Tail(list)) \cup {Head(list)}
         /\ NoDuplicates(list) => /\ NoDuplicates(Tail(list))
                                  /\ Head(list) \notin Elems(Tail(list))
<1> DEFINE rest == Tail(list)
<1>1. /\ rest \in Seq(S)
      /\ Len(list) \in Nat \ {0}
      /\ DOMAIN rest = 1 .. Len(list) - 1
      /\ DOMAIN list = 1 .. Len(list)
      /\ \A i \in 1 .. Len(list) - 1 : rest[i] = list[i + 1]
      /\ Head(list) = list[1]
      /\ list[1] \in S
  OBVIOUS
<1>2. Elems(list) = Elems(rest) \cup {Head(list)}
  <2>1. \A i \in 1 .. Len(list) : i = 1 \/ (i - 1 \in 1 .. Len(list) - 1 /\ rest[i - 1] = list[i])
    BY <1>1
  <2>2. \A i \in 1 .. Len(list) - 1 : i + 1 \in 1 .. Len(list)
    BY <1>1
  <2>3. ASSUME NEW i \in 1 .. Len(list)
        PROVE  list[i] \in Elems(rest) \cup {Head(list)}
    <3>1. CASE i = 1
      BY <3>1, <1>1
    <3>2. CASE i - 1 \in 1 .. Len(list) - 1 /\ rest[i - 1] = list[i]
      BY <3>2, <1>1 DEF Elems
    <3> QED
      BY <2>1, <3>1, <3>2
  <2>4. Elems(rest) \cup {Head(list)} \subseteq Elems(list)
    BY <1>1, <2>2 DEF Elems
  <2> QED
    BY <1>1, <2>3, <2>4 DEF Elems
<1>3. NoDuplicates(list) => NoDuplicates(rest) /\ Head(list) \notin Elems(rest)
  BY <1>1 DEF Elems, NoDuplicates
<1> QED
  BY <1>1, <1>2, <1>3

(* RemoveEntryList takes one entry out and leaves the others in order. *)
LEMMA UnlinkedElems ==
  ASSUME NEW S, NEW list \in Seq(S), NEW k \in DOMAIN list
  PROVE  /\ Unlinked(list, k) \in Seq(S)
         /\ NoDuplicates(list) =>
              /\ NoDuplicates(Unlinked(list, k))
              /\ Elems(Unlinked(list, k)) = Elems(list) \ {list[k]}
<1> DEFINE n == Len(list)
           out == Unlinked(list, k)
<1>1. /\ n \in Nat
      /\ DOMAIN list = 1 .. n
      /\ \A i \in 1 .. n : list[i] \in S
      /\ k \in 1 .. n
      /\ n - 1 \in Nat
  OBVIOUS
<1>2. /\ DOMAIN out = 1 .. n - 1
      /\ \A i \in 1 .. n - 1 : out[i] = IF i < k THEN list[i] ELSE list[i + 1]
  BY DEF Unlinked
<1>3. out \in Seq(S)
  <2>1. \A i \in 1 .. n - 1 : out[i] \in S
    BY <1>1, <1>2
  <2>2. out \in [1 .. n - 1 -> S]
    BY <1>1, <1>2, <2>1 DEF Unlinked
  <2> QED
    BY <2>2, <1>1
<1>4. ASSUME NoDuplicates(list)
      PROVE  NoDuplicates(out)
  <2> SUFFICES ASSUME NEW i \in 1 .. n - 1, NEW j \in 1 .. n - 1, out[i] = out[j]
               PROVE  i = j
    BY <1>2 DEF NoDuplicates
  <2> DEFINE at(m) == IF m < k THEN m ELSE m + 1
  <2>1. /\ at(i) \in 1 .. n /\ at(j) \in 1 .. n
        /\ out[i] = list[at(i)] /\ out[j] = list[at(j)]
    BY <1>1, <1>2
  <2>2. at(i) = at(j)
    BY <1>1, <1>4, <2>1 DEF NoDuplicates
  <2> QED
    BY <1>1, <2>2
<1>5. ASSUME NoDuplicates(list)
      PROVE  Elems(out) = Elems(list) \ {list[k]}
  <2>1. ASSUME NEW i \in 1 .. n - 1
        PROVE  out[i] \in Elems(list) \ {list[k]}
    BY <1>1, <1>2, <1>5 DEF Elems, NoDuplicates
  <2>2. ASSUME NEW i \in 1 .. n, list[i] # list[k]
        PROVE  list[i] \in Elems(out)
    <3>1. CASE i < k
      <4>1. i \in 1 .. n - 1 /\ out[i] = list[i]
        BY <3>1, <1>1, <1>2
      <4> QED
        BY <4>1, <1>2 DEF Elems
    <3>2. CASE i > k
      <4>1. i - 1 \in 1 .. n - 1 /\ out[i - 1] = list[i]
        BY <3>2, <1>1, <1>2
      <4> QED
        BY <4>1, <1>2 DEF Elems
    <3> QED
      BY <3>1, <3>2, <2>2, <1>1
  <2> QED
    BY <1>1, <1>2, <2>1, <2>2 DEF Elems
<1> QED
  BY <1>3, <1>4, <1>5

(* Induction: a set of numbers has a least one. *)
LEMMA LeastNumber ==
  ASSUME NEW T, T \subseteq Nat, T # {}
  PROVE  \E m \in T : \A k \in T : m <= k
<1> DEFINE R == {p \in Nat \X Nat : p[1] < p[2]}
<1>1. IsWellFoundedOn(R, Nat)
  BY NatLessThanWellFounded DEF OpToRel
<1>2. PICK m \in T : \A k \in T : <<k, m>> \notin R
  BY <1>1, WFMin
<1>3. ASSUME NEW k \in T
      PROVE  m <= k
  <2>1. <<k, m>> \notin R /\ <<k, m>> \in Nat \X Nat
    BY <1>2
  <2>2. ~(k < m)
    BY <2>1
  <2> QED
    BY <2>2
<1> QED
  BY <1>3

(* The indexes of a sorted sequence whose elements are not larger than some
   value are the first ones, and as many as their number says. *)
LEMMA InitialSegment ==
  ASSUME NEW n \in Nat, NEW T, T \subseteq 1 .. n,
         \A i, j \in 1 .. n : i < j /\ j \in T => i \in T
  PROVE  Cardinality(T) \in 0 .. n /\ T = 1 .. Cardinality(T)
<1> DEFINE rest == {k \in 1 .. n + 1 : k \notin T}
<1>1. PICK m \in rest : \A k \in rest : m <= k
  <2>1. rest \subseteq Nat /\ n + 1 \in rest
    OBVIOUS
  <2> QED
    BY <2>1, LeastNumber
<1>2. T = 1 .. m - 1 /\ m - 1 \in 0 .. n
  <2>1. m \in 1 .. n + 1 /\ m \notin T
    BY <1>1
  <2>2. ASSUME NEW j \in T
        PROVE  j \in 1 .. m - 1
    BY <2>1
  <2>3. ASSUME NEW j \in 1 .. m - 1
        PROVE  j \in T
    BY <1>1, <2>1
  <2>4. T = 1 .. m - 1
    BY <2>2, <2>3
  <2>5. m - 1 \in 0 .. n
    BY <2>1
  <2> QED
    BY <2>4, <2>5
<1>3. Cardinality(1 .. m - 1) = m - 1
  BY <1>2, FS_Interval
<1> QED
  BY <1>2, <1>3

(* A value put in at place k: what was there moves up by one. *)
Inserted(s, k, v) == SubSeq(s, 1, k - 1) \o <<v>> \o SubSeq(s, k, Len(s))

LEMMA InsertedIs ==
  ASSUME NEW S, NEW s \in Seq(S), NEW v \in S, NEW k \in 1 .. Len(s) + 1
  PROVE  /\ Inserted(s, k, v) \in Seq(S) /\ Len(Inserted(s, k, v)) = Len(s) + 1
         /\ \A i \in 1 .. Len(s) + 1 :
              Inserted(s, k, v)[i] = IF i < k THEN s[i] ELSE IF i = k THEN v ELSE s[i - 1]
<1> DEFINE left == SubSeq(s, 1, k - 1)
           right == SubSeq(s, k, Len(s))
<1>1. Len(s) \in Nat /\ \A i \in 1 .. Len(s) : s[i] \in S
  BY LenProperties, ElementOfSeq
<1>2. /\ left \in Seq(S) /\ Len(left) = k - 1
      /\ \A i \in 1 .. k - 1 : left[i] = s[i]
  <2>1. /\ left \in Seq(S)
        /\ Len(left) = IF 1 <= k - 1 THEN (k - 1) - 1 + 1 ELSE 0
        /\ \A i \in 1 .. (k - 1) - 1 + 1 : left[i] = s[1 + i - 1]
    BY <1>1, SubSeqProperties
  <2> QED
    BY <1>1, <2>1
<1>3. /\ right \in Seq(S) /\ Len(right) = Len(s) - k + 1
      /\ \A i \in 1 .. Len(s) - k + 1 : right[i] = s[k + i - 1]
  <2>1. /\ right \in Seq(S)
        /\ Len(right) = IF k <= Len(s) THEN Len(s) - k + 1 ELSE 0
        /\ \A i \in 1 .. Len(s) - k + 1 : right[i] = s[k + i - 1]
    BY <1>1, SubSeqProperties
  <2> QED
    BY <1>1, <2>1
<1> DEFINE both == left \o <<v>>
           all == both \o right
<1> HIDE DEF left, right
<1>4. /\ both \in Seq(S) /\ Len(both) = k
      /\ \A i \in 1 .. k - 1 : both[i] = s[i]
      /\ both[k] = v
  BY <1>1, <1>2
<1> HIDE DEF both
<1>5. /\ all \in Seq(S) /\ Len(all) = Len(both) + Len(right)
      /\ \A i \in 1 .. Len(both) + Len(right) :
           all[i] = IF i <= Len(both) THEN both[i] ELSE right[i - Len(both)]
  BY <1>3, <1>4, ConcatProperties
<1> HIDE DEF all
<1>6. Len(all) = Len(s) + 1
  BY <1>1, <1>3, <1>4, <1>5
<1>7. ASSUME NEW i \in 1 .. Len(s) + 1
      PROVE  all[i] = IF i < k THEN s[i] ELSE IF i = k THEN v ELSE s[i - 1]
  <2>1. CASE i <= k
    <3>1. all[i] = both[i]
      BY <1>1, <1>3, <1>4, <1>5, <2>1
    <3> QED
      BY <1>4, <2>1, <3>1
  <2>2. CASE i > k
    <3>1. all[i] = right[i - k]
      BY <1>1, <1>3, <1>4, <1>5, <2>2
    <3>2. i - k \in 1 .. Len(s) - k + 1 /\ k + (i - k) - 1 = i - 1
      BY <1>1, <2>2
    <3>3. right[i - k] = s[i - 1]
      BY <1>3, <3>2
    <3> QED
      BY <2>2, <3>1, <3>3
  <2> QED
    BY <1>1, <2>1, <2>2
<1> QED
  BY <1>5, <1>6, <1>7 DEF Inserted, left, right, both, all

(* A function defined by what it is at 0 and by a step from each number to the
   next one exists. *)
Recursion(f, N, base, step) ==
  f[0] = base /\ \A n \in 1 .. N : f[n] = step[<<n, f[n - 1]>>]

LEMMA PrimitiveRecursion ==
  ASSUME NEW N \in Nat, NEW D, NEW base \in D, NEW step \in [(1 .. N) \X D -> D]
  PROVE  \E f \in [0 .. N -> D] : Recursion(f, N, base, step)
<1> DEFINE Good(m, f) == /\ f \in [0 .. m -> D] /\ f[0] = base
                         /\ \A n \in 1 .. m : f[n] = step[<<n, f[n - 1]>>]
           bad == {m \in 0 .. N : ~\E f \in [0 .. m -> D] : Good(m, f)}
<1>1. CASE bad = {}
  <2>1. N \in 0 .. N
    OBVIOUS
  <2> QED
    BY <1>1, <2>1 DEF Recursion
<1>2. CASE bad # {}
  <2>1. PICK m \in bad : \A k \in bad : m <= k
    <3>1. bad \subseteq Nat
      OBVIOUS
    <3> HIDE DEF bad
    <3> QED
      BY <1>2, <3>1, LeastNumber
  <2>2. CASE m = 0
    <3> DEFINE f == [n \in 0 .. 0 |-> base]
    <3>1. Good(0, f)
      OBVIOUS
    <3> QED
      BY <2>1, <2>2, <3>1
  <2>3. CASE m # 0
    <3>1. m \in 1 .. N /\ m - 1 \in 0 .. N /\ m - 1 \notin bad
      <4>1. m \in 0 .. N
        BY <2>1
      <4>2. m \in 1 .. N /\ m - 1 \in 0 .. N /\ ~(m <= m - 1)
        BY <2>3, <4>1
      <4> HIDE DEF bad
      <4> QED
        BY <2>1, <4>2
    <3>2. PICK g \in [0 .. m - 1 -> D] : Good(m - 1, g)
      BY <3>1
    <3> DEFINE f == [n \in 0 .. m |-> IF n = m THEN step[<<m, g[m - 1]>>] ELSE g[n]]
    <3>3. g[m - 1] \in D /\ step[<<m, g[m - 1]>>] \in D
      <4>1. m - 1 \in 0 .. m - 1
        BY <3>1
      <4>2. g[m - 1] \in D
        BY <4>1
      <4>3. <<m, g[m - 1]>> \in (1 .. N) \X D
        BY <3>1, <4>2
      <4> QED
        BY <4>2, <4>3
    <3>4. f \in [0 .. m -> D]
      <4>1. ASSUME NEW n \in 0 .. m, n # m
            PROVE  g[n] \in D
        <5>1. n \in 0 .. m - 1
          BY <3>1, <4>1
        <5> QED
          BY <5>1
      <4> QED
        BY <3>3, <4>1
    <3>5. f[0] = base
      BY <3>1, <3>2
    <3>6. ASSUME NEW n \in 1 .. m
          PROVE  f[n] = step[<<n, f[n - 1]>>]
      <4>0. n - 1 \in 0 .. m /\ n - 1 # m /\ n \in 0 .. m
        BY <3>1
      <4>1. f[n - 1] = g[n - 1]
        BY <4>0
      <4>2. CASE n = m
        BY <3>1, <4>0, <4>1, <4>2
      <4>3. CASE n # m
        <5>1. n \in 1 .. m - 1
          BY <3>1, <4>3
        <5>2. g[n] = step[<<n, g[n - 1]>>]
          BY <3>2, <5>1
        <5> QED
          BY <4>0, <4>1, <4>3, <5>2
      <4> QED
        BY <4>2, <4>3
    <3> HIDE DEF f
    <3>7. Good(m, f)
      BY <3>4, <3>5, <3>6
    <3>8. \E h \in [0 .. m -> D] : Good(m, h)
      BY <3>4, <3>7
    <3> QED
      BY <2>1, <3>8
  <2> QED
    BY <2>2, <2>3
<1> QED
  BY <1>1, <1>2

(* A set of numbers that holds 0 and the successor of each it holds is all. *)
LEMMA Climb ==
  ASSUME NEW n \in Nat, NEW T, T \subseteq 0 .. n, 0 \in T,
         \A m \in 1 .. n : m - 1 \in T => m \in T
  PROVE  T = 0 .. n
<1> DEFINE bad == (0 .. n) \ T
<1> SUFFICES ASSUME bad # {} PROVE FALSE
  OBVIOUS
<1>1. PICK m \in bad : \A k \in bad : m <= k
  <2>1. bad \subseteq Nat
    OBVIOUS
  <2> HIDE DEF bad
  <2> QED
    BY <2>1, LeastNumber
<1>2. m \in 1 .. n /\ m - 1 \in 0 .. n /\ ~(m <= m - 1)
  BY <1>1
<1> QED
  BY <1>1, <1>2

=============================================================================
