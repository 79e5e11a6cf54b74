-------------------------- MODULE HashTableProofs --------------------------
(***************************************************************************)
(* Proofs about HashTable, for every finite set of buckets, all keys and   *)
(* hash values, every size of the table and every nesting of applies.      *)
(***************************************************************************)
EXTENDS HashTable, ListLemmas, TLAPS

(* Entry i of a sequence, NULL in front of it and behind it. *)
At(s, i) == IF i \in 1 .. Len(s) THEN s[i] ELSE NULL

(* The doubly linked list that begins at first, with the pointers that the
   functions forth and back give, is the sequence s. *)
Path(s, first, forth, back) ==
  /\ s \in Seq(Addresses) /\ NoDuplicates(s)
  /\ first = At(s, 1)
  /\ \A i \in 1 .. Len(s) : forth[s[i]] = At(s, i + 1) /\ back[s[i]] = At(s, i - 1)

-----------------------------------------------------------------------------
(* What a list is, taken apart once for all uses. *)
LEMMA PathFacts ==
  ASSUME NEW s, NEW first, NEW F, NEW G, Path(s, first, F, G)
  PROVE  /\ Len(s) \in Nat /\ DOMAIN s = 1 .. Len(s)
         /\ \A i \in 1 .. Len(s) : s[i] \in Addresses /\ s[i] # NULL
         /\ \A i, j \in 1 .. Len(s) : s[i] = s[j] => i = j
         /\ Range(s) = {s[i] : i \in 1 .. Len(s)} /\ Range(s) \subseteq Addresses
         /\ At(s, 0) = NULL /\ At(s, Len(s) + 1) = NULL
         /\ s = <<>> <=> Len(s) = 0
         /\ \A i \in 0 .. Len(s) + 1 : At(s, i) = NULL <=> i \notin 1 .. Len(s)
<1>1. Len(s) \in Nat /\ DOMAIN s = 1 .. Len(s) /\ \A i \in 1 .. Len(s) : s[i] \in Addresses
  BY DEF Path
<1>2. NULL \notin Addresses
  BY HashAssumption
<1>3. s = <<>> <=> Len(s) = 0
  BY DEF Path
<1>4. \A i, j \in 1 .. Len(s) : s[i] = s[j] => i = j
  BY <1>1 DEF Path, NoDuplicates
<1>5. Range(s) = {s[i] : i \in 1 .. Len(s)} /\ Range(s) \subseteq Addresses
  BY <1>1 DEF Range
<1>6. \A i \in 0 .. Len(s) + 1 : At(s, i) = NULL <=> i \notin 1 .. Len(s)
  BY <1>1, <1>2 DEF At
<1>7. At(s, 0) = NULL /\ At(s, Len(s) + 1) = NULL
  BY <1>1 DEF At
<1> QED
  BY <1>1, <1>2, <1>3, <1>4, <1>5, <1>6, <1>7

(* Whatever leaves the pointers of its buckets alone leaves the list alone. *)
LEMMA PathFrame ==
  ASSUME NEW s, NEW first, NEW F, NEW G, Path(s, first, F, G), NEW F2, NEW G2,
         \A q \in Range(s) : F2[q] = F[q] /\ G2[q] = G[q]
  PROVE  Path(s, first, F2, G2)
BY PathFacts, SMTT(60) DEF Path

(* A bucket goes to the end. *)
LEMMA PathAppend ==
  ASSUME NEW s, NEW first, NEW F, NEW G, Path(s, first, F, G),
         NEW b \in Addresses, b \notin Range(s), NEW F2, NEW G2,
         F2[b] = NULL, G2[b] = At(s, Len(s)),
         \A q \in Range(s) : /\ F2[q] = IF q = At(s, Len(s)) THEN b ELSE F[q]
                             /\ G2[q] = G[q]
  PROVE  /\ Path(Append(s, b), IF first = NULL THEN b ELSE first, F2, G2)
         /\ Range(Append(s, b)) = Range(s) \cup {b}
<1> DEFINE n == Len(s)
           a == Append(s, b)
<1>1. /\ n \in Nat /\ DOMAIN s = 1 .. n
      /\ \A i \in 1 .. n : s[i] \in Addresses /\ s[i] # NULL
      /\ \A i, j \in 1 .. n : s[i] = s[j] => i = j
      /\ Range(s) = {s[i] : i \in 1 .. n}
      /\ s = <<>> <=> n = 0
  BY PathFacts
<1>2. /\ a \in Seq(Addresses) /\ Len(a) = n + 1 /\ DOMAIN a = 1 .. n + 1
      /\ \A i \in 1 .. n : a[i] = s[i]
      /\ a[n + 1] = b
  BY DEF Path
<1>3. NoDuplicates(a)
  BY <1>1, <1>2 DEF NoDuplicates
<1>4. At(a, 1) = IF first = NULL THEN b ELSE first
  <2>1. CASE n = 0
    BY <1>1, <1>2, <2>1 DEF At, Path
  <2>2. CASE n # 0
    BY <1>1, <1>2, <2>2 DEF At, Path
  <2> QED
    BY <2>1, <2>2
<1>5. ASSUME NEW i \in 1 .. n
      PROVE  F2[a[i]] = At(a, i + 1) /\ G2[a[i]] = At(a, i - 1)
  <2>1. s[i] \in Range(s) /\ a[i] = s[i] /\ i \in Nat /\ i >= 1 /\ i <= n
    BY <1>1, <1>2
  <2>2. G2[s[i]] = At(s, i - 1)
    BY <2>1 DEF Path
  <2>3. At(s, i - 1) = At(a, i - 1)
    BY <1>1, <1>2, <2>1 DEF At
  <2>4. CASE i = n
    <3>1. s[i] = At(s, n) /\ F2[s[i]] = b
      BY <1>1, <2>1, <2>4 DEF At
    <3>2. At(a, i + 1) = b
      BY <1>1, <1>2, <2>4 DEF At
    <3> QED
      BY <2>1, <2>2, <2>3, <3>1, <3>2
  <2>5. CASE i # n
    <3>1. s[i] # At(s, n)
      BY <1>1, <2>1, <2>5 DEF At
    <3>2. F2[s[i]] = At(s, i + 1)
      BY <2>1, <3>1 DEF Path
    <3>3. At(s, i + 1) = At(a, i + 1)
      <4>0. n \in Nat
        BY <1>1
      <4>1. i + 1 \in 1 .. n /\ i + 1 \in 1 .. n + 1
        BY <2>1, <2>5, <4>0
      <4>2. Len(a) = n + 1 /\ a[i + 1] = s[i + 1]
        BY <1>2, <4>1
      <4> HIDE DEF a
      <4> QED
        BY <4>1, <4>2 DEF At
    <3> QED
      BY <2>1, <2>2, <2>3, <3>2, <3>3
  <2> QED
    BY <2>4, <2>5
<1>6. F2[a[n + 1]] = At(a, n + 1 + 1) /\ G2[a[n + 1]] = At(a, n + 1 - 1)
  BY <1>1, <1>2 DEF At
<1>7. \A i \in 1 .. Len(a) : F2[a[i]] = At(a, i + 1) /\ G2[a[i]] = At(a, i - 1)
  BY <1>1, <1>2, <1>5, <1>6
<1>8. Range(a) = Range(s) \cup {b}
  BY <1>1, <1>2 DEF Range
<1> QED
  BY <1>2, <1>3, <1>4, <1>7, <1>8 DEF Path

(* A bucket goes to the front. *)
LEMMA PathPrepend ==
  ASSUME NEW s, NEW first, NEW F, NEW G, Path(s, first, F, G),
         NEW b \in Addresses, b \notin Range(s), NEW F2, NEW G2,
         F2[b] = first, G2[b] = NULL,
         \A q \in Range(s) : /\ F2[q] = F[q]
                             /\ G2[q] = IF q = first THEN b ELSE G[q]
  PROVE  /\ Path(<<b>> \o s, b, F2, G2)
         /\ Range(<<b>> \o s) = Range(s) \cup {b}
<1> DEFINE n == Len(s)
           a == <<b>> \o s
<1>1. /\ n \in Nat /\ DOMAIN s = 1 .. n
      /\ \A i \in 1 .. n : s[i] \in Addresses /\ s[i] # NULL
      /\ \A i, j \in 1 .. n : s[i] = s[j] => i = j
      /\ Range(s) = {s[i] : i \in 1 .. n}
      /\ At(s, n + 1) = NULL
  BY PathFacts
<1>2. /\ a \in Seq(Addresses) /\ Len(a) = n + 1 /\ DOMAIN a = 1 .. n + 1
      /\ \A i \in 1 .. n : a[i + 1] = s[i]
      /\ a[1] = b
  BY DEF Path
<1>3. \A i \in 2 .. n + 1 : i - 1 \in 1 .. n /\ a[i] = s[i - 1]
  <2> SUFFICES ASSUME NEW i \in 2 .. n + 1 PROVE i - 1 \in 1 .. n /\ a[i] = s[i - 1]
    OBVIOUS
  <2>1. i - 1 \in 1 .. n /\ (i - 1) + 1 = i
    BY <1>1
  <2> QED
    BY <1>2, <2>1
<1>4. NoDuplicates(a)
  <2> SUFFICES ASSUME NEW i \in 1 .. n + 1, NEW j \in 1 .. n + 1, a[i] = a[j], i # j
               PROVE  FALSE
    BY <1>2 DEF NoDuplicates
  <2>1. CASE i = 1
    <3>1. j \in 2 .. n + 1
      BY <1>1, <2>1
    <3> QED
      BY <1>1, <1>2, <1>3, <2>1, <3>1
  <2>2. CASE j = 1
    <3>1. i \in 2 .. n + 1
      BY <1>1, <2>2
    <3> QED
      BY <1>1, <1>2, <1>3, <2>2, <3>1
  <2>3. CASE i # 1 /\ j # 1
    <3>1. i \in 2 .. n + 1 /\ j \in 2 .. n + 1
      BY <1>1, <2>3
    <3>2. i - 1 = j - 1
      BY <1>1, <1>3, <3>1
    <3> QED
      BY <3>1, <3>2
  <2> QED
    BY <2>1, <2>2, <2>3
<1>5. At(a, 1) = b
  BY <1>1, <1>2 DEF At
<1>6. \A i \in 1 .. n + 2 : At(a, i) = IF i = 1 THEN b ELSE At(s, i - 1)
  <2> SUFFICES ASSUME NEW i \in 1 .. n + 2
               PROVE  At(a, i) = IF i = 1 THEN b ELSE At(s, i - 1)
    OBVIOUS
  <2>1. CASE i = 1
    BY <1>5, <2>1
  <2>2. CASE i \in 2 .. n + 1
    <3>1. i \in 1 .. Len(a) /\ i # 1
      BY <1>1, <1>2, <2>2
    <3> QED
      BY <1>3, <2>2, <3>1 DEF At
  <2>3. CASE i = n + 2
    <3>1. i \notin 1 .. Len(a) /\ i # 1 /\ i - 1 \notin 1 .. n
      BY <1>1, <1>2, <2>3
    <3> QED
      BY <3>1 DEF At
  <2> QED
    BY <1>1, <2>1, <2>2, <2>3
<1>7. F2[a[1]] = At(a, 1 + 1) /\ G2[a[1]] = At(a, 1 - 1)
  <2>1. At(a, 2) = At(s, 1) /\ At(a, 0) = NULL
    <3>1. 2 \in 1 .. n + 2 /\ 2 # 1 /\ 2 - 1 = 1
      BY <1>1
    <3> QED
      BY <1>6, <3>1 DEF At
  <2> QED
    BY <1>2, <2>1 DEF Path
<1>8. ASSUME NEW i \in 1 .. n
      PROVE  F2[a[i + 1]] = At(a, i + 1 + 1) /\ G2[a[i + 1]] = At(a, i + 1 - 1)
  <2>1. s[i] \in Range(s) /\ a[i + 1] = s[i] /\ i \in Nat /\ i >= 1 /\ i <= n
    BY <1>1, <1>2
  <2>2. At(a, i + 1 + 1) = At(s, i + 1) /\ At(a, i + 1 - 1) = IF i = 1 THEN b ELSE At(s, i - 1)
    <3>1. /\ i + 1 + 1 \in 1 .. n + 2 /\ i + 1 + 1 # 1 /\ i + 1 + 1 - 1 = i + 1
          /\ i \in 1 .. n + 2 /\ i + 1 - 1 = i
      BY <1>1, <2>1
    <3> QED
      BY <1>6, <3>1
  <2>3. F2[s[i]] = At(s, i + 1)
    BY <2>1 DEF Path
  <2>4. s[i] = first <=> i = 1
    BY <1>1, <2>1 DEF Path, At
  <2>5. G[s[i]] = At(s, i - 1)
    BY <2>1 DEF Path
  <2> QED
    BY <2>1, <2>2, <2>3, <2>4, <2>5
<1>9. ASSUME NEW i \in 1 .. n + 1
      PROVE  F2[a[i]] = At(a, i + 1) /\ G2[a[i]] = At(a, i - 1)
  <2>1. CASE i = 1
    BY <1>7, <2>1
  <2>2. CASE i # 1
    <3> DEFINE j == i - 1
    <3>1. j \in 1 .. n /\ j + 1 = i
      BY <1>1, <2>2
    <3> HIDE DEF j
    <3>2. F2[a[j + 1]] = At(a, j + 1 + 1) /\ G2[a[j + 1]] = At(a, j + 1 - 1)
      BY <1>8, <3>1
    <3> QED
      BY <3>1, <3>2
  <2> QED
    BY <2>1, <2>2
<1>10. Range(a) = Range(s) \cup {b}
  <2>1. \A i \in 1 .. n + 1 : a[i] \in Range(s) \cup {b}
    <3>1. \A i \in 1 .. n + 1 : i = 1 \/ i \in 2 .. n + 1
      BY <1>1
    <3> QED
      BY <1>1, <1>2, <1>3, <3>1
  <2>2. \A i \in 1 .. n : i + 1 \in 1 .. n + 1 /\ a[i + 1] = s[i]
    BY <1>1, <1>2
  <2>3. 1 \in 1 .. n + 1
    BY <1>1
  <2>4. Range(a) = {a[i] : i \in 1 .. n + 1}
    BY <1>2 DEF Range
  <2> HIDE DEF a
  <2>5. Range(s) \cup {b} \subseteq Range(a)
    BY <1>1, <1>2, <2>2, <2>3, <2>4
  <2> QED
    BY <2>1, <2>4, <2>5
<1> QED
  BY <1>2, <1>4, <1>5, <1>9, <1>10 DEF Path

(* A bucket goes: its neighbours become neighbours. *)
LEMMA PathUnlink ==
  ASSUME NEW s, NEW first, NEW F, NEW G, Path(s, first, F, G),
         NEW k \in 1 .. Len(s), NEW F2, NEW G2,
         \A q \in Range(s) \ {s[k]} :
            /\ F2[q] = IF q = At(s, k - 1) THEN At(s, k + 1) ELSE F[q]
            /\ G2[q] = IF q = At(s, k + 1) THEN At(s, k - 1) ELSE G[q]
  PROVE  /\ Path(Unlinked(s, k), IF k = 1 THEN At(s, 2) ELSE first, F2, G2)
         /\ Range(Unlinked(s, k)) = Range(s) \ {s[k]}
<1> DEFINE n == Len(s)
           u == Unlinked(s, k)
<1>1. /\ n \in Nat /\ DOMAIN s = 1 .. n
      /\ \A i \in 1 .. n : s[i] \in Addresses /\ s[i] # NULL
      /\ \A i, j \in 1 .. n : s[i] = s[j] => i = j
      /\ Range(s) = {s[i] : i \in 1 .. n}
      /\ s \in Seq(Addresses) /\ NoDuplicates(s)
  BY PathFacts, SMTT(60) DEF Path
<1>2. k \in Nat /\ k >= 1 /\ k <= n /\ n - 1 \in Nat
  BY <1>1
<1>3. /\ u \in Seq(Addresses) /\ NoDuplicates(u) /\ Elems(u) = Elems(s) \ {s[k]}
  BY <1>1, UnlinkedElems
<1>4. /\ DOMAIN u = 1 .. n - 1 /\ Len(u) = n - 1
      /\ \A i \in 1 .. n - 1 : u[i] = IF i < k THEN s[i] ELSE s[i + 1]
  <2>1. DOMAIN u = 1 .. n - 1 /\ \A i \in 1 .. n - 1 : u[i] = IF i < k THEN s[i] ELSE s[i + 1]
    BY DEF Unlinked
  <2>2. Len(u) = n - 1
    BY <1>2, <1>3, <2>1, LenProperties
  <2> QED
    BY <2>1, <2>2
<1>5. Range(u) = Range(s) \ {s[k]}
  BY <1>3 DEF Range, Elems
<1> HIDE DEF u
<1>6. \A i \in 0 .. n : At(u, i) = IF i < k THEN At(s, i) ELSE At(s, i + 1)
  <2> SUFFICES ASSUME NEW i \in 0 .. n
               PROVE  At(u, i) = IF i < k THEN At(s, i) ELSE At(s, i + 1)
    OBVIOUS
  <2>1. CASE i = 0
    <3>1. i \notin 1 .. Len(u) /\ i \notin 1 .. n /\ i < k
      BY <1>2, <1>4, <2>1
    <3> QED
      BY <3>1 DEF At
  <2>2. CASE i = n
    <3>1. i \notin 1 .. Len(u) /\ i + 1 \notin 1 .. n /\ ~(i < k)
      BY <1>1, <1>2, <1>4, <2>2
    <3> QED
      BY <3>1 DEF At
  <2>3. CASE i \in 1 .. n - 1
    <3>1. i \in 1 .. Len(u) /\ i \in 1 .. n /\ i + 1 \in 1 .. n
      BY <1>1, <1>4, <2>3
    <3> QED
      BY <1>4, <2>3, <3>1 DEF At
  <2>4. n \in Nat
    BY <1>1
  <2>5. i = 0 \/ i = n \/ i \in 1 .. n - 1
    BY <2>4
  <2> QED
    BY <2>1, <2>2, <2>3, <2>5
<1>7. ASSUME NEW i \in 1 .. n - 1
      PROVE  F2[u[i]] = At(u, i + 1) /\ G2[u[i]] = At(u, i - 1)
  <2>1. i \in Nat /\ i >= 1 /\ i <= n - 1 /\ i \in 1 .. n /\ i + 1 \in 1 .. n /\ n \in Nat
    BY <1>1
  <2>2. /\ At(u, i + 1) = IF i + 1 < k THEN At(s, i + 1) ELSE At(s, i + 1 + 1)
        /\ At(u, i - 1) = IF i - 1 < k THEN At(s, i - 1) ELSE At(s, i - 1 + 1)
    <3>1. i + 1 \in 0 .. n /\ i - 1 \in 0 .. n
      BY <2>1
    <3> QED
      BY <1>6, <3>1
  <2>3. CASE i < k
    <3>1. u[i] = s[i] /\ s[i] \in Range(s) \ {s[k]}
      BY <1>1, <1>2, <1>4, <2>1, <2>3
    <3>2. F[s[i]] = At(s, i + 1) /\ G[s[i]] = At(s, i - 1)
      BY <2>1 DEF Path
    <3>3. s[i] = At(s, k - 1) <=> i = k - 1
      <4>1. CASE k = 1
        BY <1>2, <2>1, <2>3, <4>1
      <4>2. CASE k # 1
        <5>1. k - 1 \in 1 .. n
          BY <1>1, <1>2, <4>2
        <5> QED
          BY <1>1, <2>1, <5>1 DEF At
      <4> QED
        BY <4>1, <4>2
    <3>4. s[i] # At(s, k + 1)
      <4>1. CASE k = n
        BY <1>1, <2>1, <4>1 DEF At
      <4>2. CASE k # n
        <5>1. k + 1 \in 1 .. n /\ i # k + 1
          BY <1>1, <1>2, <2>1, <2>3, <4>2
        <5> QED
          BY <1>1, <2>1, <5>1 DEF At
      <4> QED
        BY <4>1, <4>2
    <3>5. G2[u[i]] = At(u, i - 1)
      <4>1. i - 1 < k
        BY <1>2, <2>1, <2>3
      <4> QED
        BY <2>2, <3>1, <3>2, <3>4, <4>1
    <3>6. F2[u[i]] = At(u, i + 1)
      <4>1. CASE i = k - 1
        <5>1. ~(i + 1 < k) /\ i + 1 + 1 = k + 1
          BY <1>2, <2>1, <4>1
        <5> QED
          BY <2>2, <3>1, <3>3, <4>1, <5>1
      <4>2. CASE i # k - 1
        <5>1. i + 1 < k
          BY <1>2, <2>1, <2>3, <4>2
        <5> QED
          BY <2>2, <3>1, <3>2, <3>3, <4>2, <5>1
      <4> QED
        BY <4>1, <4>2
    <3> QED
      BY <3>5, <3>6
  <2>4. CASE ~(i < k)
    <3>0. k <= i /\ k - 1 # i + 1 /\ i + 1 # k
      BY <1>2, <2>1, <2>4
    <3>1. u[i] = s[i + 1] /\ s[i + 1] \in Range(s) \ {s[k]}
      BY <1>1, <1>2, <1>4, <2>1, <2>4, <3>0
    <3>2. F[s[i + 1]] = At(s, i + 1 + 1) /\ G[s[i + 1]] = At(s, i)
      BY <2>1 DEF Path
    <3>3. s[i + 1] = At(s, k + 1) <=> i = k
      <4>1. CASE k = n
        BY <2>1, <3>0, <4>1
      <4>2. CASE k # n
        <5>1. k + 1 \in 1 .. n
          BY <1>2, <2>1, <4>2
        <5> QED
          BY <1>1, <1>2, <2>1, <5>1 DEF At
      <4> QED
        BY <4>1, <4>2
    <3>4. s[i + 1] # At(s, k - 1)
      <4>1. CASE k = 1
        BY <1>1, <2>1, <4>1 DEF At
      <4>2. CASE k # 1
        <5>1. k - 1 \in 1 .. n
          BY <1>1, <1>2, <4>2
        <5> QED
          BY <1>1, <2>1, <3>0, <5>1 DEF At
      <4> QED
        BY <4>1, <4>2
    <3>5. F2[u[i]] = At(u, i + 1)
      <4>1. ~(i + 1 < k)
        BY <1>2, <2>1, <3>0
      <4> QED
        BY <2>2, <3>1, <3>2, <3>4, <4>1
    <3>6. G2[u[i]] = At(u, i - 1)
      <4>1. CASE i = k
        <5>1. i - 1 < k
          BY <1>2, <4>1
        <5> QED
          BY <2>2, <3>1, <3>3, <4>1, <5>1
      <4>2. CASE i # k
        <5>1. ~(i - 1 < k) /\ i - 1 + 1 = i
          BY <1>2, <2>1, <3>0, <4>2
        <5> QED
          BY <2>2, <3>1, <3>2, <3>3, <4>2, <5>1
      <4> QED
        BY <4>1, <4>2
    <3> QED
      BY <3>5, <3>6
  <2> QED
    BY <2>3, <2>4
<1>8. At(u, 1) = IF k = 1 THEN At(s, 2) ELSE first
  <2>1. 1 \in 0 .. n
    BY <1>1, <1>2
  <2>2. 1 < k <=> k # 1
    BY <1>2
  <2> QED
    BY <1>6, <2>1, <2>2 DEF Path
<1> QED
  BY <1>3, <1>4, <1>5, <1>7, <1>8 DEF Path, u

(* A bucket is put where another was. *)
LEMMA PathReplace ==
  ASSUME NEW s, NEW first, NEW F, NEW G, Path(s, first, F, G),
         NEW k \in 1 .. Len(s), NEW a \in Addresses, a \notin Range(s),
         NEW F2, NEW G2, F2[a] = F[s[k]], G2[a] = G[s[k]],
         \A q \in Range(s) \ {s[k]} :
            /\ F2[q] = IF q = At(s, k - 1) THEN a ELSE F[q]
            /\ G2[q] = IF q = At(s, k + 1) THEN a ELSE G[q]
  PROVE  /\ Path([s EXCEPT ![k] = a], IF k = 1 THEN a ELSE first, F2, G2)
         /\ Range([s EXCEPT ![k] = a]) = (Range(s) \ {s[k]}) \cup {a}
<1> DEFINE n == Len(s)
           u == [s EXCEPT ![k] = a]
<1>0. n \in Nat
  BY PathFacts
<1>1. /\ DOMAIN s = 1 .. n
      /\ \A i \in 1 .. n : s[i] \in Addresses /\ s[i] # NULL
      /\ \A i, j \in 1 .. n : s[i] = s[j] => i = j
      /\ Range(s) = {s[i] : i \in 1 .. n}
  BY PathFacts
<1>a. s \in Seq(Addresses)
  BY DEF Path
<1>2. /\ DOMAIN u = 1 .. n /\ u \in Seq(Addresses)
      /\ \A i \in 1 .. n : u[i] = IF i = k THEN a ELSE s[i]
  BY <1>0, <1>1, <1>a
<1>3. Len(u) = n
  BY <1>0, <1>2, LenProperties
<1> HIDE DEF u
<1>4. NoDuplicates(u)
  BY <1>1, <1>2 DEF NoDuplicates
<1>5. Range(u) = (Range(s) \ {s[k]}) \cup {a}
  BY <1>1, <1>2 DEF Range
<1>6. \A i \in Int : At(u, i) = IF i = k THEN a ELSE At(s, i)
  BY <1>2, <1>3 DEF At
<1>7. At(u, 1) = IF k = 1 THEN a ELSE first
  BY <1>6 DEF Path
<1>8. ASSUME NEW i \in 1 .. n
      PROVE  F2[u[i]] = At(u, i + 1) /\ G2[u[i]] = At(u, i - 1)
  <2>0. i \in Int /\ k \in Int /\ i + 1 \in Int /\ i - 1 \in Int /\ k + 1 \in Int /\ k - 1 \in Int
    BY <1>0
  <2>1. F[s[i]] = At(s, i + 1) /\ G[s[i]] = At(s, i - 1)
    BY DEF Path
  <2>2. CASE i = k
    <3>1. i + 1 # k /\ i - 1 # k
      BY <2>0, <2>2
    <3> QED
      BY <1>2, <1>6, <2>0, <2>1, <2>2, <3>1
  <2>3. CASE i # k
    <3>1. u[i] = s[i] /\ s[i] \in Range(s) \ {s[k]}
      BY <1>1, <1>2, <2>3
    <3>2. s[i] = At(s, k - 1) <=> i + 1 = k
      <4>1. CASE k - 1 \in 1 .. n
        BY <1>1, <2>0, <4>1 DEF At
      <4>2. CASE k - 1 \notin 1 .. n
        <5>1. i + 1 # k
          BY <2>0, <4>2
        <5> QED
          BY <1>1, <4>2, <5>1 DEF At
      <4> QED
        BY <4>1, <4>2
    <3>3. s[i] = At(s, k + 1) <=> i - 1 = k
      <4>1. CASE k + 1 \in 1 .. n
        BY <1>1, <2>0, <4>1 DEF At
      <4>2. CASE k + 1 \notin 1 .. n
        <5>1. i - 1 # k
          BY <2>0, <4>2
        <5> QED
          BY <1>1, <4>2, <5>1 DEF At
      <4> QED
        BY <4>1, <4>2
    <3>4. /\ F2[s[i]] = IF i + 1 = k THEN a ELSE At(s, i + 1)
          /\ G2[s[i]] = IF i - 1 = k THEN a ELSE At(s, i - 1)
      BY <2>1, <3>1, <3>2, <3>3
    <3>5. /\ At(u, i + 1) = IF i + 1 = k THEN a ELSE At(s, i + 1)
          /\ At(u, i - 1) = IF i - 1 = k THEN a ELSE At(s, i - 1)
      BY <1>6, <2>0
    <3> QED
      BY <3>1, <3>4, <3>5
  <2> QED
    BY <2>2, <2>3
<1> QED
  BY <1>2, <1>3, <1>4, <1>5, <1>7, <1>8 DEF Path, u

-----------------------------------------------------------------------------
(* What is left of a sequence from entry k on. *)
Rest(s, k) == SubSeq(s, k, Len(s))

(* A rest is its first entry and the next rest. *)
LEMMA RestIs ==
  ASSUME NEW s \in Seq(Addresses)
  PROVE  /\ Rest(s, 1) = s /\ Rest(s, Len(s) + 1) = <<>>
         /\ \A k \in 1 .. Len(s) : <<s[k]>> \o Rest(s, k + 1) = Rest(s, k)
<1> USE DEF Rest
<1>0. Len(s) \in Nat
  OBVIOUS
<1>1. Rest(s, 1) = s /\ Rest(s, Len(s) + 1) = <<>>
  OBVIOUS
<1>2. ASSUME NEW k \in 1 .. Len(s)
      PROVE  <<s[k]>> \o Rest(s, k + 1) = Rest(s, k)
  OBVIOUS
<1> QED
  BY <1>1, <1>2

Fields == {"next", "last", "listNext", "listLast"}
Heaps == [Addresses -> Buckets \cup {NULL}]

(* The fields of a bucket, by name and as Along reads them. *)
LEMMA BucketFacts ==
  ASSUME NEW r \in Buckets
  PROVE  /\ r # NULL /\ r.key \in Keys /\ r.data \in Values
         /\ r.next \in Pointers /\ r.last \in Pointers
         /\ r.listNext \in Pointers /\ r.listLast \in Pointers
         /\ r["next"] = r.next /\ r["last"] = r.last
         /\ r["listNext"] = r.listNext /\ r["listLast"] = r.listLast
         /\ \A f \in Fields : r[f] \in Pointers
BY HashAssumption DEF Buckets, Fields

(* Along finds the sequence that is there. *)
LEMMA AlongIs ==
  ASSUME NEW t, t.bucket \in Heaps, NEW field \in Fields,
         NEW s, NEW first, NEW F, NEW G, Path(s, first, F, G),
         \A q \in Range(s) : t.bucket[q] # NULL /\ F[q] = t.bucket[q][field]
  PROVE  Along(t, first, field) = s
<1> DEFINE N == Cardinality(Addresses)
           D == [Pointers -> Seq(Addresses)]
           Out(q, n) == q = NULL \/ n = 0 \/ t.bucket[q] = NULL
           Step(n, g) == [q \in Pointers |->
                            IF Out(q, n) THEN << >>
                            ELSE <<q>> \o g[t.bucket[q][field]]]
           step == [x \in (1 .. N) \X D |-> Step(x[1], x[2])]
           base == [q \in Pointers |-> << >>]
           Is(g) == g = [n \in 0 .. N |->
                           [q \in Pointers |->
                              IF Out(q, n) THEN << >>
                              ELSE <<q>> \o g[n - 1][t.bucket[q][field]]]]
           h == CHOOSE g : Is(g)
           L == Len(s)
<1>0. L \in Nat /\ DOMAIN s = 1 .. L /\ s \in Seq(Addresses)
      /\ \A i \in 1 .. L : s[i] \in Addresses /\ s[i] # NULL /\ s[i] \in Range(s)
  <2>1. s \in Seq(Addresses)
    BY DEF Path
  <2> QED
    BY <2>1, PathFacts
<1>1. N \in Nat /\ IsFiniteSet(Addresses)
  BY HashAssumption, FS_CardinalityType
<1>2. L <= N
  <2>1. s \in [1 .. L -> Addresses]
    BY <1>0
  <2>2. \A i, j \in DOMAIN s : s[i] = s[j] => i = j
    BY DEF Path, NoDuplicates
  <2>3. s \in Injection(1 .. L, Addresses)
    BY <1>0, <2>1, <2>2 DEF Injection, IsInjective
  <2>4. Cardinality(1 .. L) <= N
    BY <1>1, <2>3, FS_Injection
  <2>5. Cardinality(1 .. L) = L
    <3>1. L \in Nat
      BY <1>0
    <3> HIDE DEF L
    <3> QED
      BY <3>1, FS_Interval
  <2> QED
    BY <2>4, <2>5
<1>3. \A q \in Addresses : t.bucket[q] # NULL => t.bucket[q][field] \in Pointers
  <2>1. \A q \in Addresses : t.bucket[q] # NULL => t.bucket[q] \in Buckets
    BY DEF Heaps
  <2> QED
    BY <2>1, BucketFacts
<1>4. ASSUME NEW n \in Nat, NEW g \in D
      PROVE  Step(n, g) \in D
  <2> SUFFICES ASSUME NEW q \in Pointers, ~Out(q, n)
               PROVE  <<q>> \o g[t.bucket[q][field]] \in Seq(Addresses)
    OBVIOUS
  <2>1. q \in Addresses /\ t.bucket[q][field] \in Pointers
    BY <1>3 DEF Pointers
  <2>2. g[t.bucket[q][field]] \in Seq(Addresses)
    BY <2>1
  <2> QED
    BY <2>1, <2>2
<1>5. \E f \in [0 .. N -> D] : Recursion(f, N, base, step)
  <2>1. base \in D
    OBVIOUS
  <2>2. step \in [(1 .. N) \X D -> D]
    <3> HIDE DEF D, Step
    <3>1. \A n \in 1 .. N : n \in Nat
      BY <1>1
    <3> QED
      BY <1>4, <3>1
  <2> HIDE DEF N, D, base, step
  <2> QED
    BY <1>1, <2>1, <2>2, PrimitiveRecursion
<1>6. PICK g \in [0 .. N -> D] :
        g[0] = base /\ \A n \in 1 .. N : g[n] = step[<<n, g[n - 1]>>]
  <2> HIDE DEF N, D, base, step
  <2> QED
    BY <1>5 DEF Recursion
<1>7. Is(g)
  <2>1. ASSUME NEW n \in 0 .. N
        PROVE  g[n] = [q \in Pointers |-> IF Out(q, n) THEN << >>
                                          ELSE <<q>> \o g[n - 1][t.bucket[q][field]]]
    <3>1. CASE n = 0
      BY <1>6, <3>1
    <3>2. CASE n # 0
      <4>1. n \in 1 .. N /\ n - 1 \in 0 .. N
        BY <1>1, <3>2
      <4>2. g[n - 1] \in D
        BY <4>1
      <4>3. step[<<n, g[n - 1]>>] = Step(n, g[n - 1])
        <5> HIDE DEF D, Step
        <5> QED
          BY <4>1, <4>2, SMTT(60)
      <4>4. g[n] = Step(n, g[n - 1])
        BY <1>6, <4>1, <4>3, Zenon
      <4> QED
        BY <4>4
    <3> QED
      BY <3>1, <3>2
  <2>2. g = [n \in 0 .. N |-> g[n]]
    OBVIOUS
  <2> QED
    BY <2>1, <2>2
<1>8. Is(h)
  BY <1>7, Zenon
<1>9. Along(t, first, field) = h[N][first]
  BY DEF Along
<1> HIDE DEF h
<1>10. ASSUME NEW n \in 0 .. N, NEW q \in Pointers
       PROVE  h[n][q] = IF Out(q, n) THEN << >> ELSE <<q>> \o h[n - 1][t.bucket[q][field]]
  <2>1. h[n] = [p \in Pointers |-> IF Out(p, n) THEN << >>
                                     ELSE <<p>> \o h[n - 1][t.bucket[p][field]]]
    <3> HIDE DEF N, Out
    <3> QED
      BY <1>8
  <2> HIDE DEF N, Out
  <2> QED
    BY <2>1, SMTT(60)
<1> DEFINE Good(m) == \A n \in m .. N : h[n][At(s, L - m + 1)] = Rest(s, L - m + 1)
           T == {m \in 0 .. L : Good(m)}
<1>11. 0 \in T
  <2>1. At(s, L + 1) = NULL /\ Rest(s, L + 1) = << >>
    BY <1>0, RestIs, PathFacts
  <2>2. \A n \in 0 .. N : h[n][NULL] = << >>
    BY <1>10 DEF Pointers
  <2>3. L - 0 + 1 = L + 1 /\ 0 \in 0 .. L
    BY <1>0
  <2> HIDE DEF L, N
  <2> QED
    BY <2>1, <2>2, <2>3
<1>12. ASSUME NEW m \in 1 .. L, m - 1 \in T
       PROVE  m \in T
  <2> DEFINE k == L - m + 1
  <2>1. k \in 1 .. L /\ L - (m - 1) + 1 = k + 1 /\ m \in 0 .. L
    BY <1>0
  <2> SUFFICES ASSUME NEW n \in m .. N
               PROVE  h[n][At(s, k)] = Rest(s, k)
    BY <2>1
  <2>2. n \in 0 .. N /\ n # 0 /\ n - 1 \in m - 1 .. N
    BY <1>0, <1>1
  <2>3. h[n - 1][At(s, L - (m - 1) + 1)] = Rest(s, L - (m - 1) + 1)
    BY <1>12, <2>2
  <2>4. h[n - 1][At(s, k + 1)] = Rest(s, k + 1)
    BY <2>1, <2>3
  <2> HIDE DEF k
  <2>5. At(s, k) = s[k] /\ s[k] \in Addresses /\ s[k] # NULL /\ s[k] \in Range(s)
    BY <1>0, <2>1 DEF At
  <2>6. t.bucket[s[k]] # NULL /\ t.bucket[s[k]][field] = At(s, k + 1)
    BY <2>1, <2>5 DEF Path
  <2>7. h[n][s[k]] = <<s[k]>> \o h[n - 1][t.bucket[s[k]][field]]
    BY <1>10, <2>2, <2>5, <2>6 DEF Pointers
  <2>8. <<s[k]>> \o Rest(s, k + 1) = Rest(s, k)
    BY <1>0, <2>1, RestIs
  <2> QED
    BY <2>4, <2>5, <2>6, <2>7, <2>8
<1>13. T = 0 .. L
  <2> HIDE DEF Good, L
  <2> QED
    BY <1>0, <1>11, <1>12, Climb
<1>14. h[N][At(s, 1)] = Rest(s, 1)
  <2>1. L \in T /\ N \in L .. N /\ L - L + 1 = 1
    BY <1>0, <1>1, <1>2, <1>13
  <2> QED
    BY <2>1
<1> QED
  BY <1>0, <1>9, <1>14, RestIs DEF Path

-----------------------------------------------------------------------------
(* What a write through a pointer leaves. *)
LEMMA PutIs ==
  ASSUME NEW heap \in Heaps, NEW p \in Pointers, p # NULL => heap[p] # NULL,
         NEW field \in Fields, NEW x \in Pointers, NEW h, h = Put(heap, p, field, x)
  PROVE  /\ h \in Heaps
         /\ \A q \in Addresses : h[q] = NULL <=> heap[q] = NULL
         /\ \A q \in Addresses : heap[q] # NULL =>
              /\ h[q].key = heap[q].key /\ h[q].data = heap[q].data
              /\ h[q].next = IF q = p /\ field = "next" THEN x ELSE heap[q].next
              /\ h[q].last = IF q = p /\ field = "last" THEN x ELSE heap[q].last
              /\ h[q].listNext = IF q = p /\ field = "listNext" THEN x ELSE heap[q].listNext
              /\ h[q].listLast = IF q = p /\ field = "listLast" THEN x ELSE heap[q].listLast
<1>1. CASE p = NULL
  <2>1. h = heap /\ \A q \in Addresses : q # p
    BY <1>1, HashAssumption DEF Put
  <2> QED
    BY <2>1
<1>2. CASE p # NULL
  <2>1. p \in Addresses /\ heap[p] \in Buckets /\ NULL \notin Buckets
    BY <1>2, HashAssumption DEF Pointers, Heaps
  <2> DEFINE r == [heap[p] EXCEPT ![field] = x]
  <2>2. h = [heap EXCEPT ![p] = r]
    BY <1>2 DEF Put
  <2>3. /\ r \in Buckets /\ r.key = heap[p].key /\ r.data = heap[p].data
        /\ r.next = IF field = "next" THEN x ELSE heap[p].next
        /\ r.last = IF field = "last" THEN x ELSE heap[p].last
        /\ r.listNext = IF field = "listNext" THEN x ELSE heap[p].listNext
        /\ r.listLast = IF field = "listLast" THEN x ELSE heap[p].listLast
    <3>1. CASE field = "next"
      BY <2>1, <3>1 DEF Buckets
    <3>2. CASE field = "last"
      BY <2>1, <3>2 DEF Buckets
    <3>3. CASE field = "listNext"
      BY <2>1, <3>3 DEF Buckets
    <3>4. CASE field = "listLast"
      BY <2>1, <3>4 DEF Buckets
    <3> QED
      BY <3>1, <3>2, <3>3, <3>4 DEF Fields
  <2> HIDE DEF r
  <2>4. h \in Heaps /\ h[p] = r /\ \A q \in Addresses \ {p} : h[q] = heap[q]
    BY <2>1, <2>2, <2>3 DEF Heaps
  <2>5. ASSUME NEW q \in Addresses
        PROVE  h[q] = NULL <=> heap[q] = NULL
    BY <2>1, <2>3, <2>4
  <2> QED
    BY <2>1, <2>3, <2>4, <2>5
<1> QED
  BY <1>1, <1>2

(* The four fields that Put writes, one by one. *)
LEMMA PutNext ==
  ASSUME NEW heap \in Heaps, NEW p \in Pointers, p # NULL => heap[p] # NULL,
         NEW x \in Pointers, NEW h, h = Put(heap, p, "next", x)
  PROVE  /\ h \in Heaps
         /\ \A q \in Addresses : h[q] = NULL <=> heap[q] = NULL
         /\ \A q \in Addresses : heap[q] # NULL =>
              /\ h[q].key = heap[q].key /\ h[q].data = heap[q].data
              /\ h[q].next = IF q = p THEN x ELSE heap[q].next
              /\ h[q].last = heap[q].last
              /\ h[q].listNext = heap[q].listNext
              /\ h[q].listLast = heap[q].listLast
<1>1. "next" \in Fields
  BY DEF Fields
<1> QED
  BY <1>1, PutIs

LEMMA PutLast ==
  ASSUME NEW heap \in Heaps, NEW p \in Pointers, p # NULL => heap[p] # NULL,
         NEW x \in Pointers, NEW h, h = Put(heap, p, "last", x)
  PROVE  /\ h \in Heaps
         /\ \A q \in Addresses : h[q] = NULL <=> heap[q] = NULL
         /\ \A q \in Addresses : heap[q] # NULL =>
              /\ h[q].key = heap[q].key /\ h[q].data = heap[q].data
              /\ h[q].next = heap[q].next
              /\ h[q].last = IF q = p THEN x ELSE heap[q].last
              /\ h[q].listNext = heap[q].listNext
              /\ h[q].listLast = heap[q].listLast
<1>1. "last" \in Fields
  BY DEF Fields
<1> QED
  BY <1>1, PutIs

LEMMA PutListNext ==
  ASSUME NEW heap \in Heaps, NEW p \in Pointers, p # NULL => heap[p] # NULL,
         NEW x \in Pointers, NEW h, h = Put(heap, p, "listNext", x)
  PROVE  /\ h \in Heaps
         /\ \A q \in Addresses : h[q] = NULL <=> heap[q] = NULL
         /\ \A q \in Addresses : heap[q] # NULL =>
              /\ h[q].key = heap[q].key /\ h[q].data = heap[q].data
              /\ h[q].next = heap[q].next
              /\ h[q].last = heap[q].last
              /\ h[q].listNext = IF q = p THEN x ELSE heap[q].listNext
              /\ h[q].listLast = heap[q].listLast
<1>1. "listNext" \in Fields
  BY DEF Fields
<1> QED
  BY <1>1, PutIs

LEMMA PutListLast ==
  ASSUME NEW heap \in Heaps, NEW p \in Pointers, p # NULL => heap[p] # NULL,
         NEW x \in Pointers, NEW h, h = Put(heap, p, "listLast", x)
  PROVE  /\ h \in Heaps
         /\ \A q \in Addresses : h[q] = NULL <=> heap[q] = NULL
         /\ \A q \in Addresses : heap[q] # NULL =>
              /\ h[q].key = heap[q].key /\ h[q].data = heap[q].data
              /\ h[q].next = heap[q].next
              /\ h[q].last = heap[q].last
              /\ h[q].listNext = heap[q].listNext
              /\ h[q].listLast = IF q = p THEN x ELSE heap[q].listLast
<1>1. "listLast" \in Fields
  BY DEF Fields
<1> QED
  BY <1>1, PutIs

(* The slot of a key is one of the table. *)
LEMMA SlotIs ==
  ASSUME NEW n \in Nat \ {0}, NEW t \in Tables(n), NEW key \in Keys
  PROVE  Slot(t, key.h) \in 0 .. n - 1 /\ Slot(t, key.h) = key.h % n
<1>1. t.size = n
  BY DEF Tables
<1>2. key.h \in Nat
  BY HashAssumption DEF Keys, Indexes
<1> QED
  BY <1>1, <1>2 DEF Slot

(* The fields of a table, its slots and its buckets. *)
LEMMA TableFacts ==
  ASSUME NEW n \in Nat \ {0}, NEW t \in Tables(n)
  PROVE  /\ t.bucket \in Heaps /\ t.buckets \in [0 .. n - 1 -> Pointers] /\ t.size = n
         /\ t.head \in Pointers /\ t.tail \in Pointers /\ t.cursor \in Pointers
         /\ t.count \in Nat /\ t.next \in 0 .. Word - 1
         /\ Live(t) \subseteq Addresses
         /\ \A q \in Live(t) :
              /\ q \in Addresses /\ q # NULL /\ t.bucket[q] \in Buckets
              /\ t.bucket[q].key \in Keys
              /\ t.bucket[q].next \in Pointers /\ t.bucket[q].last \in Pointers
              /\ t.bucket[q].listNext \in Pointers /\ t.bucket[q].listLast \in Pointers
         /\ \A q \in Addresses : t.bucket[q] # NULL <=> q \in Live(t)
<1>1. t.bucket \in Heaps /\ NULL \notin Addresses
  BY HashAssumption DEF Tables, Heaps
<1>2. \A q \in Live(t) : q \in Addresses /\ t.bucket[q] \in Buckets
  BY <1>1 DEF Live, Heaps
<1> QED
  BY <1>1, <1>2, BucketFacts DEF Tables, Live

(* Writes of the two macros: the bucket, and its neighbour if it has one. *)
LEMMA ChainHeap ==
  ASSUME NEW heap \in Heaps, NEW b \in Addresses, heap[b] # NULL,
         NEW o \in Pointers, o # NULL => heap[o] # NULL, o # b,
         NEW g, g = Put(Put(Put(heap, o, "last", b), b, "next", o), b, "last", NULL)
  PROVE  /\ g \in Heaps
         /\ \A q \in Addresses : g[q] = NULL <=> heap[q] = NULL
         /\ \A q \in Addresses : heap[q] # NULL =>
              /\ g[q].key = heap[q].key /\ g[q].data = heap[q].data
              /\ g[q].next = IF q = b THEN o ELSE heap[q].next
              /\ g[q].last = IF q = b THEN NULL ELSE IF q = o THEN b ELSE heap[q].last
              /\ g[q].listNext = heap[q].listNext
              /\ g[q].listLast = heap[q].listLast
<1>1. b \in Pointers /\ NULL \in Pointers
  BY DEF Pointers
<1>2. PICK h : h = Put(heap, o, "last", b)
  OBVIOUS
<1>3. /\ h \in Heaps
      /\ \A q \in Addresses : h[q] = NULL <=> heap[q] = NULL
      /\ \A q \in Addresses : heap[q] # NULL =>
           /\ h[q].key = heap[q].key /\ h[q].data = heap[q].data
           /\ h[q].next = heap[q].next
           /\ h[q].last = IF q = o THEN b ELSE heap[q].last
           /\ h[q].listNext = heap[q].listNext
           /\ h[q].listLast = heap[q].listLast
  BY <1>1, <1>2, PutLast
<1>4. PICK f : f = Put(h, b, "next", o)
  OBVIOUS
<1>5. /\ f \in Heaps
      /\ \A q \in Addresses : f[q] = NULL <=> h[q] = NULL
      /\ \A q \in Addresses : h[q] # NULL =>
           /\ f[q].key = h[q].key /\ f[q].data = h[q].data
           /\ f[q].next = IF q = b THEN o ELSE h[q].next
           /\ f[q].last = h[q].last
           /\ f[q].listNext = h[q].listNext
           /\ f[q].listLast = h[q].listLast
  <2>1. h \in Heaps /\ h[b] # NULL /\ b # NULL
    BY <1>3, HashAssumption
  <2> QED
    BY <1>1, <1>4, <2>1, PutNext, SMTT(60)
<1>6. /\ g \in Heaps
      /\ \A q \in Addresses : g[q] = NULL <=> f[q] = NULL
      /\ \A q \in Addresses : f[q] # NULL =>
           /\ g[q].key = f[q].key /\ g[q].data = f[q].data
           /\ g[q].next = f[q].next
           /\ g[q].last = IF q = b THEN NULL ELSE f[q].last
           /\ g[q].listNext = f[q].listNext
           /\ g[q].listLast = f[q].listLast
  <2>1. g = Put(f, b, "last", NULL)
    BY <1>2, <1>4
  <2> QED
    BY <1>1, <1>3, <1>5, <2>1, PutLast, SMTT(60)
<1> QED
  BY <1>3, <1>5, <1>6

(* The same for the list; each leaves the pointers of the other alone. *)
LEMMA ListHeap ==
  ASSUME NEW heap \in Heaps, NEW b \in Addresses, heap[b] # NULL,
         NEW o \in Pointers, o # NULL => heap[o] # NULL, o # b,
         NEW g, g = Put(Put(Put(heap, o, "listNext", b), b, "listLast", o), b, "listNext", NULL)
  PROVE  /\ g \in Heaps
         /\ \A q \in Addresses : g[q] = NULL <=> heap[q] = NULL
         /\ \A q \in Addresses : heap[q] # NULL =>
              /\ g[q].key = heap[q].key /\ g[q].data = heap[q].data
              /\ g[q].next = heap[q].next
              /\ g[q].last = heap[q].last
              /\ g[q].listNext = IF q = b THEN NULL ELSE IF q = o THEN b ELSE heap[q].listNext
              /\ g[q].listLast = IF q = b THEN o ELSE heap[q].listLast
<1>1. b \in Pointers /\ NULL \in Pointers
  BY DEF Pointers
<1>2. PICK h : h = Put(heap, o, "listNext", b)
  OBVIOUS
<1>3. /\ h \in Heaps
      /\ \A q \in Addresses : h[q] = NULL <=> heap[q] = NULL
      /\ \A q \in Addresses : heap[q] # NULL =>
           /\ h[q].key = heap[q].key /\ h[q].data = heap[q].data
           /\ h[q].next = heap[q].next
           /\ h[q].last = heap[q].last
           /\ h[q].listNext = IF q = o THEN b ELSE heap[q].listNext
           /\ h[q].listLast = heap[q].listLast
  BY <1>1, <1>2, PutListNext, SMTT(60)
<1>4. PICK f : f = Put(h, b, "listLast", o)
  OBVIOUS
<1>5. /\ f \in Heaps
      /\ \A q \in Addresses : f[q] = NULL <=> h[q] = NULL
      /\ \A q \in Addresses : h[q] # NULL =>
           /\ f[q].key = h[q].key /\ f[q].data = h[q].data
           /\ f[q].next = h[q].next
           /\ f[q].last = h[q].last
           /\ f[q].listNext = h[q].listNext
           /\ f[q].listLast = IF q = b THEN o ELSE h[q].listLast
  <2>1. h \in Heaps /\ h[b] # NULL /\ b # NULL
    BY <1>3, HashAssumption
  <2> QED
    BY <1>1, <1>4, <2>1, PutListLast, SMTT(60)
<1>6. /\ g \in Heaps
      /\ \A q \in Addresses : g[q] = NULL <=> f[q] = NULL
      /\ \A q \in Addresses : f[q] # NULL =>
           /\ g[q].key = f[q].key /\ g[q].data = f[q].data
           /\ g[q].next = f[q].next
           /\ g[q].last = f[q].last
           /\ g[q].listNext = IF q = b THEN NULL ELSE f[q].listNext
           /\ g[q].listLast = f[q].listLast
  <2>1. g = Put(f, b, "listNext", NULL)
    BY <1>2, <1>4
  <2> QED
    BY <1>1, <1>3, <1>5, <2>1, PutListNext, SMTT(60)
<1> QED
  BY <1>3, <1>5, <1>6

(* CONNECT_TO_BUCKET_LIST puts the bucket at the front of its chain. *)
LEMMA ConnectBucketIs ==
  ASSUME NEW n \in Nat \ {0}, NEW t \in Tables(n), NEW b \in Live(t),
         LET o == t.buckets[Slot(t, t.bucket[b].key.h)]
         IN (o # NULL => o \in Live(t)) /\ o # b,
         NEW u, u = ConnectToBucketList(t, b)
  PROVE  LET i == Slot(t, t.bucket[b].key.h)
             o == t.buckets[i]
         IN /\ u \in Tables(n) /\ Live(u) = Live(t)
            /\ u.buckets = [t.buckets EXCEPT ![i] = b]
            /\ u.head = t.head /\ u.tail = t.tail /\ u.cursor = t.cursor
            /\ u.count = t.count /\ u.next = t.next
            /\ \A q \in Live(t) :
                 /\ u.bucket[q].key = t.bucket[q].key /\ u.bucket[q].data = t.bucket[q].data
                 /\ u.bucket[q].next = IF q = b THEN o ELSE t.bucket[q].next
                 /\ u.bucket[q].last = IF q = b THEN NULL
                                       ELSE IF q = o THEN b ELSE t.bucket[q].last
                 /\ u.bucket[q].listNext = t.bucket[q].listNext
                 /\ u.bucket[q].listLast = t.bucket[q].listLast
<1> DEFINE i == Slot(t, t.bucket[b].key.h)
           o == t.buckets[i]
           heap == t.bucket
           g == Put(Put(Put(heap, o, "last", b), b, "next", o), b, "last", NULL)
           s == [t.buckets EXCEPT ![i] = b]
<1>1. /\ heap \in Heaps /\ t.buckets \in [0 .. n - 1 -> Pointers]
      /\ b \in Addresses /\ heap[b] # NULL
      /\ i \in 0 .. n - 1 /\ o \in Pointers /\ o # b
  BY TableFacts, SlotIs
<1>2. o # NULL => heap[o] # NULL
  BY TableFacts
<1>3. u = [t EXCEPT !.bucket = g, !.buckets = s]
  BY DEF ConnectToBucketList, KeyAt
<1>4. s \in [0 .. n - 1 -> Pointers]
  BY <1>1 DEF Pointers
<1> HIDE DEF o, heap, i
<1>5. g = Put(Put(Put(heap, o, "last", b), b, "next", o), b, "last", NULL)
  OBVIOUS
<1> HIDE DEF g, s
<1>6. /\ g \in Heaps
      /\ \A q \in Addresses : g[q] = NULL <=> heap[q] = NULL
      /\ \A q \in Addresses : heap[q] # NULL =>
           /\ g[q].key = heap[q].key /\ g[q].data = heap[q].data
           /\ g[q].next = IF q = b THEN o ELSE heap[q].next
           /\ g[q].last = IF q = b THEN NULL ELSE IF q = o THEN b ELSE heap[q].last
           /\ g[q].listNext = heap[q].listNext
           /\ g[q].listLast = heap[q].listLast
  BY <1>1, <1>2, <1>5, ChainHeap
<1>7. /\ u \in Tables(n) /\ u.bucket = g /\ u.buckets = s
      /\ u.head = t.head /\ u.tail = t.tail /\ u.cursor = t.cursor
      /\ u.count = t.count /\ u.next = t.next
  BY <1>3, <1>4, <1>6 DEF Tables, Heaps
<1>8. Live(u) = Live(t)
  BY <1>6, <1>7 DEF Live, heap
<1>9. \A q \in Live(t) : q \in Addresses /\ heap[q] # NULL
  BY DEF Live, heap
<1> QED
  BY <1>6, <1>7, <1>8, <1>9 DEF s, o, i, heap

(* CONNECT_TO_GLOBAL_LIST puts the bucket at the end of the list. *)
LEMMA ConnectGlobalIs ==
  ASSUME NEW n \in Nat \ {0}, NEW t \in Tables(n), NEW b \in Live(t),
         t.tail # NULL => t.tail \in Live(t), t.tail # b,
         NEW u, u = ConnectToGlobalList(t, b)
  PROVE  /\ u \in Tables(n) /\ Live(u) = Live(t)
         /\ u.buckets = t.buckets
         /\ u.head = (IF t.head = NULL THEN b ELSE t.head)
         /\ u.tail = b
         /\ u.cursor = (IF t.cursor = NULL THEN b ELSE t.cursor)
         /\ u.count = t.count /\ u.next = t.next
         /\ \A q \in Live(t) :
              /\ u.bucket[q].key = t.bucket[q].key /\ u.bucket[q].data = t.bucket[q].data
              /\ u.bucket[q].next = t.bucket[q].next
              /\ u.bucket[q].last = t.bucket[q].last
              /\ u.bucket[q].listNext = IF q = b THEN NULL
                                        ELSE IF q = t.tail THEN b ELSE t.bucket[q].listNext
              /\ u.bucket[q].listLast = IF q = b THEN t.tail ELSE t.bucket[q].listLast
<1> DEFINE o == t.tail
           heap == t.bucket
           g == Put(Put(Put(heap, o, "listNext", b), b, "listLast", o), b, "listNext", NULL)
<1>1. /\ heap \in Heaps /\ t.head \in Pointers /\ t.cursor \in Pointers
      /\ b \in Addresses /\ b \in Pointers /\ heap[b] # NULL /\ o \in Pointers /\ o # b
  BY TableFacts DEF Pointers
<1>2. o # NULL => heap[o] # NULL
  BY TableFacts
<1>3. u = [t EXCEPT !.bucket = g, !.tail = b, !.head = IF t.head = NULL THEN b ELSE t.head,
                    !.cursor = IF t.cursor = NULL THEN b ELSE t.cursor]
  BY DEF ConnectToGlobalList, Tables
<1> HIDE DEF o, heap
<1>5. g = Put(Put(Put(heap, o, "listNext", b), b, "listLast", o), b, "listNext", NULL)
  OBVIOUS
<1> HIDE DEF g
<1>6. /\ g \in Heaps
      /\ \A q \in Addresses : g[q] = NULL <=> heap[q] = NULL
      /\ \A q \in Addresses : heap[q] # NULL =>
           /\ g[q].key = heap[q].key /\ g[q].data = heap[q].data
           /\ g[q].next = heap[q].next
           /\ g[q].last = heap[q].last
           /\ g[q].listNext = IF q = b THEN NULL ELSE IF q = o THEN b ELSE heap[q].listNext
           /\ g[q].listLast = IF q = b THEN o ELSE heap[q].listLast
  BY <1>1, <1>2, <1>5, ListHeap
<1>7. /\ u \in Tables(n) /\ u.bucket = g /\ u.buckets = t.buckets
      /\ u.head = (IF t.head = NULL THEN b ELSE t.head)
      /\ u.tail = b
      /\ u.cursor = (IF t.cursor = NULL THEN b ELSE t.cursor)
      /\ u.count = t.count /\ u.next = t.next
  BY <1>1, <1>3, <1>6 DEF Tables, Heaps
<1>8. Live(u) = Live(t)
  BY <1>6, <1>7 DEF Live, heap
<1>9. \A q \in Live(t) : q \in Addresses /\ heap[q] # NULL
  BY DEF Live, heap
<1> QED
  BY <1>6, <1>7, <1>8, <1>9 DEF o, heap

-----------------------------------------------------------------------------
ChainNext(t) == [q \in Addresses |-> t.bucket[q].next]
ChainLast(t) == [q \in Addresses |-> t.bucket[q].last]
ListNext(t)  == [q \in Addresses |-> t.bucket[q].listNext]
ListLast(t)  == [q \in Addresses |-> t.bucket[q].listLast]

(* The list of t is L. *)
ListOn(t, L) ==
  /\ Path(L, t.head, ListNext(t), ListLast(t))
  /\ t.tail = At(L, Len(L))
  /\ Range(L) = Live(t)

InSlot(t, q) == Slot(t, t.bucket[q].key.h)

(* The chains of t are the C[i], and the buckets of M are in them. *)
ChainsOn(t, C, M) ==
  /\ C \in [0 .. t.size - 1 -> Seq(Addresses)] /\ M \subseteq Live(t)
  /\ \A i \in 0 .. t.size - 1 :
       /\ Path(C[i], t.buckets[i], ChainNext(t), ChainLast(t))
       /\ Range(C[i]) = {q \in M : InSlot(t, q) = i}

(* Both tables have the same elements in the same list. *)
Kept(u, t) ==
  /\ Live(u) = Live(t) /\ u.head = t.head /\ u.tail = t.tail
  /\ u.cursor = t.cursor /\ u.count = t.count /\ u.next = t.next
  /\ \A q \in Live(t) :
       /\ u.bucket[q].key = t.bucket[q].key /\ u.bucket[q].data = t.bucket[q].data
       /\ u.bucket[q].listNext = t.bucket[q].listNext
       /\ u.bucket[q].listLast = t.bucket[q].listLast

(* A table with the same elements in the same list has the same list. *)
LEMMA ListKept ==
  ASSUME NEW t, NEW u, NEW L, ListOn(t, L),
         Live(u) = Live(t), u.head = t.head, u.tail = t.tail,
         \A q \in Live(t) : /\ u.bucket[q].listNext = t.bucket[q].listNext
                            /\ u.bucket[q].listLast = t.bucket[q].listLast
  PROVE  ListOn(u, L)
<1>1. \A q \in Range(L) : ListNext(u)[q] = ListNext(t)[q] /\ ListLast(u)[q] = ListLast(t)[q]
  BY DEF ListOn, ListNext, ListLast, Live
<1>2. Path(L, t.head, ListNext(t), ListLast(t))
  BY DEF ListOn
<1> HIDE DEF ListOn
<1>3. Path(L, t.head, ListNext(u), ListLast(u))
  BY <1>1, <1>2, PathFrame
<1> QED
  BY <1>3 DEF ListOn

(* The entries of the list, and what its ends say. *)
LEMMA ListFacts ==
  ASSUME NEW t, NEW L, ListOn(t, L)
  PROVE  /\ Len(L) \in Nat /\ DOMAIN L = 1 .. Len(L) /\ L \in Seq(Addresses)
         /\ \A i \in 1 .. Len(L) : L[i] \in Live(t) /\ L[i] # NULL /\ t.bucket[L[i]] # NULL
         /\ \A i, j \in 1 .. Len(L) : L[i] = L[j] => i = j
         /\ \A q \in Live(t) : \E i \in 1 .. Len(L) : q = L[i]
         /\ \A i \in 1 .. Len(L) : /\ t.bucket[L[i]].listNext = At(L, i + 1)
                                   /\ t.bucket[L[i]].listLast = At(L, i - 1)
         /\ t.head = At(L, 1) /\ t.tail = At(L, Len(L))
         /\ Path(L, t.head, ListNext(t), ListLast(t))
         /\ Range(L) = Live(t) /\ Live(t) \subseteq Addresses
         /\ At(L, 0) = NULL /\ At(L, Len(L) + 1) = NULL
         /\ L = <<>> <=> Len(L) = 0
<1>1. Path(L, t.head, ListNext(t), ListLast(t)) /\ Range(L) = Live(t) /\ t.tail = At(L, Len(L))
  BY DEF ListOn
<1>2. /\ Len(L) \in Nat /\ DOMAIN L = 1 .. Len(L)
      /\ \A i \in 1 .. Len(L) : L[i] \in Addresses /\ L[i] # NULL
      /\ \A i, j \in 1 .. Len(L) : L[i] = L[j] => i = j
      /\ Range(L) = {L[i] : i \in 1 .. Len(L)}
      /\ At(L, 0) = NULL /\ At(L, Len(L) + 1) = NULL
      /\ L = <<>> <=> Len(L) = 0
  BY <1>1, PathFacts
<1>3. \A i \in 1 .. Len(L) : L[i] \in Live(t) /\ t.bucket[L[i]] # NULL
  BY <1>1, <1>2 DEF Live
<1>4. \A q \in Live(t) : \E i \in 1 .. Len(L) : q = L[i]
  BY <1>1, <1>2
<1>5. \A i \in 1 .. Len(L) : /\ t.bucket[L[i]].listNext = At(L, i + 1)
                             /\ t.bucket[L[i]].listLast = At(L, i - 1)
  BY <1>1, <1>2 DEF Path, ListNext, ListLast
<1>6. t.head = At(L, 1) /\ L \in Seq(Addresses)
  BY <1>1 DEF Path
<1>7. Live(t) \subseteq Addresses
  BY DEF Live
<1> QED
  BY <1>1, <1>2, <1>3, <1>4, <1>5, <1>6, <1>7

(* Every element has its place. *)
LEMMA OnList ==
  ASSUME NEW t, NEW L, ListOn(t, L)
  PROVE  \A q \in Live(t) : \E i \in 1 .. Len(L) : q = L[i]
<1>1. \A q \in Live(t) : \E i \in 1 .. Len(L) : q = L[i]
  BY ListFacts, SMTT(60)
<1> QED
  BY <1>1

(* The walk from the head meets the sequence that is the list. *)
LEMMA ListOfIs ==
  ASSUME NEW t, t.bucket \in Heaps, NEW L, ListOn(t, L)
  PROVE  ListOf(t) = L
<1>1. /\ Path(L, t.head, ListNext(t), ListLast(t)) /\ Range(L) = Live(t)
  BY DEF ListOn
<1>2. \A q \in Range(L) : t.bucket[q] # NULL /\ ListNext(t)[q] = t.bucket[q]["listNext"]
  <2>1. \A q \in Addresses : t.bucket[q] # NULL => t.bucket[q] \in Buckets
    BY DEF Heaps
  <2>2. \A q \in Live(t) : q \in Addresses /\ t.bucket[q] # NULL
    BY DEF Live
  <2> QED
    BY <1>1, <2>1, <2>2, BucketFacts DEF ListNext
<1>3. "listNext" \in Fields
  BY DEF Fields
<1>4. Along(t, t.head, "listNext") = L
  BY <1>1, <1>2, <1>3, AlongIs
<1> QED
  BY <1>4 DEF ListOf

(* The walk of a chain meets the sequence that is the chain. *)
LEMMA ChainIs ==
  ASSUME NEW t, t.bucket \in Heaps, NEW C, NEW M, ChainsOn(t, C, M), NEW i \in 0 .. t.size - 1
  PROVE  Chain(t, i) = C[i]
<1>1. /\ Path(C[i], t.buckets[i], ChainNext(t), ChainLast(t)) /\ Range(C[i]) \subseteq Live(t)
  BY DEF ChainsOn
<1>2. \A q \in Range(C[i]) : t.bucket[q] # NULL /\ ChainNext(t)[q] = t.bucket[q]["next"]
  <2>1. \A q \in Addresses : t.bucket[q] # NULL => t.bucket[q] \in Buckets
    BY DEF Heaps
  <2>2. \A q \in Live(t) : q \in Addresses /\ t.bucket[q] # NULL
    BY DEF Live
  <2> QED
    BY <1>1, <2>1, <2>2, BucketFacts DEF ChainNext
<1>3. "next" \in Fields
  BY DEF Fields
<1>4. Along(t, t.buckets[i], "next") = C[i]
  BY <1>1, <1>2, <1>3, AlongIs
<1> QED
  BY <1>4 DEF Chain

(* Whatever leaves keys and chain pointers of the buckets of M alone. *)
LEMMA ChainsKept ==
  ASSUME NEW t, NEW u, NEW C, NEW M, ChainsOn(t, C, M), M \subseteq Live(u),
         u.size = t.size, u.buckets = t.buckets,
         \A q \in M : /\ u.bucket[q].key = t.bucket[q].key
                      /\ u.bucket[q].next = t.bucket[q].next
                      /\ u.bucket[q].last = t.bucket[q].last
  PROVE  ChainsOn(u, C, M)
<1>1. C \in [0 .. u.size - 1 -> Seq(Addresses)] /\ M \subseteq Live(t) /\ M \subseteq Addresses
  BY DEF ChainsOn, Live
<1>2. \A q \in M : InSlot(u, q) = InSlot(t, q)
  BY DEF InSlot, Slot
<1>3. ASSUME NEW i \in 0 .. t.size - 1
      PROVE  /\ Path(C[i], u.buckets[i], ChainNext(u), ChainLast(u))
             /\ Range(C[i]) = {q \in M : InSlot(u, q) = i}
  <2>1. /\ Path(C[i], t.buckets[i], ChainNext(t), ChainLast(t))
        /\ Range(C[i]) = {q \in M : InSlot(t, q) = i}
    BY DEF ChainsOn
  <2>2. \A q \in Range(C[i]) : ChainNext(u)[q] = ChainNext(t)[q]
              /\ ChainLast(u)[q] = ChainLast(t)[q]
    BY <1>1, <2>1 DEF ChainNext, ChainLast
  <2>3. Path(C[i], t.buckets[i], ChainNext(u), ChainLast(u))
    BY <2>1, <2>2, PathFrame
  <2> QED
    BY <1>2, <2>1, <2>3
<1> QED
  BY <1>1, <1>3 DEF ChainsOn

(* Where the buckets of M are. *)
LEMMA ChainFacts ==
  ASSUME NEW n \in Nat \ {0}, NEW t \in Tables(n), NEW C, NEW M, ChainsOn(t, C, M)
  PROVE  /\ t.size = n /\ C \in [0 .. n - 1 -> Seq(Addresses)] /\ M \subseteq Live(t)
         /\ \A i \in 0 .. n - 1 :
              /\ Path(C[i], t.buckets[i], ChainNext(t), ChainLast(t))
              /\ \A q : q \in Range(C[i]) <=> q \in M /\ InSlot(t, q) = i
              /\ t.buckets[i] # NULL => t.buckets[i] \in M /\ InSlot(t, t.buckets[i]) = i
         /\ \A q \in Live(t) : InSlot(t, q) \in 0 .. n - 1
<1>1. /\ t.size = n /\ C \in [0 .. n - 1 -> Seq(Addresses)] /\ M \subseteq Live(t)
      /\ \A i \in 0 .. n - 1 :
           /\ Path(C[i], t.buckets[i], ChainNext(t), ChainLast(t))
           /\ Range(C[i]) = {q \in M : InSlot(t, q) = i}
  <2>1. t.size = n
    BY TableFacts
  <2> QED
    BY <2>1 DEF ChainsOn
<1>2. \A q \in Live(t) : InSlot(t, q) \in 0 .. n - 1
  BY TableFacts, SlotIs DEF InSlot
<1>3. ASSUME NEW i \in 0 .. n - 1, t.buckets[i] # NULL
      PROVE  t.buckets[i] \in Range(C[i])
  <2>1. Path(C[i], t.buckets[i], ChainNext(t), ChainLast(t))
    BY <1>1
  <2>2. t.buckets[i] = At(C[i], 1)
    BY <2>1 DEF Path
  <2>3. Len(C[i]) \in Nat /\ Range(C[i]) = {C[i][j] : j \in 1 .. Len(C[i])}
    BY <2>1, PathFacts
  <2> QED
    BY <1>3, <2>2, <2>3 DEF At
<1> QED
  BY <1>1, <1>2, <1>3

(* A bucket that is in no chain yet is connected. *)
LEMMA ChainsConnect ==
  ASSUME NEW n \in Nat \ {0}, NEW t \in Tables(n), NEW C, NEW M, ChainsOn(t, C, M),
         NEW b \in Live(t) \ M, NEW u, u = ConnectToBucketList(t, b)
  PROVE  /\ u \in Tables(n) /\ Kept(u, t)
         /\ \E D : ChainsOn(u, D, M \cup {b})
<1> DEFINE i == InSlot(t, b)
           o == t.buckets[i]
           D == [C EXCEPT ![i] = <<b>> \o C[i]]
<1>1. /\ t.size = n /\ C \in [0 .. n - 1 -> Seq(Addresses)] /\ M \subseteq Live(t)
      /\ \A j \in 0 .. n - 1 :
           /\ Path(C[j], t.buckets[j], ChainNext(t), ChainLast(t))
           /\ \A q : q \in Range(C[j]) <=> q \in M /\ InSlot(t, q) = j
           /\ t.buckets[j] # NULL => t.buckets[j] \in M /\ InSlot(t, t.buckets[j]) = j
      /\ \A q \in Live(t) : InSlot(t, q) \in 0 .. n - 1
  BY ChainFacts
<1>2. /\ i \in 0 .. n - 1 /\ b # NULL /\ b \in Addresses
      /\ o # NULL => o \in Live(t) /\ o \in M
      /\ o # b
      /\ t.buckets \in [0 .. n - 1 -> Pointers]
      /\ Live(t) \subseteq Addresses
  BY <1>1, TableFacts
<1>3. i = Slot(t, t.bucket[b].key.h)
  BY SMTT(60) DEF InSlot
<1>4. /\ u \in Tables(n) /\ Live(u) = Live(t)
      /\ u.buckets = [t.buckets EXCEPT ![i] = b]
      /\ u.head = t.head /\ u.tail = t.tail /\ u.cursor = t.cursor
      /\ u.count = t.count /\ u.next = t.next
      /\ \A q \in Live(t) :
           /\ u.bucket[q].key = t.bucket[q].key /\ u.bucket[q].data = t.bucket[q].data
           /\ u.bucket[q].next = IF q = b THEN o ELSE t.bucket[q].next
           /\ u.bucket[q].last = IF q = b THEN NULL
                                 ELSE IF q = o THEN b ELSE t.bucket[q].last
           /\ u.bucket[q].listNext = t.bucket[q].listNext
           /\ u.bucket[q].listLast = t.bucket[q].listLast
  BY <1>2, <1>3, ConnectBucketIs, SMTT(60)
<1>5. u.size = n
  BY <1>4, TableFacts
<1>6. Kept(u, t)
  BY <1>1, <1>4, <1>5 DEF Kept
<1>7. \A q \in Live(t) : InSlot(u, q) = InSlot(t, q)
  BY <1>1, <1>4, <1>5 DEF InSlot, Slot
<1> HIDE DEF i, o
<1>8. \A q \in Live(t) :
        /\ ChainNext(u)[q] = IF q = b THEN o ELSE ChainNext(t)[q]
        /\ ChainLast(u)[q] = IF q = b THEN NULL ELSE IF q = o THEN b ELSE ChainLast(t)[q]
  BY <1>2, <1>4 DEF ChainNext, ChainLast
<1>9. /\ Path(<<b>> \o C[i], b, ChainNext(u), ChainLast(u))
      /\ Range(<<b>> \o C[i]) = Range(C[i]) \cup {b}
  <2>1. Path(C[i], o, ChainNext(t), ChainLast(t)) /\ b \notin Range(C[i])
    BY <1>1, <1>2 DEF o
  <2>2. ChainNext(u)[b] = o /\ ChainLast(u)[b] = NULL
    BY <1>8
  <2>3. \A q \in Range(C[i]) : /\ ChainNext(u)[q] = ChainNext(t)[q]
                               /\ ChainLast(u)[q] = IF q = o THEN b ELSE ChainLast(t)[q]
    BY <1>1, <1>2, <1>8
  <2> QED
    BY <1>2, <2>1, <2>2, <2>3, PathPrepend
<1>10. ASSUME NEW j \in 0 .. n - 1
       PROVE  /\ D[j] \in Seq(Addresses)
              /\ Path(D[j], u.buckets[j], ChainNext(u), ChainLast(u))
              /\ Range(D[j]) = {q \in M \cup {b} : InSlot(u, q) = j}
  <2>1. CASE j = i
    <3>1. D[j] = <<b>> \o C[i] /\ u.buckets[j] = b
      BY <1>1, <1>2, <1>4, <2>1
    <3>2. Range(C[i]) = {q \in M : InSlot(t, q) = i}
      BY <1>1, <1>2
    <3>3. InSlot(u, b) = i
      BY <1>7 DEF i
    <3>4. Range(D[j]) = {q \in M \cup {b} : InSlot(u, q) = j}
      BY <1>1, <1>7, <1>9, <2>1, <3>1, <3>2, <3>3
    <3> QED
      BY <1>9, <2>1, <3>1, <3>4 DEF Path
  <2>2. CASE j # i
    <3>1. D[j] = C[j] /\ u.buckets[j] = t.buckets[j]
      BY <1>1, <1>2, <1>4, <2>2
    <3>2. /\ Path(C[j], t.buckets[j], ChainNext(t), ChainLast(t))
          /\ \A q : q \in Range(C[j]) <=> q \in M /\ InSlot(t, q) = j
      BY <1>1
    <3>3. o # NULL => o \notin Range(C[j])
      BY <1>1, <1>2, <2>2 DEF o
    <3>4. \A q \in Range(C[j]) : q \in Live(t) /\ q # b /\ q # NULL
      BY <1>1, <3>2, TableFacts
    <3>5. \A q \in Range(C[j]) : ChainNext(u)[q] = ChainNext(t)[q]
                /\ ChainLast(u)[q] = ChainLast(t)[q]
      BY <1>8, <3>3, <3>4
    <3>6. Path(C[j], t.buckets[j], ChainNext(u), ChainLast(u))
      BY <3>2, <3>5, PathFrame
    <3>7. InSlot(u, b) # j
      BY <1>7, <2>2 DEF i
    <3>8. Range(D[j]) = {q \in M \cup {b} : InSlot(u, q) = j}
      BY <1>1, <1>7, <3>1, <3>2, <3>7
    <3> QED
      BY <3>1, <3>6, <3>8 DEF Path
  <2> QED
    BY <2>1, <2>2
<1>11. ChainsOn(u, D, M \cup {b})
  <2>1. D \in [0 .. n - 1 -> Seq(Addresses)]
    BY <1>1, <1>10
  <2>2. M \cup {b} \subseteq Live(u)
    BY <1>1, <1>4
  <2> HIDE DEF D
  <2> QED
    BY <1>5, <1>10, <2>1, <2>2 DEF ChainsOn
<1> QED
  BY <1>4, <1>6, <1>11

-----------------------------------------------------------------------------
(* Types are all that ConnectToBucketList needs to leave types. *)
LEMMA ConnectTyped ==
  ASSUME NEW n \in Nat \ {0}, NEW t \in Tables(n), NEW b \in Live(t),
         \A i \in 0 .. n - 1 : t.buckets[i] \in Live(t) \cup {NULL},
         NEW u, u = ConnectToBucketList(t, b)
  PROVE  /\ u \in Tables(n) /\ Live(u) = Live(t)
         /\ \A i \in 0 .. n - 1 : u.buckets[i] \in Live(t) \cup {NULL}
<1> DEFINE i == Slot(t, t.bucket[b].key.h)
           o == t.buckets[i]
           heap == t.bucket
           s == [t.buckets EXCEPT ![i] = b]
<1>1. /\ heap \in Heaps /\ t.buckets \in [0 .. n - 1 -> Pointers]
      /\ b \in Addresses /\ heap[b] # NULL
      /\ i \in 0 .. n - 1 /\ o \in Pointers
      /\ b \in Pointers /\ NULL \in Pointers
      /\ {"last", "next"} \subseteq Fields
  BY TableFacts, SlotIs DEF Pointers, Fields
<1>2. o # NULL => heap[o] # NULL
  BY <1>1, TableFacts
<1>3. PICK h : h = Put(heap, o, "last", b)
  OBVIOUS
<1>4. PICK f : f = Put(h, b, "next", o)
  OBVIOUS
<1>5. PICK g : g = Put(f, b, "last", NULL)
  BY SMTT(60)
<1>6. u = [t EXCEPT !.bucket = g, !.buckets = s]
  BY <1>3, <1>4, <1>5 DEF ConnectToBucketList, KeyAt
<1> HIDE DEF i, o, heap, s
<1>7. h \in Heaps /\ \A q \in Addresses : h[q] = NULL <=> heap[q] = NULL
  BY <1>1, <1>2, <1>3, PutIs
<1>8. f \in Heaps /\ \A q \in Addresses : f[q] = NULL <=> heap[q] = NULL
  <2>1. h[b] # NULL
    BY <1>1, <1>7
  <2>2. f \in Heaps /\ \A q \in Addresses : f[q] = NULL <=> h[q] = NULL
    BY <1>1, <1>4, <1>7, <2>1, PutIs, SMTT(60)
  <2> QED
    BY <1>7, <2>2
<1>9. g \in Heaps /\ \A q \in Addresses : g[q] = NULL <=> heap[q] = NULL
  <2>1. f[b] # NULL
    BY <1>1, <1>8
  <2>2. g \in Heaps /\ \A q \in Addresses : g[q] = NULL <=> f[q] = NULL
    BY <1>1, <1>5, <1>8, <2>1, PutIs, SMTT(60)
  <2> QED
    BY <1>8, <2>2
<1>10. s \in [0 .. n - 1 -> Pointers] /\ \A j \in 0 .. n - 1 : s[j] \in Live(t) \cup {NULL}
  BY <1>1 DEF s
<1>11. u \in Tables(n) /\ u.bucket = g /\ u.buckets = s
  BY <1>6, <1>9, <1>10 DEF Tables, Heaps
<1>12. Live(u) = Live(t)
  BY <1>9, <1>11 DEF Live, heap
<1> QED
  BY <1>10, <1>11, <1>12

(* HashRefresh, whatever the chains were. *)
LEMMA RefreshIs ==
  ASSUME NEW n \in Nat \ {0}, NEW t, NEW w, w = [t EXCEPT !.buckets = EmptyBuckets(t.size)],
         w \in Tables(n), ListOf(t) \in Seq(Addresses), NEW L, ListOf(t) = L, ListOn(w, L),
         NEW u, u = HashRefresh(t)
  PROVE  /\ u \in Tables(n) /\ Kept(u, w)
         /\ \E D : ChainsOn(u, D, Live(w))
<1> DEFINE N == Len(L)
           T == {v \in Tables(n) : /\ Live(v) = Live(w)
                                   /\ \A i \in 0 .. n - 1 : v.buckets[i] \in Live(w) \cup {NULL}}
           step == [x \in (1 .. N) \X T |-> ConnectToBucketList(x[2], L[x[1]])]
           Is(g) == g = [m \in 0 .. N |-> IF m = 0 THEN w
                                          ELSE ConnectToBucketList(g[m - 1], L[m])]
           h == CHOOSE g : Is(g)
<1>1. /\ N \in Nat /\ \A m \in 1 .. N : L[m] \in Live(w)
      /\ \A i, j \in 1 .. N : L[i] = L[j] => i = j
      /\ \A q \in Live(w) : \E i \in 1 .. N : q = L[i]
      /\ Live(w) \subseteq Addresses
  BY ListFacts, SMTT(60)
<1>2. w.size = n /\ w.buckets = EmptyBuckets(n)
  BY TableFacts DEF Tables
<1>3. w \in T
  BY <1>2 DEF EmptyBuckets
<1>4. ASSUME NEW m \in 1 .. N, NEW v \in T
      PROVE  ConnectToBucketList(v, L[m]) \in T
  <2>1. v \in Tables(n) /\ L[m] \in Live(v)
              /\ \A i \in 0 .. n - 1 : v.buckets[i] \in Live(v) \cup {NULL}
    BY <1>1
  <2>2. PICK x : x = ConnectToBucketList(v, L[m])
    OBVIOUS
  <2>3. x \in Tables(n) /\ Live(x) = Live(v)
              /\ \A i \in 0 .. n - 1 : x.buckets[i] \in Live(v) \cup {NULL}
    BY <2>1, <2>2, ConnectTyped
  <2> QED
    BY <2>2, <2>3
<1>5. \E f \in [0 .. N -> T] : Recursion(f, N, w, step)
  <2>1. step \in [(1 .. N) \X T -> T]
    <3> HIDE DEF T, N
    <3> QED
      BY <1>4
  <2> HIDE DEF N, T, step
  <2> QED
    BY <1>1, <1>3, <2>1, PrimitiveRecursion
<1>6. PICK g \in [0 .. N -> T] :
        g[0] = w /\ \A m \in 1 .. N : g[m] = step[<<m, g[m - 1]>>]
  <2> HIDE DEF N, T, step
  <2> QED
    BY <1>5 DEF Recursion
<1>7. Is(g)
  <2>1. ASSUME NEW m \in 0 .. N
        PROVE  g[m] = IF m = 0 THEN w ELSE ConnectToBucketList(g[m - 1], L[m])
    <3>1. CASE m = 0
      BY <1>6, <3>1
    <3>2. CASE m # 0
      <4>1. m \in 1 .. N /\ m - 1 \in 0 .. N
        BY <1>1, <3>2
      <4>2. g[m - 1] \in T
        BY <4>1
      <4>3. step[<<m, g[m - 1]>>] = ConnectToBucketList(g[m - 1], L[m])
        <5> HIDE DEF T
        <5> QED
          BY <4>1, <4>2
      <4> QED
        BY <1>6, <3>2, <4>1, <4>3
    <3> QED
      BY <3>1, <3>2
  <2>2. g = [m \in 0 .. N |-> g[m]]
    OBVIOUS
  <2> QED
    BY <2>1, <2>2
<1>8. Is(h)
  BY <1>7
<1>9. u = h[N]
  BY DEF HashRefresh
<1> HIDE DEF h
<1>10. h[0] = w /\ \A m \in 1 .. N : h[m] = ConnectToBucketList(h[m - 1], L[m])
  <2>1. \A m \in 0 .. N : h[m] = IF m = 0 THEN w ELSE ConnectToBucketList(h[m - 1], L[m])
    <3> HIDE DEF N
    <3> QED
      BY <1>8
  <2>2. 0 \in 0 .. N /\ \A m \in 1 .. N : m \in 0 .. N /\ m # 0
    BY <1>1
  <2> QED
    BY <2>1, <2>2
<1> DEFINE Some(m) == {L[j] : j \in 1 .. m}
           Good(m) == /\ h[m] \in Tables(n) /\ Kept(h[m], w)
                      /\ \E D : ChainsOn(h[m], D, Some(m))
           S == {m \in 0 .. N : Good(m)}
<1>11. 0 \in S
  <2>1. Kept(w, w)
    BY DEF Kept
  <2> DEFINE D == [i \in 0 .. n - 1 |-> << >>]
  <2>2. Some(0) = {}
    OBVIOUS
  <2>3. ASSUME NEW i \in 0 .. n - 1
        PROVE  /\ D[i] = << >> /\ Path(<< >>, w.buckets[i], ChainNext(w), ChainLast(w))
               /\ Range(<< >>) = {}
    BY <1>2 DEF EmptyBuckets, Path, At, NoDuplicates, Range
  <2>4. D \in [0 .. n - 1 -> Seq(Addresses)]
    OBVIOUS
  <2>5. ChainsOn(w, D, {})
    <3> HIDE DEF D
    <3> QED
      BY <1>2, <2>3, <2>4 DEF ChainsOn
  <2>6. h[0] = w /\ w \in Tables(n) /\ 0 \in 0 .. N
    BY <1>1, <1>10
  <2> HIDE DEF N, D, Some
  <2>7. Good(0)
    BY <2>1, <2>2, <2>5, <2>6
  <2> QED
    BY <2>6, <2>7
<1>12. ASSUME NEW m \in 1 .. N, m - 1 \in S
       PROVE  m \in S
  <2> DEFINE v == h[m - 1]
             b == L[m]
  <2>1. v \in Tables(n) /\ Kept(v, w) /\ \E D : ChainsOn(v, D, Some(m - 1))
    BY <1>12
  <2>2. PICK D : ChainsOn(v, D, Some(m - 1))
    BY <2>1
  <2>3. b \in Live(v) \ Some(m - 1)
    <3>1. b \in Live(v)
      BY <1>1, <2>1 DEF Kept
    <3>2. \A j \in 1 .. m - 1 : j \in 1 .. N /\ j # m
      BY <1>1
    <3> QED
      BY <1>1, <3>1, <3>2
  <2>4. h[m] = ConnectToBucketList(v, b)
    BY <1>10
  <2>5. Some(m) = Some(m - 1) \cup {b}
    <3>1. \A j \in 1 .. m : j = m \/ j \in 1 .. m - 1
      BY <1>1
    <3>2. m \in 1 .. m /\ \A j \in 1 .. m - 1 : j \in 1 .. m
      BY <1>1
    <3> QED
      BY <3>1, <3>2
  <2> HIDE DEF v, b, Some
  <2>6. /\ h[m] \in Tables(n) /\ Kept(h[m], v)
        /\ \E E : ChainsOn(h[m], E, Some(m - 1) \cup {b})
    BY <2>1, <2>2, <2>3, <2>4, ChainsConnect
  <2>7. Kept(h[m], w)
    <3> DEFINE x == h[m]
    <3>1. Kept(x, v) /\ Kept(v, w)
      BY <2>1, <2>6
    <3> HIDE DEF x
    <3>2. Kept(x, w)
      BY <3>1, SMTT(60) DEF Kept
    <3> QED
      BY <3>2 DEF x
  <2>8. Good(m)
    BY <2>5, <2>6, <2>7
  <2> QED
    BY <1>1, <2>8
<1>13. S = 0 .. N
  <2> HIDE DEF Good, N
  <2> QED
    BY <1>1, <1>11, <1>12, Climb
<1>14. Good(N)
  <2>1. N \in 0 .. N
    BY <1>1
  <2> HIDE DEF Good
  <2> QED
    BY <1>13, <2>1
<1>15. Some(N) = Live(w)
  <2> HIDE DEF N
  <2> QED
    BY <1>1, ZenonT(60)
<1> QED
  BY <1>9, <1>14, <1>15

(* HashDoResize leaves an element where the list has it, and moves it to the
   chain of its new slot. *)
LEMMA ResizeIs ==
  ASSUME NEW n \in Nat \ {0}, NEW t \in Tables(n), NEW L, ListOn(t, L),
         NEW C, ChainsOn(t, C, Live(t)), NEW u \in HashDoResize(t)
  PROVE  /\ u.size \in Nat \ {0} /\ u \in Tables(u.size) /\ Kept(u, t)
         /\ \E D : ChainsOn(u, D, Live(u))
<1>1. t.size = n
  BY TableFacts
<1>2. CASE u = t
  BY <1>1, <1>2 DEF Kept
<1>3. CASE u = HashRefresh([t EXCEPT !.size = @ * 2])
  <2> DEFINE m == n * 2
             v == [t EXCEPT !.size = @ * 2]
             w == [v EXCEPT !.buckets = EmptyBuckets(v.size)]
  <2>1. m \in Nat \ {0}
    OBVIOUS
  <2>2. /\ v.bucket = t.bucket /\ v.head = t.head /\ v.tail = t.tail /\ v.size = m
        /\ v.bucket \in Heaps
    BY <1>1, TableFacts DEF Tables
  <2>3. w \in Tables(m)
    <3>1. EmptyBuckets(m) \in [0 .. m - 1 -> Pointers]
      BY DEF EmptyBuckets, Pointers
    <3> HIDE DEF m
    <3> QED
      BY <2>2, <3>1 DEF Tables
  <2>4. /\ w.bucket = t.bucket /\ w.head = t.head /\ w.tail = t.tail
        /\ w.cursor = t.cursor /\ w.count = t.count /\ w.next = t.next
    BY DEF Tables
  <2>5. Kept(w, t) /\ Live(v) = Live(t) /\ Live(w) = Live(t)
    BY <2>2, <2>4 DEF Kept, Live
  <2> HIDE DEF m, v
  <2>6. ListOn(v, L) /\ ListOn(w, L)
    <3> HIDE DEF w
    <3> QED
      BY <2>2, <2>4, <2>5, ListKept
  <2>7. ListOf(v) = L /\ L \in Seq(Addresses)
    BY <2>2, <2>6, ListOfIs, ListFacts
  <2>8. u = HashRefresh(v)
    BY <1>3 DEF v
  <2>9. PICK x : x = w
    OBVIOUS
  <2>10. x = [v EXCEPT !.buckets = EmptyBuckets(v.size)]
    BY <2>9
  <2> HIDE DEF w
  <2>11. /\ u \in Tables(m) /\ Kept(u, x)
         /\ \E D : ChainsOn(u, D, Live(x))
    BY <2>1, <2>3, <2>6, <2>7, <2>8, <2>9, <2>10, RefreshIs
  <2>12. u.size = m /\ Live(u) = Live(x)
    BY <2>1, <2>11, TableFacts DEF Kept
  <2>13. Kept(u, t)
    BY <2>5, <2>9, <2>11 DEF Kept
  <2> QED
    BY <2>1, <2>11, <2>12, <2>13
<1> QED
  BY <1>2, <1>3 DEF HashDoResize

(* The searches find an element with the key if there is one. *)
LEMMA FindIs ==
  ASSUME NEW n \in Nat \ {0}, NEW t \in Tables(n), NEW C, NEW M, ChainsOn(t, C, M),
         NEW key \in Keys, NEW b, b = Find(t, key)
  PROVE  /\ b # NULL => b \in M /\ t.bucket[b].key = key
         /\ b = NULL => \A q \in M : t.bucket[q].key # key
<1> DEFINE i == Slot(t, key.h)
           s == C[i]
           hits == {j \in DOMAIN s : KeyAt(t, s[j]) = key}
<1>1. i \in 0 .. n - 1 /\ t.size = n /\ t.bucket \in Heaps
  BY SlotIs, TableFacts
<1>2. Chain(t, i) = s
  BY <1>1, ChainIs
<1>3. b = IF hits = {} THEN NULL ELSE s[CHOOSE j \in hits : \A k \in hits : j <= k]
  BY <1>2 DEF Find
<1>4. /\ Path(s, t.buckets[i], ChainNext(t), ChainLast(t))
      /\ \A q : q \in Range(s) <=> q \in M /\ InSlot(t, q) = i
  BY <1>1, ChainFacts
<1> HIDE DEF s, i
<1>5. /\ Len(s) \in Nat /\ DOMAIN s = 1 .. Len(s)
      /\ \A j \in 1 .. Len(s) : s[j] # NULL
      /\ Range(s) = {s[j] : j \in 1 .. Len(s)}
  BY <1>4, PathFacts
<1>6. CASE hits = {}
  <2>1. ASSUME NEW q \in M, t.bucket[q].key = key PROVE FALSE
    <3>1. InSlot(t, q) = i
      BY <2>1 DEF InSlot, i
    <3>2. q \in Range(s)
      BY <1>4, <3>1
    <3>3. PICK j \in DOMAIN s : s[j] = q
      BY <1>5, <3>2
    <3> QED
      BY <1>6, <2>1, <3>3 DEF KeyAt
  <2> QED
    BY <1>3, <1>6, <2>1
<1>7. CASE hits # {}
  <2>1. \E j \in hits : \A k \in hits : j <= k
    <3>1. hits \subseteq Nat
      BY <1>5
    <3> HIDE DEF hits
    <3> QED
      BY <1>7, <3>1, LeastNumber
  <2>2. PICK j \in hits : b = s[j]
    BY <1>3, <1>7, <2>1
  <2> QED
    BY <1>4, <1>5, <2>2 DEF KeyAt
<1> QED
  BY <1>6, <1>7

-----------------------------------------------------------------------------
(* The writes that take a bucket out of its chain. *)
LEMMA UnchainHeap ==
  ASSUME NEW heap \in Heaps, NEW x \in Pointers, x # NULL => heap[x] # NULL,
         NEW y \in Pointers, y # NULL => heap[y] # NULL,
         NEW g, g = Put(Put(heap, x, "last", y), y, "next", x)
  PROVE  /\ g \in Heaps
         /\ \A q \in Addresses : g[q] = NULL <=> heap[q] = NULL
         /\ \A q \in Addresses : heap[q] # NULL =>
              /\ g[q].key = heap[q].key /\ g[q].data = heap[q].data
              /\ g[q].next = IF q = y THEN x ELSE heap[q].next
              /\ g[q].last = IF q = x THEN y ELSE heap[q].last
              /\ g[q].listNext = heap[q].listNext
              /\ g[q].listLast = heap[q].listLast
<1>1. PICK h : h = Put(heap, x, "last", y)
  OBVIOUS
<1>2. /\ h \in Heaps
      /\ \A q \in Addresses : h[q] = NULL <=> heap[q] = NULL
      /\ \A q \in Addresses : heap[q] # NULL =>
           /\ h[q].key = heap[q].key /\ h[q].data = heap[q].data
           /\ h[q].next = heap[q].next
           /\ h[q].last = IF q = x THEN y ELSE heap[q].last
           /\ h[q].listNext = heap[q].listNext
           /\ h[q].listLast = heap[q].listLast
  BY <1>1, PutLast, SMTT(60)
<1>3. y # NULL => h[y] # NULL
  BY <1>2 DEF Pointers
<1>4. g = Put(h, y, "next", x)
  BY <1>1
<1>5. /\ g \in Heaps
      /\ \A q \in Addresses : g[q] = NULL <=> h[q] = NULL
      /\ \A q \in Addresses : h[q] # NULL =>
           /\ g[q].key = h[q].key /\ g[q].data = h[q].data
           /\ g[q].next = IF q = y THEN x ELSE h[q].next
           /\ g[q].last = h[q].last
           /\ g[q].listNext = h[q].listNext
           /\ g[q].listLast = h[q].listLast
  BY <1>2, <1>3, <1>4, PutNext, SMTT(60)
<1> QED
  BY <1>2, <1>5

(* The writes that take a bucket out of the list. *)
LEMMA UnlistHeap ==
  ASSUME NEW heap \in Heaps, NEW x \in Pointers, x # NULL => heap[x] # NULL,
         NEW y \in Pointers, y # NULL => heap[y] # NULL,
         NEW g, g = Put(Put(heap, y, "listNext", x), x, "listLast", y)
  PROVE  /\ g \in Heaps
         /\ \A q \in Addresses : g[q] = NULL <=> heap[q] = NULL
         /\ \A q \in Addresses : heap[q] # NULL =>
              /\ g[q].key = heap[q].key /\ g[q].data = heap[q].data
              /\ g[q].next = heap[q].next
              /\ g[q].last = heap[q].last
              /\ g[q].listNext = IF q = y THEN x ELSE heap[q].listNext
              /\ g[q].listLast = IF q = x THEN y ELSE heap[q].listLast
<1>1. PICK h : h = Put(heap, y, "listNext", x)
  OBVIOUS
<1>2. /\ h \in Heaps
      /\ \A q \in Addresses : h[q] = NULL <=> heap[q] = NULL
      /\ \A q \in Addresses : heap[q] # NULL =>
           /\ h[q].key = heap[q].key /\ h[q].data = heap[q].data
           /\ h[q].next = heap[q].next
           /\ h[q].last = heap[q].last
           /\ h[q].listNext = IF q = y THEN x ELSE heap[q].listNext
           /\ h[q].listLast = heap[q].listLast
  BY <1>1, PutListNext, SMTT(60)
<1>3. x # NULL => h[x] # NULL
  BY <1>2 DEF Pointers
<1>4. g = Put(h, x, "listLast", y)
  BY <1>1
<1>5. /\ g \in Heaps
      /\ \A q \in Addresses : g[q] = NULL <=> h[q] = NULL
      /\ \A q \in Addresses : h[q] # NULL =>
           /\ g[q].key = h[q].key /\ g[q].data = h[q].data
           /\ g[q].next = h[q].next
           /\ g[q].last = h[q].last
           /\ g[q].listNext = h[q].listNext
           /\ g[q].listLast = IF q = x THEN y ELSE h[q].listLast
  BY <1>2, <1>3, <1>4, PutListLast, SMTT(60)
<1> QED
  BY <1>2, <1>5

(* Where a bucket is in its chain. *)
LEMMA InChain ==
  ASSUME NEW n \in Nat \ {0}, NEW t \in Tables(n), NEW C, NEW M, ChainsOn(t, C, M),
         NEW b \in M
  PROVE  LET i == InSlot(t, b)
         IN \E k \in 1 .. Len(C[i]) :
              /\ C[i][k] = b
              /\ t.bucket[b].next = At(C[i], k + 1) /\ t.bucket[b].last = At(C[i], k - 1)
              /\ t.bucket[b].last = NULL <=> k = 1
              /\ t.buckets[i] = b <=> k = 1
<1> DEFINE i == InSlot(t, b)
           s == C[i]
<1>1. /\ b \in Live(t) /\ b \in Addresses /\ i \in 0 .. n - 1
  BY ChainFacts, TableFacts
<1>2. Path(s, t.buckets[i], ChainNext(t), ChainLast(t)) /\ b \in Range(s)
  BY <1>1, ChainFacts
<1> HIDE DEF s
<1>3. /\ Len(s) \in Nat /\ \A j \in 1 .. Len(s) : s[j] # NULL
      /\ \A j, k \in 1 .. Len(s) : s[j] = s[k] => j = k
      /\ Range(s) = {s[j] : j \in 1 .. Len(s)}
      /\ \A j \in 0 .. Len(s) + 1 : At(s, j) = NULL <=> j \notin 1 .. Len(s)
  BY <1>2, PathFacts
<1>4. PICK k \in 1 .. Len(s) : s[k] = b
  BY <1>2, <1>3
<1>5. t.bucket[b].next = At(s, k + 1) /\ t.bucket[b].last = At(s, k - 1)
  BY <1>1, <1>2, <1>4 DEF Path, ChainNext, ChainLast
<1>6. At(s, k - 1) = NULL <=> k = 1
  BY <1>3
<1>7. At(s, 1) = b <=> k = 1
  BY <1>3, <1>4 DEF At
<1>8. t.buckets[i] = b <=> k = 1
  BY <1>2, <1>7 DEF Path
<1> QED
  BY <1>4, <1>5, <1>6, <1>8 DEF s

(* A bucket is taken out of its chain, and stays where it is in the list. *)
LEMMA ChainsUnchained ==
  ASSUME NEW n \in Nat \ {0}, NEW t \in Tables(n), NEW C, NEW M, ChainsOn(t, C, M),
         NEW b \in M, NEW first \in BOOLEAN, first <=> t.buckets[InSlot(t, b)] = b,
         NEW u, u = Unchained(t, b, first)
  PROVE  /\ u \in Tables(n) /\ Kept(u, t)
         /\ \E D : ChainsOn(u, D, M \ {b})
<1> DEFINE i == InSlot(t, b)
           s == C[i]
           x == t.bucket[b].next
           y == t.bucket[b].last
           heap == t.bucket
           g == Put(Put(heap, x, "last", y), y, "next", x)
           f == IF first THEN [t.buckets EXCEPT ![i] = x] ELSE t.buckets
<1>1. /\ t.size = n /\ C \in [0 .. n - 1 -> Seq(Addresses)] /\ M \subseteq Live(t)
      /\ \A j \in 0 .. n - 1 :
           /\ Path(C[j], t.buckets[j], ChainNext(t), ChainLast(t))
           /\ \A q : q \in Range(C[j]) <=> q \in M /\ InSlot(t, q) = j
      /\ \A q \in Live(t) : InSlot(t, q) \in 0 .. n - 1
  BY ChainFacts, SMTT(60)
<1>2. /\ heap \in Heaps /\ t.buckets \in [0 .. n - 1 -> Pointers]
      /\ b \in Addresses /\ b \in Live(t) /\ i \in 0 .. n - 1 /\ x \in Pointers /\ y \in Pointers
      /\ Live(t) \subseteq Addresses /\ NULL \notin Addresses
  BY <1>1, TableFacts, HashAssumption
<1>3. PICK k \in 1 .. Len(s) :
        /\ s[k] = b
        /\ x = At(s, k + 1) /\ y = At(s, k - 1)
        /\ y = NULL <=> k = 1
        /\ first <=> k = 1
  BY InChain
<1> DEFINE v == Unlinked(s, k)
           D == [C EXCEPT ![i] = v]
<1>4. /\ Path(s, t.buckets[i], ChainNext(t), ChainLast(t))
      /\ \A q : q \in Range(s) <=> q \in M /\ InSlot(t, q) = i
  BY <1>1, <1>2
<1>5. (x # NULL => x \in Range(s)) /\ (y # NULL => y \in Range(s))
  <2> HIDE DEF s
  <2>1. Len(s) \in Nat /\ Range(s) = {s[j] : j \in 1 .. Len(s)}
    BY <1>4, PathFacts
  <2> QED
    BY <1>3, <2>1 DEF At
<1>6. (x # NULL => heap[x] # NULL) /\ (y # NULL => heap[y] # NULL)
  BY <1>1, <1>4, <1>5 DEF Live
<1>7. u = [t EXCEPT !.bucket = g, !.buckets = f]
  <2>1. CASE first
    <3>1. y = NULL
      BY <1>3, <2>1
    <3>2. g = Put(heap, x, "last", y)
      BY <3>1 DEF Put
    <3> QED
      BY <2>1, <3>2 DEF Unchained, InSlot
  <2>2. CASE ~first
    <3>1. u = [t EXCEPT !.bucket = g]
      BY <2>2 DEF Unchained
    <3>2. f = t.buckets
      BY <2>2
    <3> QED
      BY <3>1, <3>2 DEF Tables
  <2> QED
    BY <2>1, <2>2
<1> HIDE DEF s, x, y, heap, i
<1>8. g = Put(Put(heap, x, "last", y), y, "next", x)
  OBVIOUS
<1> HIDE DEF g
<1>9. /\ g \in Heaps
      /\ \A q \in Addresses : g[q] = NULL <=> heap[q] = NULL
      /\ \A q \in Addresses : heap[q] # NULL =>
           /\ g[q].key = heap[q].key /\ g[q].data = heap[q].data
           /\ g[q].next = IF q = y THEN x ELSE heap[q].next
           /\ g[q].last = IF q = x THEN y ELSE heap[q].last
           /\ g[q].listNext = heap[q].listNext
           /\ g[q].listLast = heap[q].listLast
  BY <1>2, <1>6, <1>8, UnchainHeap
<1>10. f \in [0 .. n - 1 -> Pointers]
  BY <1>2
<1>11. /\ u \in Tables(n) /\ u.bucket = g /\ u.buckets = f
       /\ u.head = t.head /\ u.tail = t.tail /\ u.cursor = t.cursor
       /\ u.count = t.count /\ u.next = t.next
  <2> HIDE DEF f
  <2> QED
    BY <1>7, <1>9, <1>10 DEF Tables, Heaps
<1>12. Live(u) = Live(t)
  BY <1>9, <1>11 DEF Live, heap
<1>13. \A q \in Live(t) : q \in Addresses /\ heap[q] # NULL
  BY DEF Live, heap
<1>14. Kept(u, t)
  BY <1>9, <1>11, <1>12, <1>13 DEF Kept, heap
<1>15. \A q \in Live(t) : InSlot(u, q) = InSlot(t, q)
  <2>1. u.size = n
    BY <1>11, TableFacts
  <2> QED
    BY <1>1, <1>14, <2>1 DEF InSlot, Slot, Kept
<1>16. \A q \in Live(t) :
         /\ ChainNext(u)[q] = IF q = y THEN x ELSE ChainNext(t)[q]
         /\ ChainLast(u)[q] = IF q = x THEN y ELSE ChainLast(t)[q]
  BY <1>9, <1>11, <1>13 DEF ChainNext, ChainLast, heap
<1>17. /\ Path(v, f[i], ChainNext(u), ChainLast(u)) /\ Range(v) = Range(s) \ {b}
  <2>1. \A q \in Range(s) \ {s[k]} :
          /\ ChainNext(u)[q] = IF q = At(s, k - 1) THEN At(s, k + 1) ELSE ChainNext(t)[q]
          /\ ChainLast(u)[q] = IF q = At(s, k + 1) THEN At(s, k - 1) ELSE ChainLast(t)[q]
    BY <1>1, <1>3, <1>4, <1>16
  <2>2. f[i] = IF k = 1 THEN At(s, 2) ELSE t.buckets[i]
    BY <1>2, <1>3
  <2> HIDE DEF f, v
  <2>3. /\ Path(Unlinked(s, k), IF k = 1 THEN At(s, 2) ELSE t.buckets[i],
                ChainNext(u), ChainLast(u))
        /\ Range(Unlinked(s, k)) = Range(s) \ {s[k]}
    BY <1>4, <2>1, PathUnlink
  <2> QED
    BY <1>3, <2>2, <2>3 DEF v
<1> HIDE DEF v
<1>18. ASSUME NEW j \in 0 .. n - 1
       PROVE  /\ D[j] \in Seq(Addresses)
              /\ Path(D[j], u.buckets[j], ChainNext(u), ChainLast(u))
              /\ Range(D[j]) = {q \in M \ {b} : InSlot(u, q) = j}
  <2>1. CASE j = i
    <3>1. D[j] = v /\ u.buckets[j] = f[i]
      BY <1>1, <1>2, <1>11, <2>1
    <3>2. Range(D[j]) = {q \in M \ {b} : InSlot(u, q) = j}
      BY <1>1, <1>4, <1>15, <1>17, <2>1, <3>1
    <3> QED
      BY <1>17, <3>1, <3>2 DEF Path
  <2>2. CASE j # i
    <3>1. D[j] = C[j] /\ u.buckets[j] = t.buckets[j]
      BY <1>1, <1>2, <1>11, <2>2
    <3>2. /\ Path(C[j], t.buckets[j], ChainNext(t), ChainLast(t))
          /\ \A q : q \in Range(C[j]) <=> q \in M /\ InSlot(t, q) = j
      BY <1>1
    <3>3. \A q \in Range(C[j]) : q \in Live(t) /\ q # b /\ q # NULL /\ q # x /\ q # y
      BY <1>1, <1>2, <1>4, <1>5, <2>2, <3>2 DEF i
    <3>4. \A q \in Range(C[j]) : ChainNext(u)[q] = ChainNext(t)[q]
                /\ ChainLast(u)[q] = ChainLast(t)[q]
      BY <1>16, <3>3
    <3>5. Path(C[j], t.buckets[j], ChainNext(u), ChainLast(u))
      BY <3>2, <3>4, PathFrame
    <3>6. Range(D[j]) = {q \in M \ {b} : InSlot(u, q) = j}
      BY <1>1, <1>15, <3>1, <3>2, <3>3
    <3> QED
      BY <3>1, <3>5, <3>6 DEF Path
  <2> QED
    BY <2>1, <2>2
<1>19. ChainsOn(u, D, M \ {b})
  <2>1. D \in [0 .. n - 1 -> Seq(Addresses)]
    BY <1>1, <1>18
  <2>2. M \ {b} \subseteq Live(u)
    BY <1>1, <1>12
  <2>3. u.size = n
    BY <1>11, TableFacts
  <2> HIDE DEF D
  <2> QED
    BY <1>18, <2>1, <2>2, <2>3 DEF ChainsOn
<1> QED
  BY <1>11, <1>14, <1>19

(* A bucket is taken out of its chain and the list and freed. *)
LEMMA RemovedIs ==
  ASSUME NEW n \in Nat \ {0}, NEW t \in Tables(n), NEW L, ListOn(t, L),
         NEW C, ChainsOn(t, C, Live(t)), NEW k \in 1 .. Len(L), NEW b, b = L[k],
         NEW first \in BOOLEAN, first <=> t.buckets[InSlot(t, b)] = b,
         t.count # 0, NEW u, u = Removed(t, b, first)
  PROVE  /\ u \in Tables(n) /\ Live(u) = Live(t) \ {b}
         /\ ListOn(u, Unlinked(L, k))
         /\ \E D : ChainsOn(u, D, Live(u))
         /\ u.cursor = (IF t.cursor = b THEN At(L, k + 1) ELSE t.cursor)
         /\ u.count = t.count - 1 /\ u.next = t.next
         /\ \A q \in Live(u) : u.bucket[q].key = t.bucket[q].key
               /\ u.bucket[q].data = t.bucket[q].data
<1> DEFINE x == t.bucket[b].listNext
           y == t.bucket[b].listLast
<1>1. /\ Len(L) \in Nat
      /\ \A i \in 1 .. Len(L) : L[i] \in Live(t)
      /\ x = At(L, k + 1) /\ y = At(L, k - 1)
      /\ t.head = At(L, 1) /\ t.tail = At(L, Len(L))
      /\ Path(L, t.head, ListNext(t), ListLast(t))
      /\ Range(L) = Live(t) /\ Live(t) \subseteq Addresses
  BY ListFacts
<1>2. b \in Live(t) /\ b \in Addresses /\ b # NULL /\ x \in Pointers /\ y \in Pointers
      /\ t.count \in Nat \ {0} /\ t.head \in Pointers /\ t.tail \in Pointers
            /\ t.cursor \in Pointers
  BY <1>1, TableFacts
<1>3. (x # NULL => x \in Live(t)) /\ (y # NULL => y \in Live(t))
  BY <1>1 DEF At
<1>4. PICK v : v = Unchained(t, b, first)
  OBVIOUS
<1>5. v \in Tables(n) /\ Kept(v, t) /\ \E D : ChainsOn(v, D, Live(t) \ {b})
  BY <1>2, <1>4, ChainsUnchained
<1>6. PICK D : ChainsOn(v, D, Live(t) \ {b})
  BY <1>5
<1>7. /\ v.bucket \in Heaps /\ Live(v) = Live(t) /\ v.size = n
      /\ v.buckets \in [0 .. n - 1 -> Pointers]
      /\ \A q \in Addresses : v.bucket[q] # NULL <=> q \in Live(v)
  BY <1>5, TableFacts DEF Kept
<1>8. PICK g : g = Put(Put(v.bucket, y, "listNext", x), x, "listLast", y)
  OBVIOUS
<1>9. u = [v EXCEPT !.bucket = [g EXCEPT ![b] = NULL],
                    !.head = IF y = NULL THEN x ELSE v.head,
                    !.tail = IF x = NULL THEN y ELSE v.tail,
                    !.cursor = IF v.cursor = b THEN x ELSE v.cursor,
                    !.count = v.count - 1]
  BY <1>4, <1>8 DEF Removed, Tables
<1> HIDE DEF x, y
<1>10. /\ g \in Heaps
       /\ \A q \in Addresses : g[q] = NULL <=> v.bucket[q] = NULL
       /\ \A q \in Addresses : v.bucket[q] # NULL =>
            /\ g[q].key = v.bucket[q].key /\ g[q].data = v.bucket[q].data
            /\ g[q].next = v.bucket[q].next
            /\ g[q].last = v.bucket[q].last
            /\ g[q].listNext = IF q = y THEN x ELSE v.bucket[q].listNext
            /\ g[q].listLast = IF q = x THEN y ELSE v.bucket[q].listLast
  <2>1. (x # NULL => v.bucket[x] # NULL) /\ (y # NULL => v.bucket[y] # NULL)
    BY <1>1, <1>3, <1>7
  <2> QED
    BY <1>2, <1>7, <1>8, <2>1, UnlistHeap, SMTT(60)
<1>11. /\ v.head = t.head /\ v.tail = t.tail /\ v.cursor = t.cursor /\ v.count = t.count
       /\ v.next = t.next
  BY <1>5 DEF Kept
<1>12. /\ u \in Tables(n) /\ u.bucket = [g EXCEPT ![b] = NULL] /\ u.buckets = v.buckets
       /\ u.head = (IF y = NULL THEN x ELSE t.head)
       /\ u.tail = (IF x = NULL THEN y ELSE t.tail)
       /\ u.cursor = (IF t.cursor = b THEN x ELSE t.cursor)
       /\ u.count = t.count - 1 /\ u.next = t.next /\ u.size = n
  <2>1. PICK h : h = [g EXCEPT ![b] = NULL]
    OBVIOUS
  <2>2. h \in Heaps
    BY <1>10, <2>1 DEF Heaps
  <2>3. t.count - 1 \in Nat
    BY <1>2
  <2>4. u = [v EXCEPT !.bucket = h, !.head = IF y = NULL THEN x ELSE t.head,
                      !.tail = IF x = NULL THEN y ELSE t.tail,
                      !.cursor = IF t.cursor = b THEN x ELSE t.cursor,
                      !.count = t.count - 1]
    BY <1>9, <1>11, <2>1
  <2>5. /\ u.bucket = h /\ u.buckets = v.buckets
        /\ u.head = (IF y = NULL THEN x ELSE t.head)
        /\ u.tail = (IF x = NULL THEN y ELSE t.tail)
        /\ u.cursor = (IF t.cursor = b THEN x ELSE t.cursor)
        /\ u.count = t.count - 1 /\ u.next = v.next /\ u.size = v.size
    BY <1>5, <2>4 DEF Tables
  <2>6. u \in Tables(n)
    <3>1. /\ (IF y = NULL THEN x ELSE t.head) \in Pointers
          /\ (IF x = NULL THEN y ELSE t.tail) \in Pointers
          /\ (IF t.cursor = b THEN x ELSE t.cursor) \in Pointers
      BY <1>2
    <3> QED
      BY <1>5, <2>2, <2>3, <2>4, <3>1 DEF Tables, Heaps
  <2> QED
    BY <1>7, <1>11, <2>1, <2>5, <2>6
<1>13. \A q \in Addresses \ {b} : u.bucket[q] = g[q]
  BY <1>10, <1>12 DEF Heaps
<1>14. u.bucket[b] = NULL
  BY <1>2, <1>10, <1>12 DEF Heaps
<1>15. Live(u) = Live(t) \ {b}
  <2>1. \A q \in Addresses \ {b} : u.bucket[q] # NULL <=> q \in Live(t)
    BY <1>7, <1>10, <1>13
  <2> QED
    BY <1>1, <1>14, <2>1 DEF Live
<1>16. \A q \in Live(t) \ {b} :
         /\ u.bucket[q].key = t.bucket[q].key /\ u.bucket[q].data = t.bucket[q].data
         /\ u.bucket[q].key = v.bucket[q].key
         /\ u.bucket[q].next = v.bucket[q].next
         /\ u.bucket[q].last = v.bucket[q].last
         /\ u.bucket[q].listNext = IF q = y THEN x ELSE t.bucket[q].listNext
         /\ u.bucket[q].listLast = IF q = x THEN y ELSE t.bucket[q].listLast
  <2>1. \A q \in Live(t) \ {b} : q \in Addresses /\ v.bucket[q] # NULL /\ u.bucket[q] = g[q]
    BY <1>1, <1>7, <1>13
  <2> QED
    BY <1>5, <1>10, <2>1 DEF Kept
<1>17. ChainsOn(u, D, Live(u))
  <2>1. Live(t) \ {b} \subseteq Live(u)
    BY <1>15
  <2>2. ChainsOn(u, D, Live(t) \ {b})
    <3>1. PICK M : M = Live(t) \ {b}
      OBVIOUS
    <3>2. /\ ChainsOn(v, D, M) /\ M \subseteq Live(u)
          /\ u.size = v.size /\ u.buckets = v.buckets
      BY <1>6, <1>7, <1>12, <2>1, <3>1
    <3>3. \A q \in M : /\ u.bucket[q].key = v.bucket[q].key
                       /\ u.bucket[q].next = v.bucket[q].next
                       /\ u.bucket[q].last = v.bucket[q].last
      BY <1>16, <3>1
    <3>4. ChainsOn(u, D, M)
      BY <3>2, <3>3, ChainsKept
    <3> QED
      BY <3>1, <3>4
  <2> QED
    BY <1>15, <2>2
<1>18. /\ Path(Unlinked(L, k), IF k = 1 THEN At(L, 2) ELSE t.head, ListNext(u), ListLast(u))
       /\ Range(Unlinked(L, k)) = Range(L) \ {b}
  <2>1. \A q \in Range(L) \ {L[k]} :
          /\ ListNext(u)[q] = IF q = At(L, k - 1) THEN At(L, k + 1) ELSE ListNext(t)[q]
          /\ ListLast(u)[q] = IF q = At(L, k + 1) THEN At(L, k - 1) ELSE ListLast(t)[q]
    BY <1>1, <1>16 DEF ListNext, ListLast
  <2> QED
    BY <1>1, <2>1, PathUnlink
<1>19. u.head = IF k = 1 THEN At(L, 2) ELSE t.head
  <2>1. y = NULL <=> k = 1
    BY <1>1, PathFacts
  <2> QED
    BY <1>1, <1>12, <2>1
<1>20. u.tail = At(Unlinked(L, k), Len(Unlinked(L, k)))
  <2>1. /\ DOMAIN Unlinked(L, k) = 1 .. Len(L) - 1
        /\ \A i \in 1 .. Len(L) - 1 : Unlinked(L, k)[i] = IF i < k THEN L[i] ELSE L[i + 1]
    BY DEF Unlinked
  <2>2. Len(Unlinked(L, k)) = Len(L) - 1
    <3>1. Unlinked(L, k) \in Seq(Addresses)
      BY <1>18 DEF Path
    <3>2. Len(L) - 1 \in Nat
      BY <1>1
    <3> QED
      BY <2>1, <3>1, <3>2, LenProperties
  <2>3. x = NULL <=> k = Len(L)
    BY <1>1, PathFacts
  <2>4. CASE k = Len(L)
    <3>1. u.tail = At(L, k - 1)
      BY <1>1, <1>12, <2>3, <2>4
    <3> HIDE DEF Unlinked
    <3> QED
      BY <1>1, <2>1, <2>2, <2>4, <3>1 DEF At
  <2>5. CASE k # Len(L)
    <3>1. u.tail = At(L, Len(L))
      BY <1>1, <1>12, <2>3, <2>5
    <3>2. Len(L) - 1 \in 1 .. Len(L) - 1 /\ ~(Len(L) - 1 < k) /\ Len(L) - 1 + 1 = Len(L)
      BY <1>1, <2>5
    <3> QED
      BY <1>1, <2>1, <2>2, <3>1, <3>2 DEF At
  <2> QED
    BY <2>4, <2>5
<1>21. ListOn(u, Unlinked(L, k))
  BY <1>1, <1>15, <1>18, <1>19, <1>20 DEF ListOn
<1> QED
  BY <1>1, <1>12, <1>15, <1>16, <1>17, <1>21

-----------------------------------------------------------------------------
(* The neighbours of a bucket that has moved learn where it is. *)
LEMMA MoveHeap ==
  ASSUME NEW heap \in Heaps, NEW x \in Pointers, x # NULL => heap[x] # NULL,
         NEW y \in Pointers, y # NULL => heap[y] # NULL, NEW a \in Addresses,
         NEW g, g = Put(Put(heap, x, "listLast", a), y, "listNext", a)
  PROVE  /\ g \in Heaps
         /\ \A q \in Addresses : g[q] = NULL <=> heap[q] = NULL
         /\ \A q \in Addresses : heap[q] # NULL =>
              /\ g[q].key = heap[q].key /\ g[q].data = heap[q].data
              /\ g[q].next = heap[q].next
              /\ g[q].last = heap[q].last
              /\ g[q].listNext = IF q = y THEN a ELSE heap[q].listNext
              /\ g[q].listLast = IF q = x THEN a ELSE heap[q].listLast
<1>0. a \in Pointers
  BY DEF Pointers
<1>1. PICK h : h = Put(heap, x, "listLast", a)
  OBVIOUS
<1>2. /\ h \in Heaps
      /\ \A q \in Addresses : h[q] = NULL <=> heap[q] = NULL
      /\ \A q \in Addresses : heap[q] # NULL =>
           /\ h[q].key = heap[q].key /\ h[q].data = heap[q].data
           /\ h[q].next = heap[q].next
           /\ h[q].last = heap[q].last
           /\ h[q].listNext = heap[q].listNext
           /\ h[q].listLast = IF q = x THEN a ELSE heap[q].listLast
  BY <1>0, <1>1, PutListLast, SMTT(60)
<1>3. y # NULL => h[y] # NULL
  BY <1>2 DEF Pointers
<1>4. g = Put(h, y, "listNext", a)
  BY <1>1
<1>5. /\ g \in Heaps
      /\ \A q \in Addresses : g[q] = NULL <=> h[q] = NULL
      /\ \A q \in Addresses : h[q] # NULL =>
           /\ g[q].key = h[q].key /\ g[q].data = h[q].data
           /\ g[q].next = h[q].next
           /\ g[q].last = h[q].last
           /\ g[q].listNext = IF q = y THEN a ELSE h[q].listNext
           /\ g[q].listLast = h[q].listLast
  BY <1>0, <1>2, <1>3, <1>4, PutListNext, SMTT(60)
<1> QED
  BY <1>2, <1>5

(* A bucket that is in no chain moves to another address. *)
LEMMA MovedIs ==
  ASSUME NEW n \in Nat \ {0}, NEW t \in Tables(n), NEW L, ListOn(t, L),
         NEW C, NEW M, ChainsOn(t, C, M), NEW k \in 1 .. Len(L), NEW b, b = L[k], b \notin M,
         NEW a \in Addresses \ Live(t), NEW u, u = Moved(t, b, a)
  PROVE  /\ u \in Tables(n) /\ Live(u) = (Live(t) \ {b}) \cup {a}
         /\ ListOn(u, [L EXCEPT ![k] = a])
         /\ ChainsOn(u, C, M)
         /\ u.cursor = (IF t.cursor = b THEN a ELSE t.cursor)
         /\ u.count = t.count /\ u.next = t.next
         /\ u.bucket[a].key = t.bucket[b].key /\ u.bucket[a].data = t.bucket[b].data
         /\ \A q \in Live(t) \ {b} : /\ u.bucket[q].key = t.bucket[q].key
                                     /\ u.bucket[q].data = t.bucket[q].data
<1> DEFINE x == t.bucket[b].listNext
           y == t.bucket[b].listLast
           r == t.bucket[b]
<1>1. /\ Len(L) \in Nat
      /\ \A i \in 1 .. Len(L) : L[i] \in Live(t)
      /\ \A i, j \in 1 .. Len(L) : L[i] = L[j] => i = j
      /\ x = At(L, k + 1) /\ y = At(L, k - 1)
      /\ t.head = At(L, 1) /\ t.tail = At(L, Len(L))
      /\ Path(L, t.head, ListNext(t), ListLast(t))
      /\ Range(L) = Live(t) /\ Live(t) \subseteq Addresses
      /\ L \in Seq(Addresses) /\ DOMAIN L = 1 .. Len(L)
  <2>1. /\ t.bucket[L[k]].listNext = At(L, k + 1)
        /\ t.bucket[L[k]].listLast = At(L, k - 1)
    BY ListFacts
  <2>2. x = At(L, k + 1) /\ y = At(L, k - 1)
    BY <2>1
  <2> HIDE DEF x, y, r
  <2>3. /\ Len(L) \in Nat
        /\ \A i \in 1 .. Len(L) : L[i] \in Live(t)
        /\ \A i, j \in 1 .. Len(L) : L[i] = L[j] => i = j
        /\ Range(L) = Live(t) /\ Live(t) \subseteq Addresses
        /\ L \in Seq(Addresses) /\ DOMAIN L = 1 .. Len(L)
    BY ListFacts
  <2>4. /\ t.head = At(L, 1) /\ t.tail = At(L, Len(L))
        /\ Path(L, t.head, ListNext(t), ListLast(t))
    BY ListFacts
  <2> QED
    BY <2>2, <2>3, <2>4
<1>2. /\ b \in Live(t) /\ b \in Addresses /\ b # NULL /\ x \in Pointers /\ y \in Pointers
      /\ t.head \in Pointers /\ t.tail \in Pointers /\ t.cursor \in Pointers
      /\ r \in Buckets /\ t.bucket \in Heaps /\ a \in Addresses /\ a # b /\ a # NULL
      /\ a \in Pointers /\ NULL \notin Buckets
      /\ \A q \in Addresses : t.bucket[q] # NULL <=> q \in Live(t)
  BY <1>1, TableFacts, HashAssumption DEF Pointers
<1>3. (x # NULL => x \in Live(t) \ {b}) /\ (y # NULL => y \in Live(t) \ {b})
  BY <1>1 DEF At
<1>4. PICK h : h = [t.bucket EXCEPT ![a] = r, ![b] = NULL]
  OBVIOUS
<1>5. /\ h \in Heaps /\ h[b] = NULL /\ h[a] = r
      /\ \A q \in Addresses \ {a, b} : h[q] = t.bucket[q]
  BY <1>2, <1>4 DEF Heaps
<1>6. PICK g : g = Put(Put(h, x, "listLast", a), y, "listNext", a)
  OBVIOUS
<1>7. u = [t EXCEPT !.bucket = g, !.tail = IF x = NULL THEN a ELSE t.tail,
                    !.head = IF y = NULL THEN a ELSE t.head,
                    !.cursor = IF t.cursor = b THEN a ELSE t.cursor]
  BY <1>4, <1>6 DEF Moved, Tables
<1> HIDE DEF x, y, r
<1>8. /\ g \in Heaps
      /\ \A q \in Addresses : g[q] = NULL <=> h[q] = NULL
      /\ \A q \in Addresses : h[q] # NULL =>
           /\ g[q].key = h[q].key /\ g[q].data = h[q].data
           /\ g[q].next = h[q].next
           /\ g[q].last = h[q].last
           /\ g[q].listNext = IF q = y THEN a ELSE h[q].listNext
           /\ g[q].listLast = IF q = x THEN a ELSE h[q].listLast
  <2>1. (x # NULL => h[x] # NULL) /\ (y # NULL => h[y] # NULL)
    BY <1>1, <1>2, <1>3, <1>5
  <2> QED
    BY <1>2, <1>5, <1>6, <2>1, MoveHeap, SMTT(60)
<1>9. /\ u \in Tables(n) /\ u.bucket = g /\ u.buckets = t.buckets
      /\ u.head = (IF y = NULL THEN a ELSE t.head)
      /\ u.tail = (IF x = NULL THEN a ELSE t.tail)
      /\ u.cursor = (IF t.cursor = b THEN a ELSE t.cursor)
      /\ u.count = t.count /\ u.next = t.next /\ u.size = t.size
  <2>1. /\ (IF y = NULL THEN a ELSE t.head) \in Pointers
        /\ (IF x = NULL THEN a ELSE t.tail) \in Pointers
        /\ (IF t.cursor = b THEN a ELSE t.cursor) \in Pointers
    BY <1>2
  <2> QED
    BY <1>7, <1>8, <2>1 DEF Tables, Heaps
<1>10. Live(u) = (Live(t) \ {b}) \cup {a}
  <2>1. \A q \in Addresses : g[q] # NULL <=> q \in (Live(t) \ {b}) \cup {a}
    BY <1>2, <1>5, <1>8
  <2> QED
    BY <1>1, <1>2, <1>9, <2>1 DEF Live
<1>11. \A q \in Live(t) \ {b} :
         /\ u.bucket[q].key = t.bucket[q].key /\ u.bucket[q].data = t.bucket[q].data
         /\ u.bucket[q].next = t.bucket[q].next
         /\ u.bucket[q].last = t.bucket[q].last
         /\ u.bucket[q].listNext = IF q = y THEN a ELSE t.bucket[q].listNext
         /\ u.bucket[q].listLast = IF q = x THEN a ELSE t.bucket[q].listLast
  <2>1. \A q \in Live(t) \ {b} : q \in Addresses /\ q # a /\ h[q] = t.bucket[q] /\ h[q] # NULL
    BY <1>1, <1>2, <1>5
  <2> QED
    BY <1>8, <1>9, <2>1
<1>12. /\ u.bucket[a].key = r.key /\ u.bucket[a].data = r.data
       /\ u.bucket[a].listNext = r.listNext /\ u.bucket[a].listLast = r.listLast
  <2>1. h[a] # NULL
    BY <1>2, <1>5
  <2>2. a # y /\ a # x
    BY <1>2, <1>3
  <2> QED
    BY <1>2, <1>5, <1>8, <1>9, <2>1, <2>2
<1>13. ChainsOn(u, C, M)
  <2>1. M \subseteq Live(t) \ {b}
    BY DEF ChainsOn
  <2>2. \A q \in M : /\ u.bucket[q].key = t.bucket[q].key
                     /\ u.bucket[q].next = t.bucket[q].next
                     /\ u.bucket[q].last = t.bucket[q].last
    BY <1>11, <2>1
  <2>3. M \subseteq Live(u) /\ u.size = t.size /\ u.buckets = t.buckets
    BY <1>9, <1>10, <2>1
  <2> QED
    BY <2>2, <2>3, ChainsKept
<1> DEFINE m == [L EXCEPT ![k] = a]
<1>14. /\ Path(m, IF k = 1 THEN a ELSE t.head, ListNext(u), ListLast(u))
       /\ Range(m) = (Range(L) \ {b}) \cup {a}
  <2>1. \A q \in Range(L) \ {L[k]} :
          /\ ListNext(u)[q] = IF q = At(L, k - 1) THEN a ELSE ListNext(t)[q]
          /\ ListLast(u)[q] = IF q = At(L, k + 1) THEN a ELSE ListLast(t)[q]
    BY <1>1, <1>11 DEF ListNext, ListLast
  <2>2. ListNext(u)[a] = ListNext(t)[L[k]] /\ ListLast(u)[a] = ListLast(t)[L[k]]
    BY <1>2, <1>12 DEF ListNext, ListLast, r
  <2>3. a \in Addresses /\ a \notin Range(L)
    BY <1>1, <1>2
  <2> HIDE DEF m
  <2>4. /\ Path([L EXCEPT ![k] = a], IF k = 1 THEN a ELSE t.head, ListNext(u), ListLast(u))
        /\ Range([L EXCEPT ![k] = a]) = (Range(L) \ {L[k]}) \cup {a}
    <3>1. PICK F2, G2 : F2 = ListNext(u) /\ G2 = ListLast(u)
      OBVIOUS
    <3>2. PICK F, G : F = ListNext(t) /\ G = ListLast(t)
      OBVIOUS
    <3>3. /\ Path(L, t.head, F, G) /\ F2[a] = F[L[k]] /\ G2[a] = G[L[k]]
          /\ \A q \in Range(L) \ {L[k]} : /\ F2[q] = IF q = At(L, k - 1) THEN a ELSE F[q]
                                          /\ G2[q] = IF q = At(L, k + 1) THEN a ELSE G[q]
      BY <1>1, <2>1, <2>2, <3>1, <3>2
    <3>4. PICK first : first = t.head
      OBVIOUS
    <3>5. Path(L, first, F, G)
      BY <3>3, <3>4
    <3>6. /\ Path([L EXCEPT ![k] = a], IF k = 1 THEN a ELSE first, F2, G2)
          /\ Range([L EXCEPT ![k] = a]) = (Range(L) \ {L[k]}) \cup {a}
      <4> USE <2>3, <3>3, <3>5
      <4>1. Path([L EXCEPT ![k] = a], IF k = 1 THEN a ELSE first, F2, G2)
        BY PathReplace
      <4>2. Range([L EXCEPT ![k] = a]) = (Range(L) \ {L[k]}) \cup {a}
        BY PathReplace
      <4> QED
        BY <4>1, <4>2
    <3> QED
      BY <3>1, <3>4, <3>6
  <2> QED
    BY <2>4 DEF m
<1>15. u.head = IF k = 1 THEN a ELSE t.head
  <2>1. y = NULL <=> k = 1
    BY <1>1, PathFacts
  <2> QED
    BY <1>9, <2>1
<1>16. u.tail = At(m, Len(m))
  <2>1. x = NULL <=> k = Len(L)
    <3>1. \A i \in 0 .. Len(L) + 1 : At(L, i) = NULL <=> i \notin 1 .. Len(L)
      BY <1>1, PathFacts
    <3> HIDE DEF m
    <3>2. k + 1 \in 0 .. Len(L) + 1 /\ (k + 1 \notin 1 .. Len(L) <=> k = Len(L))
      BY <1>1
    <3> QED
      BY <1>1, <3>1, <3>2
  <2>2. /\ DOMAIN m = 1 .. Len(L) /\ Len(m) = Len(L)
        /\ \A i \in 1 .. Len(L) : m[i] = IF i = k THEN a ELSE L[i]
    BY <1>1, <1>2
  <2>3. Len(L) \in 1 .. Len(L) /\ t.tail = L[Len(L)]
    BY <1>1 DEF At
  <2> HIDE DEF m
  <2> QED
    BY <1>9, <2>1, <2>2, <2>3 DEF At
<1>17. ListOn(u, m)
  <2> HIDE DEF m
  <2> QED
    BY <1>1, <1>10, <1>14, <1>15, <1>16 DEF ListOn
<1> QED
  BY <1>9, <1>10, <1>11, <1>12, <1>13, <1>17 DEF r

-----------------------------------------------------------------------------
(* A table whose lists are sound, with the list L. *)
Whole(t, L) ==
  /\ t.size \in Nat \ {0} /\ t \in Tables(t.size)
  /\ t.count = Cardinality(Live(t))
  /\ t.cursor \in Live(t) \cup {NULL}
  /\ ListOn(t, L)
  /\ \E C : ChainsOn(t, C, Live(t))

(* Sound but for the element b, which is in no chain. *)
Loose(t, L, b) ==
  /\ t.size \in Nat \ {0} /\ t \in Tables(t.size)
  /\ t.count = Cardinality(Live(t))
  /\ t.cursor \in Live(t) \cup {NULL}
  /\ ListOn(t, L) /\ b \in Live(t)
  /\ \E C : ChainsOn(t, C, Live(t) \ {b})

(* An element that is in no chain gets its new key and its chain. *)
Rekey(t, a, key) == ConnectToBucketList([t EXCEPT !.bucket[a].key = key], a)

(* An element that was in no chain is in its chain again. *)
LEMMA RekeyIs ==
  ASSUME NEW t, NEW L, NEW a, Loose(t, L, a), NEW key \in Keys,
         NEW u, u = Rekey(t, a, key)
  PROVE  /\ Whole(u, L) /\ Live(u) = Live(t) /\ u.cursor = t.cursor /\ u.next = t.next
         /\ u.bucket[a].key = key /\ u.bucket[a].data = t.bucket[a].data
         /\ \A q \in Live(t) \ {a} : /\ u.bucket[q].key = t.bucket[q].key
                                     /\ u.bucket[q].data = t.bucket[q].data
<1> DEFINE n == t.size
<1>a. /\ n \in Nat \ {0} /\ t \in Tables(n) /\ t.count = Cardinality(Live(t))
      /\ t.cursor \in Live(t) \cup {NULL} /\ ListOn(t, L) /\ a \in Live(t)
  BY DEF Loose
<1>b. PICK C : ChainsOn(t, C, Live(t) \ {a})
  BY DEF Loose
<1>c. PICK M : M = Live(t) \ {a}
  OBVIOUS
<1> HIDE DEF n
<1>d. ChainsOn(t, C, M)
  BY <1>b, <1>c
<1>1. /\ t.bucket \in Heaps /\ a \in Addresses /\ t.bucket[a] \in Buckets
      /\ NULL \notin Buckets /\ t.bucket[a] # NULL /\ Live(t) \subseteq Addresses
  BY <1>a, TableFacts, HashAssumption
<1>2. PICK r : r = [t.bucket[a] EXCEPT !.key = key]
  OBVIOUS
<1>3. /\ r \in Buckets /\ r # NULL /\ r.key = key /\ r.data = t.bucket[a].data
      /\ r.listNext = t.bucket[a].listNext /\ r.listLast = t.bucket[a].listLast
  BY <1>1, <1>2 DEF Buckets
<1>4. PICK h : h = [t.bucket EXCEPT ![a] = r]
  OBVIOUS
<1>5. h \in Heaps /\ h[a] = r /\ \A q \in Addresses \ {a} : h[q] = t.bucket[q]
  BY <1>1, <1>3, <1>4 DEF Heaps
<1>6. PICK v : v = [t EXCEPT !.bucket = h]
  OBVIOUS
<1>7. v = [t EXCEPT !.bucket[a].key = key]
  BY <1>a, <1>1, <1>2, <1>4, <1>6 DEF Tables
<1>8. /\ v \in Tables(n) /\ v.bucket = h /\ v.buckets = t.buckets /\ v.size = t.size
      /\ v.head = t.head /\ v.tail = t.tail /\ v.cursor = t.cursor
      /\ v.count = t.count /\ v.next = t.next
  BY <1>a, <1>5, <1>6 DEF Tables, Heaps
<1>9. Live(v) = Live(t)
  BY <1>1, <1>3, <1>5, <1>8 DEF Live
<1>10. \A q \in Live(t) \ {a} : v.bucket[q] = t.bucket[q]
  BY <1>1, <1>5, <1>8
<1>11. ListOn(v, L)
  <2>1. \A q \in Live(t) : /\ v.bucket[q].listNext = t.bucket[q].listNext
                           /\ v.bucket[q].listLast = t.bucket[q].listLast
    BY <1>3, <1>5, <1>8, <1>10
  <2> QED
    BY <1>a, <1>8, <1>9, <2>1, ListKept
<1>13. ChainsOn(v, C, M)
  <2>1. M \subseteq Live(v)
    BY <1>9, <1>c
  <2>2. \A q \in M : /\ v.bucket[q].key = t.bucket[q].key
                     /\ v.bucket[q].next = t.bucket[q].next
                     /\ v.bucket[q].last = t.bucket[q].last
    BY <1>10, <1>c
  <2> QED
    BY <1>d, <1>8, <2>1, <2>2, ChainsKept
<1>14. /\ u \in Tables(n) /\ Kept(u, v)
       /\ \E D : ChainsOn(u, D, M \cup {a})
  <2>1. a \in Live(v) \ M
    BY <1>9, <1>a, <1>c
  <2>2. u = ConnectToBucketList(v, a)
    BY <1>7 DEF Rekey
  <2> QED
    BY <1>a, <1>8, <1>13, <2>1, <2>2, ChainsConnect
<1>15. M \cup {a} = Live(t)
  BY <1>a, <1>c
<1>16. /\ Live(u) = Live(t) /\ u.head = v.head /\ u.tail = v.tail
       /\ u.cursor = t.cursor /\ u.count = t.count /\ u.next = t.next
       /\ \A q \in Live(t) :
            /\ u.bucket[q].key = v.bucket[q].key /\ u.bucket[q].data = v.bucket[q].data
            /\ u.bucket[q].listNext = v.bucket[q].listNext
            /\ u.bucket[q].listLast = v.bucket[q].listLast
  BY <1>8, <1>9, <1>14 DEF Kept
<1>17. ListOn(u, L)
  BY <1>9, <1>11, <1>16, ListKept
<1>18. \A q \in Live(t) \ {a} : /\ u.bucket[q].key = t.bucket[q].key
                                /\ u.bucket[q].data = t.bucket[q].data
  BY <1>10, <1>16
<1>19. u.bucket[a].key = key /\ u.bucket[a].data = t.bucket[a].data
  BY <1>a, <1>3, <1>5, <1>8, <1>16
<1>20. u.size = n
  BY <1>a, <1>14, TableFacts
<1>21. \E D : ChainsOn(u, D, Live(u))
  BY <1>14, <1>15, <1>16
<1>22. Whole(u, L)
  BY <1>a, <1>14, <1>16, <1>17, <1>20, <1>21 DEF Whole
<1> QED
  BY <1>16, <1>18, <1>19, <1>22

-----------------------------------------------------------------------------
(* The orders of a finite set. *)
LEMMA OrderFacts ==
  ASSUME NEW S \in SUBSET Addresses, NEW order \in SetToSeqs(S)
  PROVE  /\ Len(order) = Cardinality(S) /\ Len(order) \in Nat /\ DOMAIN order = 1 .. Len(order)
         /\ order \in Seq(Addresses) /\ NoDuplicates(order) /\ Range(order) = S
         /\ \A i \in 1 .. Len(order) : order[i] \in S
         /\ \A i, j \in 1 .. Len(order) : order[i] = order[j] => i = j
         /\ \A q \in S : \E i \in 1 .. Len(order) : order[i] = q
<1> DEFINE c == Cardinality(S)
<1>1. IsFiniteSet(S) /\ c \in Nat
  BY HashAssumption, FS_Subset, FS_CardinalityType
<1>2. order \in [1 .. c -> S] /\ \A i, j \in 1 .. c : i # j => order[i] # order[j]
  BY DEF SetToSeqs
<1> HIDE DEF c
<1>3. order \in Injection(1 .. c, S)
  BY <1>2 DEF Injection, IsInjective
<1>4. Cardinality(1 .. c) = c
  BY <1>1, FS_Interval
<1>5. order \in Surjection(1 .. c, S)
  BY <1>1, <1>3, <1>4, FS_Injection DEF c
<1>6. DOMAIN order = 1 .. c /\ \A q \in S : \E i \in 1 .. c : order[i] = q
  BY <1>2, <1>5 DEF Surjection
<1>7. order \in Seq(Addresses)
  BY <1>1, <1>2
<1>8. Len(order) = c
  BY <1>1, <1>6, <1>7, LenProperties
<1>9. Range(order) = S
  BY <1>2, <1>6 DEF Range
<1>10. NoDuplicates(order)
  BY <1>2, <1>6 DEF NoDuplicates
<1> QED
  BY <1>1, <1>2, <1>6, <1>7, <1>8, <1>9, <1>10 DEF c

(* HashSort links the buckets in the order. *)
LEMMA LinkedIs ==
  ASSUME NEW n \in Nat \ {0}, NEW t \in Tables(n), Live(t) # {},
         NEW C, ChainsOn(t, C, Live(t)), NEW order \in SetToSeqs(Live(t)),
         NEW u, u = Linked(t, order)
  PROVE  /\ u \in Tables(n) /\ Live(u) = Live(t) /\ ListOn(u, order)
         /\ ChainsOn(u, C, Live(u))
         /\ u.cursor = order[1] /\ order[1] \in Live(t)
         /\ u.count = t.count /\ u.next = t.next
         /\ \A q \in Live(t) : /\ u.bucket[q].key = t.bucket[q].key
                               /\ u.bucket[q].data = t.bucket[q].data
<1> DEFINE m == Len(order)
           Place(b) == CHOOSE i \in 1 .. m : order[i] = b
           R(b) == [t.bucket[b] EXCEPT
                      !.listLast = IF Place(b) = 1 THEN NULL ELSE order[Place(b) - 1],
                      !.listNext = IF Place(b) = m THEN NULL ELSE order[Place(b) + 1]]
           h == [b \in Addresses |-> IF t.bucket[b] = NULL THEN NULL ELSE R(b)]
<1>0. /\ t.bucket \in Heaps /\ Live(t) \subseteq Addresses /\ NULL \notin Addresses
      /\ \A q \in Addresses : t.bucket[q] # NULL <=> q \in Live(t)
      /\ \A q \in Live(t) : t.bucket[q] \in Buckets
  BY TableFacts, HashAssumption
<1>1. /\ m \in Nat /\ DOMAIN order = 1 .. m
      /\ order \in Seq(Addresses) /\ NoDuplicates(order) /\ Range(order) = Live(t)
      /\ \A i \in 1 .. m : order[i] \in Live(t)
      /\ \A i, j \in 1 .. m : order[i] = order[j] => i = j
      /\ \A q \in Live(t) : \E i \in 1 .. m : order[i] = q
  BY <1>0, OrderFacts
<1>2. m \in 1 .. m /\ 1 \in 1 .. m
  BY <1>1
<1>3. u = [t EXCEPT !.bucket = h, !.head = order[1], !.tail = order[m], !.cursor = order[1]]
  BY DEF Linked
<1> HIDE DEF m
<1>4. \A q \in Live(t) : Place(q) \in 1 .. m /\ order[Place(q)] = q
  BY <1>1
<1>5. \A i \in 1 .. m : Place(order[i]) = i
  <2> SUFFICES ASSUME NEW i \in 1 .. m PROVE Place(order[i]) = i
    OBVIOUS
  <2>1. Place(order[i]) \in 1 .. m /\ order[Place(order[i])] = order[i]
    BY <1>1, <1>4
  <2> HIDE DEF Place
  <2> QED
    BY <1>1, <2>1
<1> HIDE DEF Place
<1>6. ASSUME NEW q \in Live(t)
      PROVE  /\ (IF Place(q) = 1 THEN NULL ELSE order[Place(q) - 1]) = At(order, Place(q) - 1)
             /\ (IF Place(q) = m THEN NULL ELSE order[Place(q) + 1]) = At(order, Place(q) + 1)
             /\ At(order, Place(q) - 1) \in Pointers /\ At(order, Place(q) + 1) \in Pointers
  <2>1. PICK k : k = Place(q)
    OBVIOUS
  <2>2. k \in 1 .. m
    BY <1>4, <2>1
  <2>3. (k = 1 <=> k - 1 \notin 1 .. m) /\ (k = m <=> k + 1 \notin 1 .. m)
    BY <1>1, <2>2
  <2>4. /\ (IF k = 1 THEN NULL ELSE order[k - 1]) = At(order, k - 1)
        /\ (IF k = m THEN NULL ELSE order[k + 1]) = At(order, k + 1)
    BY <2>3 DEF At, m
  <2>5. At(order, k - 1) \in Pointers /\ At(order, k + 1) \in Pointers
    BY <1>0, <1>1 DEF At, Pointers, m
  <2> QED
    BY <2>1, <2>4, <2>5
<1>7. ASSUME NEW q \in Live(t)
      PROVE  /\ h[q] \in Buckets /\ h[q] # NULL
             /\ h[q].key = t.bucket[q].key /\ h[q].data = t.bucket[q].data
             /\ h[q].next = t.bucket[q].next /\ h[q].last = t.bucket[q].last
             /\ h[q].listLast = At(order, Place(q) - 1)
             /\ h[q].listNext = At(order, Place(q) + 1)
  <2>1. PICK r, x, y : /\ r = t.bucket[q] /\ x = At(order, Place(q) + 1)
                       /\ y = At(order, Place(q) - 1)
    OBVIOUS
  <2>2. q \in Addresses /\ t.bucket[q] # NULL
    BY <1>0
  <2>3. h[q] = [r EXCEPT !.listLast = y, !.listNext = x]
    BY <1>6, <2>1, <2>2
  <2>4. r \in Buckets /\ x \in Pointers /\ y \in Pointers
    BY <1>0, <1>6, <2>1
  <2>5. PICK g : g = h[q]
    OBVIOUS
  <2>6. /\ g \in Buckets /\ g.key = r.key /\ g.data = r.data
        /\ g.next = r.next /\ g.last = r.last /\ g.listLast = y /\ g.listNext = x
    <3>1. g = [r EXCEPT !.listLast = y, !.listNext = x]
      BY <2>3, <2>5
    <3> QED
      BY <2>4, <3>1 DEF Buckets
  <2>7. g # NULL
    BY <2>6, HashAssumption
  <2> HIDE DEF h
  <2> QED
    BY <2>1, <2>5, <2>6, <2>7
<1>8. h \in Heaps /\ \A q \in Addresses : h[q] # NULL <=> q \in Live(t)
  <2>1. \A q \in Addresses : q \notin Live(t) => h[q] = NULL
    BY <1>0
  <2>2. h = [q \in Addresses |-> h[q]]
    OBVIOUS
  <2> HIDE DEF h
  <2>3. \A q \in Addresses : h[q] \in Buckets \cup {NULL}
    BY <1>7, <2>1
  <2> QED
    BY <1>7, <2>1, <2>2, <2>3 DEF Heaps
<1> HIDE DEF h
<1>9. order[1] \in Live(t) /\ order[m] \in Live(t)
  BY <1>1, <1>2
<1>10. /\ u \in Tables(n) /\ u.bucket = h /\ u.buckets = t.buckets /\ u.size = t.size
       /\ u.head = order[1] /\ u.tail = order[m] /\ u.cursor = order[1]
       /\ u.count = t.count /\ u.next = t.next
  <2>1. PICK x, y : x = order[1] /\ y = order[m]
    OBVIOUS
  <2>2. x \in Pointers /\ y \in Pointers
    BY <1>0, <1>9, <2>1 DEF Pointers
  <2>3. u = [t EXCEPT !.bucket = h, !.head = x, !.tail = y, !.cursor = x]
    BY <1>3, <2>1
  <2>4. /\ u \in Tables(n) /\ u.bucket = h /\ u.buckets = t.buckets /\ u.size = t.size
        /\ u.head = x /\ u.tail = y /\ u.cursor = x
        /\ u.count = t.count /\ u.next = t.next
    BY <1>8, <2>2, <2>3 DEF Tables, Heaps
  <2> QED
    BY <2>1, <2>4
<1>11. Live(u) = Live(t)
  BY <1>0, <1>8, <1>10 DEF Live
<1>12. Path(order, order[1], ListNext(u), ListLast(u))
  <2>1. ASSUME NEW i \in 1 .. m
        PROVE  /\ ListNext(u)[order[i]] = At(order, i + 1)
               /\ ListLast(u)[order[i]] = At(order, i - 1)
    <3>1. order[i] \in Live(t) /\ order[i] \in Addresses /\ Place(order[i]) = i
      BY <1>0, <1>1, <1>5
    <3>2. /\ h[order[i]].listLast = At(order, Place(order[i]) - 1)
          /\ h[order[i]].listNext = At(order, Place(order[i]) + 1)
      BY <1>7, <3>1
    <3> QED
      BY <1>10, <3>1, <3>2 DEF ListNext, ListLast
  <2>2. order[1] = At(order, 1)
    BY <1>2 DEF At, m
  <2> QED
    BY <1>1, <2>1, <2>2 DEF Path, m
<1>13. ListOn(u, order)
  <2>1. order[m] = At(order, Len(order))
    BY <1>2 DEF At, m
  <2> QED
    BY <1>1, <1>10, <1>11, <1>12, <2>1 DEF ListOn
<1>14. ChainsOn(u, C, Live(u))
  <2>1. PICK M : M = Live(t)
    OBVIOUS
  <2>2. ChainsOn(t, C, M) /\ M \subseteq Live(u) /\ u.size = t.size /\ u.buckets = t.buckets
    BY <1>10, <1>11, <2>1
  <2>3. \A q \in M : /\ u.bucket[q].key = t.bucket[q].key
                     /\ u.bucket[q].next = t.bucket[q].next
                     /\ u.bucket[q].last = t.bucket[q].last
    BY <1>7, <1>10, <2>1
  <2>4. ChainsOn(u, C, M)
    BY <2>2, <2>3, ChainsKept
  <2> QED
    BY <1>11, <2>1, <2>4
<1>15. \A q \in Live(t) : /\ u.bucket[q].key = t.bucket[q].key
                          /\ u.bucket[q].data = t.bucket[q].data
  BY <1>7, <1>10
<1> QED
  BY <1>9, <1>10, <1>11, <1>13, <1>14, <1>15

(* HashSort numbers the elements and makes the chains of the numbers. *)
LEMMA RenumberedIs ==
  ASSUME NEW n \in Nat \ {0}, NEW t \in Tables(n), NEW order \in SetToSeqs(Live(t)),
         ListOn(t, order), NEW u, u = Renumbered(t, order)
  PROVE  /\ u \in Tables(n) /\ Live(u) = Live(t) /\ ListOn(u, order)
         /\ \E D : ChainsOn(u, D, Live(u))
         /\ u.cursor = t.cursor /\ u.count = t.count /\ u.next = Len(order)
         /\ \A i \in 1 .. Len(order) :
              /\ u.bucket[order[i]].key = [str |-> NULL, h |-> i - 1]
              /\ u.bucket[order[i]].data = t.bucket[order[i]].data
<1> DEFINE m == Len(order)
           Number(b) == (CHOOSE i \in DOMAIN order : order[i] = b) - 1
           R(b) == [t.bucket[b] EXCEPT !.key = [str |-> NULL, h |-> Number(b)]]
           h == [b \in Addresses |-> IF t.bucket[b] = NULL THEN NULL ELSE R(b)]
           v == [t EXCEPT !.bucket = h, !.next = m]
<1>0. /\ t.bucket \in Heaps /\ Live(t) \subseteq Addresses /\ NULL \notin Addresses
      /\ \A q \in Addresses : t.bucket[q] # NULL <=> q \in Live(t)
      /\ \A q \in Live(t) : t.bucket[q] \in Buckets
      /\ t.size = n
  BY TableFacts, HashAssumption
<1>1. /\ m \in Nat /\ DOMAIN order = 1 .. m /\ m = Cardinality(Live(t))
      /\ order \in Seq(Addresses)
      /\ \A i \in 1 .. m : order[i] \in Live(t)
      /\ \A i, j \in 1 .. m : order[i] = order[j] => i = j
      /\ \A q \in Live(t) : \E i \in 1 .. m : order[i] = q
  BY <1>0, OrderFacts
<1>2. m < Word
  <2>1. Cardinality(Live(t)) <= Cardinality(Addresses)
    BY <1>0, HashAssumption, FS_Subset
  <2>2. Cardinality(Addresses) \in Nat
    BY HashAssumption, FS_CardinalityType
  <2> HIDE DEF m
  <2> QED
    BY <1>1, <2>1, <2>2, HashAssumption
<1>3. u = HashRefresh(v)
  BY DEF Renumbered
<1> HIDE DEF m
<1>4. \A i \in 1 .. m : Number(order[i]) = i - 1
  BY <1>1
<1> HIDE DEF Number
<1>5. ASSUME NEW q \in Live(t)
      PROVE  /\ h[q] \in Buckets /\ h[q] # NULL
             /\ h[q].key = [str |-> NULL, h |-> Number(q)] /\ h[q].data = t.bucket[q].data
             /\ h[q].listNext = t.bucket[q].listNext /\ h[q].listLast = t.bucket[q].listLast
  <2>1. PICK i \in 1 .. m : order[i] = q
    BY <1>1
  <2>2. Number(q) = i - 1 /\ i - 1 \in 0 .. Word - 1
    BY <1>1, <1>2, <1>4, <2>1, HashAssumption
  <2>3. PICK k : k = [str |-> NULL, h |-> Number(q)]
    OBVIOUS
  <2>4. k \in Keys
    BY <2>2, <2>3 DEF Keys, Indexes
  <2>5. PICK r : r = t.bucket[q]
    OBVIOUS
  <2>6. PICK g : g = h[q]
    OBVIOUS
  <2>7. g = [r EXCEPT !.key = k]
    BY <1>0, <2>3, <2>5, <2>6
  <2>8. r \in Buckets
    BY <1>0, <2>5
  <2>9. /\ g \in Buckets /\ g.key = k /\ g.data = r.data
        /\ g.listLast = r.listLast /\ g.listNext = r.listNext
    BY <2>4, <2>7, <2>8 DEF Buckets
  <2>10. g # NULL
    BY <2>9, HashAssumption
  <2> HIDE DEF h
  <2> QED
    BY <2>3, <2>5, <2>6, <2>9, <2>10
<1>6. h \in Heaps /\ \A q \in Addresses : h[q] # NULL <=> q \in Live(t)
  <2>1. \A q \in Addresses : q \notin Live(t) => h[q] = NULL
    BY <1>0
  <2>2. h = [q \in Addresses |-> h[q]]
    OBVIOUS
  <2> HIDE DEF h
  <2>3. \A q \in Addresses : h[q] \in Buckets \cup {NULL}
    BY <1>5, <2>1
  <2> QED
    BY <1>5, <2>1, <2>2, <2>3 DEF Heaps
<1> HIDE DEF h
<1> DEFINE w == [v EXCEPT !.buckets = EmptyBuckets(v.size)]
<1>7. /\ v.bucket = h /\ v.head = t.head /\ v.tail = t.tail /\ v.size = n
  BY <1>0 DEF Tables
<1>8. /\ w \in Tables(n) /\ w.bucket = h /\ w.head = t.head /\ w.tail = t.tail
      /\ w.cursor = t.cursor /\ w.count = t.count /\ w.next = m
  <2>1. EmptyBuckets(n) \in [0 .. n - 1 -> Pointers]
    BY DEF EmptyBuckets, Pointers
  <2>2. m \in 0 .. Word - 1
    BY <1>1, <1>2, HashAssumption
  <2> QED
    BY <1>6, <1>7, <2>1, <2>2 DEF Tables, Heaps
<1>9. Live(v) = Live(t) /\ Live(w) = Live(t)
  BY <1>0, <1>6, <1>7, <1>8 DEF Live
<1>10. PICK x, y : x = v /\ y = w
  OBVIOUS
<1>11. y = [x EXCEPT !.buckets = EmptyBuckets(x.size)] /\ u = HashRefresh(x)
  BY <1>3, <1>10
<1>12. /\ y \in Tables(n) /\ x.bucket \in Heaps /\ y.bucket = h /\ y.cursor = t.cursor
             /\ y.count = t.count
       /\ y.next = m /\ Live(y) = Live(t)
  BY <1>6, <1>7, <1>8, <1>9, <1>10
<1>13. ListOn(x, order) /\ ListOn(y, order)
  <2> HIDE DEF v, w
  <2>1. \A q \in Live(t) : /\ h[q].listNext = t.bucket[q].listNext
                           /\ h[q].listLast = t.bucket[q].listLast
    BY <1>5
  <2> QED
    BY <1>7, <1>8, <1>9, <1>10, <2>1, ListKept
<1> HIDE DEF v, w
<1>14. ListOf(x) = order
  BY <1>12, <1>13, ListOfIs
<1>15. /\ u \in Tables(n) /\ Kept(u, y)
       /\ \E D : ChainsOn(u, D, Live(y))
  BY <1>1, <1>11, <1>12, <1>13, <1>14, RefreshIs
<1>16. /\ Live(u) = Live(t) /\ u.head = y.head /\ u.tail = y.tail
       /\ u.cursor = t.cursor /\ u.count = t.count /\ u.next = m
       /\ \A q \in Live(t) :
            /\ u.bucket[q].key = h[q].key /\ u.bucket[q].data = h[q].data
            /\ u.bucket[q].listNext = y.bucket[q].listNext
            /\ u.bucket[q].listLast = y.bucket[q].listLast
  BY <1>12, <1>15 DEF Kept
<1>17. ListOn(u, order)
  BY <1>12, <1>13, <1>16, ListKept
<1>18. ASSUME NEW i \in 1 .. m
       PROVE  /\ u.bucket[order[i]].key = [str |-> NULL, h |-> i - 1]
              /\ u.bucket[order[i]].data = t.bucket[order[i]].data
  <2>1. order[i] \in Live(t)
    BY <1>1
  <2> QED
    BY <1>4, <1>5, <1>16, <2>1
<1> QED
  BY <1>12, <1>15, <1>16, <1>17, <1>18 DEF m

(* The elements can be counted. *)
LEMMA LiveFinite ==
  ASSUME NEW t
  PROVE  IsFiniteSet(Live(t)) /\ Cardinality(Live(t)) \in Nat
<1>1. Live(t) \in SUBSET Addresses
  BY DEF Live
<1>2. IsFiniteSet(Live(t))
  BY <1>1, HashAssumption, FS_Subset
<1> QED
  BY <1>2, FS_CardinalityType

(* The next free index is a word. *)
LEMMA AfterTyped ==
  ASSUME NEW key \in Keys, NEW n \in 0 .. Word - 1
  PROVE  After(key, n) \in 0 .. Word - 1
<1>1. key.h \in 0 .. Word - 1
  BY HashAssumption DEF Keys, Indexes
<1>2. (key.h + 1) % Word \in 0 .. Word - 1
  BY <1>1, HashAssumption
<1> QED
  BY <1>2 DEF After

WithBucket(t, b, r) == [t EXCEPT !.bucket[b] = r]
Counted(t, c, x) == [t EXCEPT !.count = c, !.next = x]

(* A new bucket before it is connected. *)
LEMMA FreshIs ==
  ASSUME NEW n \in Nat \ {0}, NEW t \in Tables(n), NEW L, ListOn(t, L),
         NEW C, ChainsOn(t, C, Live(t)), NEW b \in Addresses \ Live(t),
         NEW r \in Buckets, NEW u, u = WithBucket(t, b, r)
  PROVE  /\ u \in Tables(n) /\ Live(u) = Live(t) \cup {b} /\ u.bucket[b] = r
         /\ u.head = t.head /\ u.tail = t.tail /\ u.cursor = t.cursor /\ u.buckets = t.buckets
         /\ u.count = t.count /\ u.next = t.next /\ u.size = t.size
         /\ \A q \in Live(t) : u.bucket[q] = t.bucket[q]
         /\ Path(L, t.head, ListNext(u), ListLast(u))
         /\ ChainsOn(u, C, Live(t))
<1>1. /\ t.bucket \in Heaps /\ Live(t) \subseteq Addresses /\ r # NULL
      /\ \A q \in Addresses : t.bucket[q] # NULL <=> q \in Live(t)
  BY TableFacts, HashAssumption
<1>2. PICK h : h = [t.bucket EXCEPT ![b] = r]
  OBVIOUS
<1>3. h \in Heaps /\ h[b] = r /\ \A q \in Addresses \ {b} : h[q] = t.bucket[q]
  BY <1>1, <1>2 DEF Heaps
<1>4. /\ u \in Tables(n) /\ u.bucket = h /\ u.buckets = t.buckets
      /\ u.head = t.head /\ u.tail = t.tail /\ u.cursor = t.cursor
      /\ u.count = t.count /\ u.next = t.next /\ u.size = t.size
  <2>1. u = [t EXCEPT !.bucket = h]
    BY <1>2 DEF Tables, WithBucket
  <2> QED
    BY <1>3, <2>1 DEF Tables, Heaps
<1>5. Live(u) = Live(t) \cup {b}
  <2>1. \A q \in Addresses : h[q] # NULL <=> q \in Live(t) \cup {b}
    BY <1>1, <1>3
  <2> QED
    BY <1>1, <1>4, <2>1 DEF Live
<1>6. \A q \in Live(t) : u.bucket[q] = t.bucket[q]
  BY <1>1, <1>3, <1>4
<1>7. Path(L, t.head, ListNext(u), ListLast(u))
  <2>1. Path(L, t.head, ListNext(t), ListLast(t)) /\ Range(L) = Live(t)
    BY ListFacts
  <2>2. \A q \in Range(L) : ListNext(u)[q] = ListNext(t)[q] /\ ListLast(u)[q] = ListLast(t)[q]
    BY <1>1, <1>6, <2>1 DEF ListNext, ListLast
  <2> QED
    BY <2>1, <2>2, PathFrame
<1>8. ChainsOn(u, C, Live(t))
  <2>1. PICK M : M = Live(t)
    OBVIOUS
  <2>2. ChainsOn(t, C, M) /\ M \subseteq Live(u)
    BY <1>5, <2>1
  <2>3. \A q \in M : /\ u.bucket[q].key = t.bucket[q].key
                     /\ u.bucket[q].next = t.bucket[q].next
                     /\ u.bucket[q].last = t.bucket[q].last
    BY <1>6, <2>1
  <2>4. ChainsOn(u, C, M)
    BY <1>4, <2>2, <2>3, ChainsKept
  <2> QED
    BY <2>1, <2>4
<1> QED
  BY <1>3, <1>4, <1>5, <1>6, <1>7, <1>8

(* Count and next free index are nobody's pointers. *)
LEMMA CountedIs ==
  ASSUME NEW n \in Nat \ {0}, NEW t \in Tables(n), NEW L, ListOn(t, L),
         NEW C, ChainsOn(t, C, Live(t)), NEW c \in Nat, NEW x \in 0 .. Word - 1,
         NEW u, u = Counted(t, c, x)
  PROVE  /\ u \in Tables(n) /\ ListOn(u, L) /\ ChainsOn(u, C, Live(u)) /\ Live(u) = Live(t)
         /\ u.bucket = t.bucket /\ u.cursor = t.cursor /\ u.count = c /\ u.next = x
<1>1. /\ u \in Tables(n) /\ u.bucket = t.bucket /\ u.buckets = t.buckets
      /\ u.head = t.head /\ u.tail = t.tail /\ u.cursor = t.cursor
      /\ u.count = c /\ u.next = x /\ u.size = t.size
  BY DEF Tables, Counted
<1>2. Live(u) = Live(t)
  BY <1>1 DEF Live
<1>3. ListOn(u, L)
  BY <1>1, <1>2, ListKept
<1>4. PICK M : M = Live(t)
  OBVIOUS
<1>5. ChainsOn(t, C, M) /\ M \subseteq Live(u)
  BY <1>2, <1>4
<1>6. ChainsOn(u, C, M)
  BY <1>1, <1>5, ChainsKept
<1> QED
  BY <1>1, <1>2, <1>3, <1>4, <1>6

(* An insertion: the bucket is at the end of the list, in the chain of its
   slot, and the table has grown or not. *)
LEMMA InsertIs ==
  ASSUME NEW t, NEW L, Whole(t, L), NEW b \in Addresses \ Live(t),
         NEW key \in Keys, NEW v \in Values, NEW r,
         r = [key |-> key, data |-> v, next |-> NULL, last |-> NULL,
              listNext |-> NULL, listLast |-> NULL],
         NEW x, x = WithBucket(t, b, r),
         NEW y, y = ConnectToBucketList(x, b),
         NEW c, c = ConnectToGlobalList(y, b),
         NEW w, w = Counted(c, c.count + 1, After(key, c.next)),
         NEW u \in HashDoResize(w)
  PROVE  /\ Whole(u, Append(L, b)) /\ Live(u) = Live(t) \cup {b}
         /\ u.bucket[b].key = key /\ u.bucket[b].data = v
         /\ \A q \in Live(t) : u.bucket[q].key = t.bucket[q].key
               /\ u.bucket[q].data = t.bucket[q].data
         /\ u.cursor = (IF t.cursor = NULL THEN b ELSE t.cursor)
         /\ u.next = After(key, t.next)
<1> DEFINE n == t.size
<1>1. /\ n \in Nat \ {0} /\ t \in Tables(n) /\ ListOn(t, L) /\ t.count = Cardinality(Live(t))
      /\ t.cursor \in Live(t) \cup {NULL}
  BY DEF Whole
<1>2. PICK C : ChainsOn(t, C, Live(t))
  BY DEF Whole
<1> HIDE DEF n
<1>3. /\ t.head = At(L, 1) /\ t.tail = At(L, Len(L)) /\ Range(L) = Live(t) /\ Len(L) \in Nat
      /\ Path(L, t.head, ListNext(t), ListLast(t))
      /\ \A i \in 1 .. Len(L) : L[i] \in Live(t)
  BY <1>1, ListFacts
<1>4. r \in Buckets /\ r.key = key /\ r.data = v
  BY DEF Buckets, Pointers
<1>6. /\ x \in Tables(n) /\ Live(x) = Live(t) \cup {b} /\ x.bucket[b] = r
      /\ x.head = t.head /\ x.tail = t.tail /\ x.cursor = t.cursor /\ x.buckets = t.buckets
      /\ x.count = t.count /\ x.next = t.next /\ x.size = t.size
      /\ \A q \in Live(t) : x.bucket[q] = t.bucket[q]
      /\ Path(L, t.head, ListNext(x), ListLast(x))
      /\ ChainsOn(x, C, Live(t))
  BY <1>1, <1>2, <1>4, FreshIs
<1>8. PICK M : M = Live(t)
  OBVIOUS
<1>9. y \in Tables(n) /\ Kept(y, x) /\ \E D : ChainsOn(y, D, M \cup {b})
  <2>1. ChainsOn(x, C, M) /\ b \in Live(x) \ M
    BY <1>6, <1>8
  <2> QED
    BY <1>1, <1>6, <2>1, ChainsConnect
<1>10. PICK D : ChainsOn(y, D, M \cup {b})
  BY <1>9
<1>11. /\ Live(y) = Live(t) \cup {b} /\ y.head = t.head /\ y.tail = t.tail
       /\ y.cursor = t.cursor /\ y.count = t.count /\ y.next = t.next
       /\ y.bucket[b].key = key /\ y.bucket[b].data = v
       /\ \A q \in Live(t) : /\ y.bucket[q].key = t.bucket[q].key
                             /\ y.bucket[q].data = t.bucket[q].data
                             /\ y.bucket[q].listNext = t.bucket[q].listNext
                             /\ y.bucket[q].listLast = t.bucket[q].listLast
  BY <1>4, <1>6, <1>9 DEF Kept
<1>13. /\ b \in Live(y) /\ y.tail # b
       /\ y.tail # NULL => y.tail \in Live(y)
  <2>1. y.tail = At(L, Len(L)) /\ b # NULL
    BY <1>3, <1>11, HashAssumption
  <2>2. At(L, Len(L)) # NULL => At(L, Len(L)) \in Live(t)
    BY <1>3 DEF At
  <2> QED
    BY <1>11, <2>1, <2>2
<1>14. /\ c \in Tables(n) /\ Live(c) = Live(y)
       /\ c.buckets = y.buckets
       /\ c.head = (IF y.head = NULL THEN b ELSE y.head)
       /\ c.tail = b
       /\ c.cursor = (IF y.cursor = NULL THEN b ELSE y.cursor)
       /\ c.count = y.count /\ c.next = y.next
       /\ \A q \in Live(y) :
            /\ c.bucket[q].key = y.bucket[q].key /\ c.bucket[q].data = y.bucket[q].data
            /\ c.bucket[q].next = y.bucket[q].next
            /\ c.bucket[q].last = y.bucket[q].last
            /\ c.bucket[q].listNext = IF q = b THEN NULL
                                      ELSE IF q = y.tail THEN b ELSE y.bucket[q].listNext
            /\ c.bucket[q].listLast = IF q = b THEN y.tail ELSE y.bucket[q].listLast
  BY <1>1, <1>9, <1>13, ConnectGlobalIs, SMTT(60)
<1>15. ListOn(c, Append(L, b))
  <2>1. /\ ListNext(c)[b] = NULL /\ ListLast(c)[b] = At(L, Len(L))
        /\ \A q \in Range(L) : /\ ListNext(c)[q] = IF q = At(L, Len(L)) THEN b ELSE ListNext(t)[q]
                               /\ ListLast(c)[q] = ListLast(t)[q]
    <3>1. b \in Addresses /\ Live(t) \subseteq Addresses /\ b \notin Live(t)
      BY DEF Live
    <3> QED
      BY <1>3, <1>11, <1>14, <3>1 DEF ListNext, ListLast
  <2>2. b \in Addresses /\ b \notin Range(L)
    BY <1>3
  <2>3. /\ Path(Append(L, b), IF t.head = NULL THEN b ELSE t.head, ListNext(c), ListLast(c))
        /\ Range(Append(L, b)) = Range(L) \cup {b}
    BY <1>3, <2>1, <2>2, PathAppend
  <2>4. At(Append(L, b), Len(Append(L, b))) = b
    <3>1. L \in Seq(Addresses)
      BY <1>3 DEF Path
    <3>2. Len(Append(L, b)) = Len(L) + 1 /\ Append(L, b)[Len(L) + 1] = b
                /\ Len(L) + 1 \in 1 .. Len(L) + 1
      BY <1>3, <3>1
    <3> QED
      BY <3>2 DEF At
  <2> QED
    BY <1>3, <1>11, <1>14, <2>3, <2>4 DEF ListOn
<1>16. ChainsOn(c, D, Live(c))
  <2>1. PICK N : N = M \cup {b}
    OBVIOUS
  <2>2. c.size = y.size
    BY <1>1, <1>9, <1>14, TableFacts
  <2>3. N = Live(c) /\ N = Live(y)
    BY <1>8, <1>11, <1>14, <2>1
  <2>4. ChainsOn(y, D, N) /\ N \subseteq Live(c)
    BY <1>10, <2>1, <2>3
  <2>5. \A q \in N : /\ c.bucket[q].key = y.bucket[q].key
                     /\ c.bucket[q].next = y.bucket[q].next
                     /\ c.bucket[q].last = y.bucket[q].last
    BY <1>14, <2>3
  <2>6. ChainsOn(c, D, N)
    BY <1>14, <2>2, <2>4, <2>5, ChainsKept
  <2> QED
    BY <2>3, <2>6
<1>18. c.count + 1 \in Nat /\ After(key, c.next) \in 0 .. Word - 1
  BY <1>1, <1>14, AfterTyped, TableFacts
<1>19. /\ w \in Tables(n) /\ ListOn(w, Append(L, b)) /\ ChainsOn(w, D, Live(w)) /\ Live(w) = Live(c)
       /\ w.bucket = c.bucket /\ w.cursor = c.cursor /\ w.count = c.count + 1
       /\ w.next = After(key, c.next)
  BY <1>1, <1>14, <1>15, <1>16, <1>18, CountedIs
<1>20. /\ u.size \in Nat \ {0} /\ u \in Tables(u.size) /\ Kept(u, w)
       /\ \E E : ChainsOn(u, E, Live(u))
  BY <1>1, <1>19, ResizeIs, SMTT(60)
<1>21. /\ Live(u) = Live(t) \cup {b} /\ u.head = w.head /\ u.tail = w.tail
       /\ u.cursor = (IF t.cursor = NULL THEN b ELSE t.cursor)
       /\ u.count = t.count + 1 /\ u.next = After(key, t.next)
       /\ \A q \in Live(t) \cup {b} :
            /\ u.bucket[q].key = y.bucket[q].key /\ u.bucket[q].data = y.bucket[q].data
            /\ u.bucket[q].listNext = w.bucket[q].listNext
            /\ u.bucket[q].listLast = w.bucket[q].listLast
  <2>1. /\ Live(u) = Live(w) /\ u.head = w.head /\ u.tail = w.tail
        /\ u.cursor = w.cursor /\ u.count = w.count /\ u.next = w.next
        /\ \A q \in Live(w) :
             /\ u.bucket[q].key = w.bucket[q].key /\ u.bucket[q].data = w.bucket[q].data
             /\ u.bucket[q].listNext = w.bucket[q].listNext
             /\ u.bucket[q].listLast = w.bucket[q].listLast
    BY <1>20 DEF Kept
  <2>2. Live(w) = Live(t) \cup {b} /\ Live(y) = Live(t) \cup {b}
    BY <1>11, <1>14, <1>19
  <2>3. \A q \in Live(y) : w.bucket[q].key = y.bucket[q].key /\ w.bucket[q].data = y.bucket[q].data
    BY <1>14, <1>19
  <2>4. w.cursor = (IF t.cursor = NULL THEN b ELSE t.cursor)
    BY <1>11, <1>14, <1>19
  <2>5. w.count = t.count + 1 /\ w.next = After(key, t.next)
    BY <1>11, <1>14, <1>19
  <2> QED
    BY <2>1, <2>2, <2>3, <2>4, <2>5, SMTT(60)
<1>22. ListOn(u, Append(L, b))
  <2>1. Live(u) = Live(w)
    BY <1>11, <1>14, <1>19, <1>21, SMTT(60)
  <2>2. \A q \in Live(w) : /\ u.bucket[q].listNext = w.bucket[q].listNext
                           /\ u.bucket[q].listLast = w.bucket[q].listLast
    BY <1>11, <1>14, <1>19, <1>21
  <2>3. ListOn(w, Append(L, b)) /\ u.head = w.head /\ u.tail = w.tail
    BY <1>19, <1>21
  <2> QED
    BY <2>1, <2>2, <2>3, ListKept, SMTT(60)
<1>23. u.count = Cardinality(Live(u))
  <2>1. Cardinality(Live(t) \cup {b}) = Cardinality(Live(t)) + 1
    BY LiveFinite, FS_AddElement
  <2> QED
    BY <1>1, <1>21, <2>1
<1>24. Whole(u, Append(L, b))
  BY <1>1, <1>20, <1>21, <1>22, <1>23 DEF Whole
<1> QED
  BY <1>11, <1>21, <1>24

(* A removal by either of the two functions. *)
LEMMA RemoveIs ==
  ASSUME NEW t, NEW L, Whole(t, L), NEW k \in 1 .. Len(L), NEW b, b = L[k],
         NEW u, u = HashApplyDeleter(t, b) \/ u = HashDeleteKeyOrIndex(t, b)
  PROVE  /\ Whole(u, Unlinked(L, k)) /\ Live(u) = Live(t) \ {b}
         /\ u.cursor = (IF t.cursor = b THEN At(L, k + 1) ELSE t.cursor)
         /\ u.next = t.next
         /\ \A q \in Live(u) : u.bucket[q].key = t.bucket[q].key
               /\ u.bucket[q].data = t.bucket[q].data
<1> DEFINE n == t.size
<1>1. /\ n \in Nat \ {0} /\ t \in Tables(n) /\ ListOn(t, L) /\ t.count = Cardinality(Live(t))
      /\ t.cursor \in Live(t) \cup {NULL}
  BY DEF Whole
<1>2. PICK C : ChainsOn(t, C, Live(t))
  BY DEF Whole
<1>3. PICK M : M = Live(t)
  OBVIOUS
<1> HIDE DEF n
<1>4. b \in Live(t)
  BY <1>1, ListFacts
<1>5. PICK first \in BOOLEAN : /\ u = Removed(t, b, first)
                               /\ first <=> t.buckets[InSlot(t, b)] = b
  <2>1. ChainsOn(t, C, M) /\ b \in M
    BY <1>2, <1>3, <1>4
  <2>2. t.bucket[b].last = NULL <=> t.buckets[InSlot(t, b)] = b
    <3>1. \E j \in 1 .. Len(C[InSlot(t, b)]) :
            /\ t.bucket[b].last = NULL <=> j = 1
            /\ t.buckets[InSlot(t, b)] = b <=> j = 1
      BY <1>1, <2>1, InChain
    <3> QED
      BY <3>1
  <2>3. CASE u = HashApplyDeleter(t, b)
    <3>1. u = Removed(t, b, t.bucket[b].last = NULL)
      BY <2>3 DEF HashApplyDeleter
    <3> QED
      BY <2>2, <3>1
  <2>4. CASE u = HashDeleteKeyOrIndex(t, b)
    <3>1. u = Removed(t, b, t.buckets[InSlot(t, b)] = b)
      BY <2>4 DEF HashDeleteKeyOrIndex, InSlot, KeyAt
    <3> QED
      BY <3>1
  <2> QED
    BY <2>3, <2>4
<1>6. Cardinality(Live(t)) \in Nat \ {0} /\ Cardinality(Live(t) \ {b}) = Cardinality(Live(t)) - 1
  BY <1>4, LiveFinite, FS_RemoveElement, FS_EmptySet
<1>7. t.count # 0
  BY <1>1, <1>6
<1>8. /\ u \in Tables(n) /\ Live(u) = Live(t) \ {b}
      /\ ListOn(u, Unlinked(L, k))
      /\ \E D : ChainsOn(u, D, Live(u))
      /\ u.cursor = (IF t.cursor = b THEN At(L, k + 1) ELSE t.cursor)
      /\ u.count = t.count - 1 /\ u.next = t.next
      /\ \A q \in Live(u) : u.bucket[q].key = t.bucket[q].key /\ u.bucket[q].data = t.bucket[q].data
  BY <1>1, <1>2, <1>5, <1>7, RemovedIs
<1>9. u.cursor \in Live(u) \cup {NULL}
  <2>1. At(L, k + 1) \in Live(u) \cup {NULL}
    <3>1. \A i \in 1 .. Len(L) : L[i] \in Live(t)
      BY <1>1, ListFacts
    <3>2. \A i, j \in 1 .. Len(L) : L[i] = L[j] => i = j
      BY <1>1, ListFacts
    <3>3. k + 1 # k
      OBVIOUS
    <3> QED
      BY <1>8, <3>1, <3>2, <3>3 DEF At
  <2> QED
    BY <1>1, <1>8, <2>1
<1>10. Whole(u, Unlinked(L, k))
  <2>1. u.size = n
    BY <1>1, <1>8, TableFacts
  <2>2. u.count = Cardinality(Live(u))
    BY <1>1, <1>6, <1>8
  <2> QED
    BY <1>1, <1>8, <1>9, <2>1, <2>2 DEF Whole
<1> QED
  BY <1>8, <1>10

(* A stored value changes nothing of the lists. *)
LEMMA StoreIs ==
  ASSUME NEW t, NEW L, Whole(t, L), NEW b \in Live(t), NEW v \in Values, NEW x \in 0 .. Word - 1,
         NEW u, u = Counted(WithBucket(t, b, [t.bucket[b] EXCEPT !.data = v]), t.count, x)
  PROVE  /\ Whole(u, L) /\ Live(u) = Live(t) /\ u.cursor = t.cursor /\ u.next = x
         /\ u.bucket[b].key = t.bucket[b].key /\ u.bucket[b].data = v
         /\ \A q \in Live(t) \ {b} : u.bucket[q].key = t.bucket[q].key
               /\ u.bucket[q].data = t.bucket[q].data
<1> DEFINE n == t.size
<1>1. /\ n \in Nat \ {0} /\ t \in Tables(n) /\ ListOn(t, L) /\ t.count = Cardinality(Live(t))
      /\ t.cursor \in Live(t) \cup {NULL}
  BY DEF Whole
<1>2. PICK C : ChainsOn(t, C, Live(t))
  BY DEF Whole
<1>3. PICK M : M = Live(t)
  OBVIOUS
<1> HIDE DEF n
<1>4. /\ t.bucket \in Heaps /\ b \in Addresses /\ t.bucket[b] \in Buckets
      /\ t.bucket[b] # NULL /\ Live(t) \subseteq Addresses /\ t.count \in Nat
      /\ NULL \notin Buckets
  BY <1>1, TableFacts, HashAssumption
<1>5. PICK r : r = [t.bucket[b] EXCEPT !.data = v]
  OBVIOUS
<1>6. /\ r \in Buckets /\ r # NULL /\ r.data = v /\ r.key = t.bucket[b].key
      /\ r.next = t.bucket[b].next /\ r.last = t.bucket[b].last
      /\ r.listNext = t.bucket[b].listNext /\ r.listLast = t.bucket[b].listLast
  BY <1>4, <1>5 DEF Buckets
<1>7. PICK h : h = [t.bucket EXCEPT ![b] = r]
  OBVIOUS
<1>8. h \in Heaps /\ h[b] = r /\ \A q \in Addresses \ {b} : h[q] = t.bucket[q]
  BY <1>4, <1>6, <1>7 DEF Heaps
<1>9. u = [t EXCEPT !.bucket = h, !.next = x]
  BY <1>1, <1>5, <1>7 DEF Tables, WithBucket, Counted
<1>10. /\ u \in Tables(n) /\ u.bucket = h /\ u.buckets = t.buckets
       /\ u.head = t.head /\ u.tail = t.tail /\ u.cursor = t.cursor
       /\ u.count = t.count /\ u.next = x /\ u.size = t.size
  BY <1>1, <1>8, <1>9 DEF Tables, Heaps
<1>11. Live(u) = Live(t)
  BY <1>4, <1>6, <1>8, <1>10 DEF Live
<1>12. \A q \in Live(t) :
         /\ u.bucket[q].key = t.bucket[q].key
         /\ u.bucket[q].next = t.bucket[q].next
         /\ u.bucket[q].last = t.bucket[q].last
         /\ u.bucket[q].listNext = t.bucket[q].listNext
         /\ u.bucket[q].listLast = t.bucket[q].listLast
  BY <1>4, <1>6, <1>8, <1>10
<1>13. ListOn(u, L)
  BY <1>1, <1>10, <1>11, <1>12, ListKept
<1>14. ChainsOn(u, C, M)
  BY <1>2, <1>3, <1>10, <1>11, <1>12, ChainsKept
<1>15. Whole(u, L)
  <2>1. u.size = n
    BY <1>1, <1>10, TableFacts
  <2>2. ChainsOn(u, C, Live(u)) /\ u.count = Cardinality(Live(u))
              /\ u.cursor \in Live(u) \cup {NULL}
    BY <1>1, <1>3, <1>10, <1>11, <1>14
  <2> QED
    BY <1>1, <1>10, <1>13, <2>1, <2>2 DEF Whole
<1> QED
  BY <1>4, <1>6, <1>8, <1>10, <1>11, <1>15

(* The internal pointer is nobody's pointer. *)
LEMMA CursorIs ==
  ASSUME NEW t, NEW L, Whole(t, L), NEW p \in Live(t) \cup {NULL},
         NEW u, u = [t EXCEPT !.cursor = p]
  PROVE  Whole(u, L) /\ Live(u) = Live(t) /\ u.cursor = p /\ u.next = t.next /\ u.bucket = t.bucket
<1> DEFINE n == t.size
<1>1. /\ n \in Nat \ {0} /\ t \in Tables(n) /\ ListOn(t, L) /\ t.count = Cardinality(Live(t))
  BY DEF Whole
<1>2. PICK C : ChainsOn(t, C, Live(t))
  BY DEF Whole
<1>3. PICK M : M = Live(t)
  OBVIOUS
<1> HIDE DEF n
<1>4. p \in Pointers
  BY DEF Live, Pointers
<1>5. /\ u \in Tables(n) /\ u.bucket = t.bucket /\ u.buckets = t.buckets
      /\ u.head = t.head /\ u.tail = t.tail /\ u.cursor = p
      /\ u.count = t.count /\ u.next = t.next /\ u.size = t.size
  BY <1>1, <1>4 DEF Tables
<1>6. Live(u) = Live(t)
  BY <1>5 DEF Live
<1>7. ListOn(u, L)
  BY <1>1, <1>5, <1>6, ListKept
<1>8. ChainsOn(u, C, M)
  BY <1>2, <1>3, <1>5, <1>6, ChainsKept
<1>9. Whole(u, L)
  <2>1. u.size = n
    BY <1>1, <1>5, TableFacts
  <2>2. ChainsOn(u, C, Live(u)) /\ u.count = Cardinality(Live(u))
              /\ u.cursor \in Live(u) \cup {NULL}
    BY <1>1, <1>3, <1>5, <1>6, <1>8
  <2> QED
    BY <1>1, <1>5, <1>7, <2>1, <2>2 DEF Whole
<1> QED
  BY <1>5, <1>6, <1>9

(* A table without elements. *)
LEMMA EmptyIs ==
  ASSUME NEW n \in Nat \ {0}, NEW u \in Tables(n), NEW h \in Heaps,
         NEW s \in [0 .. n - 1 -> Pointers],
         \A b \in Addresses : h[b] = NULL, \A i \in 0 .. n - 1 : s[i] = NULL,
         u.bucket = h, u.buckets = s, u.head = NULL, u.tail = NULL, u.cursor = NULL,
         u.count = 0, u.size = n
  PROVE  Whole(u, << >>) /\ Live(u) = {}
<1> DEFINE C == [i \in 0 .. n - 1 |-> << >>]
<1>6. Live(u) = {}
  BY DEF Live
<1>7. ListOn(u, << >>)
  <2>1. Path(<< >>, NULL, ListNext(u), ListLast(u))
    BY DEF Path, At, NoDuplicates
  <2>2. Range(<< >>) = {} /\ At(<< >>, Len(<< >>)) = NULL
    BY DEF Range, At
  <2> QED
    BY <1>6, <2>1, <2>2 DEF ListOn
<1>8. ChainsOn(u, C, Live(u))
  <2>1. Path(<< >>, NULL, ChainNext(u), ChainLast(u))
    BY DEF Path, At, NoDuplicates
  <2>2. Range(<< >>) = {}
    BY DEF Range
  <2>3. C \in [0 .. n - 1 -> Seq(Addresses)] /\ \A i \in 0 .. n - 1 : C[i] = << >>
    OBVIOUS
  <2> HIDE DEF C
  <2> QED
    BY <1>6, <2>1, <2>2, <2>3 DEF ChainsOn
<1>9. u.count = Cardinality(Live(u))
  BY <1>6, FS_EmptySet
<1> QED
  BY <1>6, <1>7, <1>8, <1>9 DEF Whole

(* HashClear *)
Cleared(t) ==
  [t EXCEPT !.bucket = [b \in Addresses |-> NULL], !.buckets = EmptyBuckets(t.size),
            !.head = NULL, !.tail = NULL, !.count = 0, !.next = 0, !.cursor = NULL]

(* A cleared table is sound and empty. *)
LEMMA ClearIs ==
  ASSUME NEW t, NEW L, Whole(t, L),
         NEW u, u = Cleared(t)
  PROVE  Whole(u, << >>) /\ Live(u) = {} /\ u.cursor = NULL /\ u.next = 0
<1> DEFINE n == t.size
           h == [b \in Addresses |-> NULL]
           s == EmptyBuckets(n)
<1>1. n \in Nat \ {0} /\ t \in Tables(n)
  BY DEF Whole
<1>2. s \in [0 .. n - 1 -> Pointers] /\ h \in Heaps /\ \A i \in 0 .. n - 1 : s[i] = NULL
  BY DEF EmptyBuckets, Pointers, Heaps
<1>3. u = [t EXCEPT !.bucket = h, !.buckets = s, !.head = NULL, !.tail = NULL, !.count = 0,
                    !.next = 0, !.cursor = NULL]
  BY DEF Cleared
<1>4. \A b \in Addresses : h[b] = NULL
  OBVIOUS
<1> HIDE DEF n, h, s
<1>5. /\ u \in Tables(n) /\ u.bucket = h /\ u.buckets = s
      /\ u.head = NULL /\ u.tail = NULL /\ u.cursor = NULL
      /\ u.count = 0 /\ u.next = 0 /\ u.size = n
  <2>1. 0 \in 0 .. Word - 1 /\ NULL \in Pointers
    BY HashAssumption DEF Pointers
  <2>2. t.size = n
    BY <1>1, TableFacts
  <2>3. /\ u.bucket = h /\ u.buckets = s /\ u.head = NULL /\ u.tail = NULL
        /\ u.cursor = NULL /\ u.count = 0 /\ u.next = 0 /\ u.size = n
    BY <1>1, <1>3, <2>2 DEF Tables
  <2>4. u \in Tables(n)
    <3>1. 0 \in Nat
      OBVIOUS
    <3> QED
      BY <1>1, <1>2, <1>3, <2>1, <3>1 DEF Tables, Heaps
  <2> QED
    BY <2>3, <2>4
<1> QED
  BY <1>1, <1>2, <1>4, <1>5, EmptyIs

(* HashUpdateCurrentKeyEx: the element is unchained, and then goes to the
   chain of the new key where it is or at another address. *)
Off(t, b) == Unchained(t, b, t.bucket[b].last = NULL)

(* An element taken out of its chain is still in the list. *)
LEMMA OffIs ==
  ASSUME NEW t, NEW L, Whole(t, L), NEW b \in Live(t), NEW u, u = Off(t, b)
  PROVE  /\ Loose(u, L, b) /\ Live(u) = Live(t)
         /\ u.cursor = t.cursor /\ u.next = t.next
         /\ \A q \in Live(t) : u.bucket[q].key = t.bucket[q].key
               /\ u.bucket[q].data = t.bucket[q].data
<1> DEFINE n == t.size
<1>1. /\ n \in Nat \ {0} /\ t \in Tables(n) /\ ListOn(t, L) /\ t.count = Cardinality(Live(t))
      /\ t.cursor \in Live(t) \cup {NULL}
  BY DEF Whole
<1>2. PICK C : ChainsOn(t, C, Live(t))
  BY DEF Whole
<1>3. PICK M : M = Live(t)
  OBVIOUS
<1> HIDE DEF n
<1>4. PICK first \in BOOLEAN : first = (t.bucket[b].last = NULL)
  OBVIOUS
<1>5. u = Unchained(t, b, first)
  BY <1>4 DEF Off
<1>6. ChainsOn(t, C, M) /\ b \in M
  BY <1>2, <1>3
<1>7. first <=> t.buckets[InSlot(t, b)] = b
  <2>1. \E j \in 1 .. Len(C[InSlot(t, b)]) :
          /\ t.bucket[b].last = NULL <=> j = 1
          /\ t.buckets[InSlot(t, b)] = b <=> j = 1
    BY <1>1, <1>6, InChain
  <2> QED
    BY <1>4, <2>1
<1>8. /\ u \in Tables(n) /\ Kept(u, t)
      /\ \E D : ChainsOn(u, D, M \ {b})
  BY <1>1, <1>5, <1>6, <1>7, ChainsUnchained
<1>9. /\ Live(u) = Live(t) /\ u.head = t.head /\ u.tail = t.tail
      /\ u.cursor = t.cursor /\ u.count = t.count /\ u.next = t.next
      /\ \A q \in Live(t) :
           /\ u.bucket[q].key = t.bucket[q].key /\ u.bucket[q].data = t.bucket[q].data
           /\ u.bucket[q].listNext = t.bucket[q].listNext
           /\ u.bucket[q].listLast = t.bucket[q].listLast
  BY <1>8 DEF Kept
<1>10. ListOn(u, L)
  BY <1>1, <1>9, ListKept
<1>11. u.size = n
  BY <1>1, <1>8, TableFacts
<1>12. \E C2 : ChainsOn(u, C2, Live(u) \ {b})
  BY <1>3, <1>8, <1>9
<1>13. Loose(u, L, b)
  BY <1>1, <1>8, <1>9, <1>10, <1>11, <1>12 DEF Loose
<1> QED
  BY <1>9, <1>13

(* An element in no chain may move to another address. *)
LEMMA MoveIs ==
  ASSUME NEW t, NEW L, NEW k \in 1 .. Len(L), NEW b, b = L[k], Loose(t, L, b),
         NEW a \in Addresses \ Live(t), NEW u, u = Moved(t, b, a)
  PROVE  /\ Loose(u, [L EXCEPT ![k] = a], a) /\ Live(u) = (Live(t) \ {b}) \cup {a}
         /\ u.cursor = (IF t.cursor = b THEN a ELSE t.cursor) /\ u.next = t.next
         /\ u.bucket[a].key = t.bucket[b].key /\ u.bucket[a].data = t.bucket[b].data
         /\ \A q \in Live(t) \ {b} : u.bucket[q].key = t.bucket[q].key
               /\ u.bucket[q].data = t.bucket[q].data
<1> DEFINE n == t.size
<1>1. /\ n \in Nat \ {0} /\ t \in Tables(n) /\ t.count = Cardinality(Live(t))
      /\ t.cursor \in Live(t) \cup {NULL} /\ ListOn(t, L) /\ b \in Live(t)
  BY DEF Loose
<1>2. PICK C : ChainsOn(t, C, Live(t) \ {b})
  BY DEF Loose
<1>3. PICK M : M = Live(t) \ {b}
  OBVIOUS
<1> HIDE DEF n
<1>4. ChainsOn(t, C, M) /\ b \notin M
  BY <1>2, <1>3
<1>5. /\ u \in Tables(n) /\ Live(u) = (Live(t) \ {b}) \cup {a}
      /\ ListOn(u, [L EXCEPT ![k] = a])
      /\ ChainsOn(u, C, M)
      /\ u.cursor = (IF t.cursor = b THEN a ELSE t.cursor)
      /\ u.count = t.count /\ u.next = t.next
      /\ u.bucket[a].key = t.bucket[b].key /\ u.bucket[a].data = t.bucket[b].data
      /\ \A q \in Live(t) \ {b} : /\ u.bucket[q].key = t.bucket[q].key
                                  /\ u.bucket[q].data = t.bucket[q].data
  BY <1>1, <1>4, MovedIs
<1>6. u.count = Cardinality(Live(u))
  <2>1. Cardinality(Live(t) \ {b}) = Cardinality(Live(t)) - 1 /\ IsFiniteSet(Live(t) \ {b})
    BY <1>1, LiveFinite, FS_RemoveElement
  <2>2. Cardinality((Live(t) \ {b}) \cup {a}) = Cardinality(Live(t) \ {b}) + 1
    BY <2>1, FS_AddElement
  <2>3. Cardinality(Live(t)) \in Nat
    BY LiveFinite
  <2> QED
    BY <1>1, <1>5, <2>1, <2>2, <2>3
<1>7. u.size = n
  BY <1>1, <1>5, TableFacts
<1>8. u.cursor \in Live(u) \cup {NULL} /\ a \in Live(u) /\ Live(u) \ {a} = M
  BY <1>1, <1>3, <1>5
<1>9. \E E : ChainsOn(u, E, Live(u) \ {a})
  BY <1>5, <1>8
<1>10. Loose(u, [L EXCEPT ![k] = a], a)
  BY <1>1, <1>5, <1>6, <1>7, <1>8, <1>9 DEF Loose
<1> QED
  BY <1>5, <1>10

(* HashSort, without and with new numbers for the elements. *)
LEMMA SortIs ==
  ASSUME NEW t, NEW L, Whole(t, L), Live(t) # {}, NEW order \in SetToSeqs(Live(t)),
         NEW u, u = Linked(t, order)
  PROVE  /\ Whole(u, order) /\ Live(u) = Live(t)
         /\ u.cursor = order[1] /\ u.next = t.next
         /\ \A q \in Live(t) : u.bucket[q].key = t.bucket[q].key
               /\ u.bucket[q].data = t.bucket[q].data
<1> DEFINE n == t.size
<1>1. /\ n \in Nat \ {0} /\ t \in Tables(n) /\ t.count = Cardinality(Live(t))
  BY DEF Whole
<1>2. PICK C : ChainsOn(t, C, Live(t))
  BY DEF Whole
<1> HIDE DEF n
<1>3. /\ u \in Tables(n) /\ Live(u) = Live(t) /\ ListOn(u, order)
      /\ ChainsOn(u, C, Live(u))
      /\ u.cursor = order[1] /\ order[1] \in Live(t)
      /\ u.count = t.count /\ u.next = t.next
      /\ \A q \in Live(t) : u.bucket[q].key = t.bucket[q].key /\ u.bucket[q].data = t.bucket[q].data
  BY <1>1, <1>2, LinkedIs
<1>4. u.size = n
  BY <1>1, <1>3, TableFacts
<1>5. Whole(u, order)
  BY <1>1, <1>3, <1>4 DEF Whole
<1> QED
  BY <1>3, <1>5

(* A sorted table whose elements are numbered again is sound. *)
LEMMA RenumberIs ==
  ASSUME NEW t, NEW order \in SetToSeqs(Live(t)), Whole(t, order),
         NEW u, u = Renumbered(t, order)
  PROVE  /\ Whole(u, order) /\ Live(u) = Live(t)
         /\ u.cursor = t.cursor /\ u.next = Len(order)
         /\ \A i \in 1 .. Len(order) :
              /\ u.bucket[order[i]].key = [str |-> NULL, h |-> i - 1]
              /\ u.bucket[order[i]].data = t.bucket[order[i]].data
<1> DEFINE n == t.size
<1>1. /\ n \in Nat \ {0} /\ t \in Tables(n) /\ t.count = Cardinality(Live(t)) /\ ListOn(t, order)
      /\ t.cursor \in Live(t) \cup {NULL}
  BY DEF Whole
<1> HIDE DEF n
<1>3. /\ u \in Tables(n) /\ Live(u) = Live(t) /\ ListOn(u, order)
      /\ \E D : ChainsOn(u, D, Live(u))
      /\ u.cursor = t.cursor /\ u.count = t.count /\ u.next = Len(order)
      /\ \A i \in 1 .. Len(order) :
           /\ u.bucket[order[i]].key = [str |-> NULL, h |-> i - 1]
           /\ u.bucket[order[i]].data = t.bucket[order[i]].data
  BY <1>1, RenumberedIs
<1>4. u.size = n
  BY <1>1, <1>3, TableFacts
<1>5. Whole(u, order)
  BY <1>1, <1>3, <1>4 DEF Whole
<1> QED
  BY <1>3, <1>5

-----------------------------------------------------------------------------
(* The applies that are running *)

Frames(t) == [at : Live(t) \cup {NULL}, kind : Applies, due : SUBSET Live(t)]

(* An apply still has in front of it, in its direction, what it owes. *)
InOrder(f, L) ==
  /\ f.at = NULL => f.due = {}
  /\ \A i, j \in 1 .. Len(L) :
       L[i] = f.at /\ L[j] \in f.due => IF f.kind = "reverse" THEN j <= i ELSE i <= j

FramesOn(t, L, fs) ==
  fs \in Seq(Frames(t)) /\ \A i \in 1 .. Len(fs) : InOrder(fs[i], L)

(* What is in both lists is in the same order in them. *)
SameOrder(L, K) ==
  \A p, q \in 1 .. Len(K), i, j \in 1 .. Len(L) :
    K[p] = L[i] /\ K[q] = L[j] => (i <= j <=> p <= q)

(* An apply owes nothing behind it if the order of the list is kept. *)
LEMMA FrameCarried ==
  ASSUME NEW t, NEW u, NEW L, NEW K, SameOrder(L, K), ListOn(t, L),
         NEW f \in Frames(t), InOrder(f, L),
         NEW g \in Frames(u), g.at = f.at, g.kind = f.kind, g.due \subseteq f.due
  PROVE  InOrder(g, K)
<1>1. g.at = NULL => g.due = {}
  BY DEF InOrder
<1>2. ASSUME NEW p \in 1 .. Len(K), NEW q \in 1 .. Len(K), K[p] = g.at, K[q] \in g.due
      PROVE  IF g.kind = "reverse" THEN q <= p ELSE p <= q
  <2>0. \A x \in Live(t) : \E i \in 1 .. Len(L) : x = L[i]
    BY OnList
  <2>1. f.at \in Live(t) /\ K[q] \in Live(t)
    <3>1. f.at \in Live(t) \cup {NULL} /\ f.due \subseteq Live(t)
      BY DEF Frames
    <3>2. f.at # NULL
      BY <1>1, <1>2
    <3> QED
      BY <1>2, <3>1, <3>2
  <2>2. PICK i \in 1 .. Len(L) : f.at = L[i]
    BY <2>0, <2>1
  <2>3. PICK j \in 1 .. Len(L) : K[q] = L[j]
    BY <2>0, <2>1
  <2>4. IF f.kind = "reverse" THEN j <= i ELSE i <= j
    BY <1>2, <2>2, <2>3 DEF InOrder
  <2>5. (i <= j <=> p <= q) /\ (j <= i <=> q <= p)
    BY <1>2, <2>2, <2>3 DEF SameOrder
  <2> QED
    BY <2>4, <2>5
<1> QED
  BY <1>1, <1>2 DEF InOrder

(* The step of the loop *)
LEMMA FrameSteps ==
  ASSUME NEW t, NEW L, ListOn(t, L), NEW f \in Frames(t), InOrder(f, L),
         NEW k \in 1 .. Len(L), f.at = L[k],
         NEW g \in Frames(t), g.kind = f.kind, g.due = f.due \ {L[k]},
         g.at = At(L, IF f.kind = "reverse" THEN k - 1 ELSE k + 1)
  PROVE  InOrder(g, L)
<1>1. /\ Len(L) \in Nat /\ \A i \in 1 .. Len(L) : L[i] # NULL
      /\ \A i, j \in 1 .. Len(L) : L[i] = L[j] => i = j
      /\ \A q \in Live(t) : \E i \in 1 .. Len(L) : q = L[i]
  BY ListFacts
<1>2. f.due \subseteq Live(t)
  BY DEF Frames
<1>3. \A j \in 1 .. Len(L) : L[j] \in g.due => IF f.kind = "reverse" THEN j < k ELSE k < j
  <2>1. \A j \in 1 .. Len(L) : L[j] \in g.due => j # k /\ L[j] \in f.due
    OBVIOUS
  <2>2. \A j \in 1 .. Len(L) : L[j] \in f.due => IF f.kind = "reverse" THEN j <= k ELSE k <= j
    BY DEF InOrder
  <2> QED
    BY <1>1, <2>1, <2>2
<1>4. g.at = NULL => g.due = {}
  <2>1. ASSUME g.at = NULL, NEW q \in g.due PROVE FALSE
    <3>1. PICK j \in 1 .. Len(L) : q = L[j]
      BY <1>1, <1>2, <2>1
    <3>2. IF f.kind = "reverse" THEN j < k ELSE k < j
      BY <1>3, <2>1, <3>1
    <3>3. IF f.kind = "reverse" THEN k - 1 \in 1 .. Len(L) ELSE k + 1 \in 1 .. Len(L)
      BY <1>1, <3>2
    <3> QED
      BY <1>1, <2>1, <3>3 DEF At
  <2> QED
    BY <2>1
<1>5. ASSUME NEW i \in 1 .. Len(L), NEW j \in 1 .. Len(L), L[i] = g.at, L[j] \in g.due
      PROVE  IF g.kind = "reverse" THEN j <= i ELSE i <= j
  <2>1. i = IF f.kind = "reverse" THEN k - 1 ELSE k + 1
    BY <1>1, <1>5 DEF At
  <2>2. IF f.kind = "reverse" THEN j < k ELSE k < j
    BY <1>3, <1>5
  <2> QED
    BY <1>1, <2>1, <2>2
<1> QED
  BY <1>4, <1>5 DEF InOrder

(* An element at the end leaves the order of the others alone. *)
LEMMA OrderAppended ==
  ASSUME NEW t, NEW L, ListOn(t, L), NEW b \in Addresses \ Live(t)
  PROVE  SameOrder(L, Append(L, b))
<1> DEFINE K == Append(L, b)
<1>1. /\ Len(L) \in Nat /\ L \in Seq(Addresses)
      /\ \A i \in 1 .. Len(L) : L[i] \in Live(t)
      /\ \A i, j \in 1 .. Len(L) : L[i] = L[j] => i = j
  BY ListFacts
<1>2. Len(K) = Len(L) + 1 /\ K[Len(L) + 1] = b /\ \A i \in 1 .. Len(L) : K[i] = L[i]
  BY <1>1
<1> HIDE DEF K
<1>3. ASSUME NEW p \in 1 .. Len(K), NEW i \in 1 .. Len(L), K[p] = L[i]
      PROVE  p = i
  <2>1. p # Len(L) + 1
    BY <1>1, <1>2, <1>3
  <2>2. p \in 1 .. Len(L)
    BY <1>1, <1>2, <2>1
  <2> QED
    BY <1>1, <1>2, <1>3, <2>2
<1>4. SameOrder(L, K)
  BY <1>3 DEF SameOrder
<1> QED
  BY <1>4 DEF K

(* So does the removal of one. *)
LEMMA OrderUnlinked ==
  ASSUME NEW t, NEW L, ListOn(t, L), NEW k \in 1 .. Len(L)
  PROVE  SameOrder(L, Unlinked(L, k))
<1> DEFINE K == Unlinked(L, k)
<1>1. /\ Len(L) \in Nat
      /\ \A i, j \in 1 .. Len(L) : L[i] = L[j] => i = j
  BY ListFacts
<1>2. Len(K) = Len(L) - 1 /\ \A p \in 1 .. Len(K) : K[p] = IF p < k THEN L[p] ELSE L[p + 1]
  BY <1>1 DEF Unlinked
<1> HIDE DEF K
<1>3. ASSUME NEW p \in 1 .. Len(K), NEW i \in 1 .. Len(L), K[p] = L[i]
      PROVE  i = IF p < k THEN p ELSE p + 1
  <2>1. p \in 1 .. Len(L) /\ p + 1 \in 1 .. Len(L)
    BY <1>1, <1>2
  <2> QED
    BY <1>1, <1>2, <1>3, <2>1
<1>4. ASSUME NEW p \in 1 .. Len(K), NEW q \in 1 .. Len(K), NEW i \in 1 .. Len(L),
             NEW j \in 1 .. Len(L),
             K[p] = L[i], K[q] = L[j]
      PROVE  i <= j <=> p <= q
  <2>1. i = (IF p < k THEN p ELSE p + 1) /\ j = IF q < k THEN q ELSE q + 1
    BY <1>3, <1>4
  <2> QED
    BY <1>1, <1>2, <2>1
<1>5. SameOrder(L, K)
  BY <1>4 DEF SameOrder
<1> QED
  BY <1>5 DEF K

(* And so does no change. *)
LEMMA OrderItself ==
  ASSUME NEW t, NEW L, ListOn(t, L)
  PROVE  SameOrder(L, L)
BY ListFacts DEF SameOrder

(* The frames of a table that has the elements of the old one at least. *)
LEMMA FramesGrow ==
  ASSUME NEW t, NEW u, NEW L, NEW K, SameOrder(L, K), ListOn(t, L),
         NEW fs, FramesOn(t, L, fs), Live(t) \subseteq Live(u)
  PROVE  FramesOn(u, K, fs)
<1>1. fs \in Seq(Frames(t)) /\ \A i \in 1 .. Len(fs) : InOrder(fs[i], L)
  BY DEF FramesOn
<1>2. Frames(t) \subseteq Frames(u)
  BY DEF Frames
<1>3. fs \in Seq(Frames(u))
  BY <1>1, <1>2
<1>4. ASSUME NEW i \in 1 .. Len(fs) PROVE InOrder(fs[i], K)
  <2>1. fs[i] \in Frames(t) /\ fs[i] \in Frames(u) /\ InOrder(fs[i], L)
    BY <1>1, <1>2
  <2>2. PICK f : f = fs[i]
    OBVIOUS
  <2>3. f \in Frames(t) /\ f \in Frames(u) /\ InOrder(f, L)
    BY <2>1, <2>2
  <2>4. InOrder(f, K)
    BY <2>3, FrameCarried
  <2> QED
    BY <2>2, <2>4
<1> QED
  BY <1>3, <1>4 DEF FramesOn

(* What is removed is no apply's place, and nothing is owed for it. *)
LEMMA FramesShrink ==
  ASSUME NEW t, NEW u, NEW L, NEW K, SameOrder(L, K), ListOn(t, L),
         NEW fs, FramesOn(t, L, fs), NEW b, Live(u) = Live(t) \ {b},
         \A i \in 1 .. Len(fs) : fs[i].at # b,
         NEW gs, gs = NotDue(fs, b)
  PROVE  FramesOn(u, K, gs)
<1>1. /\ fs \in Seq(Frames(t)) /\ Len(fs) \in Nat /\ DOMAIN fs = 1 .. Len(fs)
      /\ \A i \in 1 .. Len(fs) : fs[i] \in Frames(t) /\ InOrder(fs[i], L)
  BY DEF FramesOn
<1>2. gs = [i \in 1 .. Len(fs) |-> [fs[i] EXCEPT !.due = @ \ {b}]]
  BY <1>1 DEF NotDue
<1>3. ASSUME NEW i \in 1 .. Len(fs) PROVE gs[i] \in Frames(u) /\ InOrder(gs[i], K)
  <2>1. PICK f : f = fs[i]
    OBVIOUS
  <2>2. PICK g : g = gs[i]
    OBVIOUS
  <2>3. f \in Frames(t) /\ InOrder(f, L) /\ f.at # b
    BY <1>1, <2>1
  <2>4. g = [f EXCEPT !.due = @ \ {b}]
    BY <1>2, <2>1, <2>2
  <2>5. g \in Frames(u) /\ g.at = f.at /\ g.kind = f.kind /\ g.due \subseteq f.due
    BY <2>3, <2>4 DEF Frames
  <2>6. InOrder(g, K)
    BY <2>3, <2>5, FrameCarried
  <2> QED
    BY <2>2, <2>5, <2>6
<1>4. gs \in Seq(Frames(u)) /\ Len(gs) = Len(fs)
  BY <1>1, <1>2, <1>3
<1> QED
  BY <1>3, <1>4 DEF FramesOn

(* An apply that begins is put behind the others. *)
LEMMA FramesAppended ==
  ASSUME NEW t, NEW L, NEW fs, FramesOn(t, L, fs), NEW g \in Frames(t), InOrder(g, L)
  PROVE  FramesOn(t, L, Append(fs, g))
<1> DEFINE gs == Append(fs, g)
<1>1. /\ fs \in Seq(Frames(t)) /\ Len(fs) \in Nat
      /\ \A i \in 1 .. Len(fs) : InOrder(fs[i], L)
  BY DEF FramesOn
<1>2. gs \in Seq(Frames(t))
  BY <1>1
<1>3. Len(gs) = Len(fs) + 1 /\ gs[Len(fs) + 1] = g /\ \A i \in 1 .. Len(fs) : gs[i] = fs[i]
  BY <1>1
<1> HIDE DEF gs
<1>4. ASSUME NEW i \in 1 .. Len(gs) PROVE InOrder(gs[i], L)
  <2>1. i = Len(fs) + 1 \/ i \in 1 .. Len(fs)
    BY <1>1, <1>3
  <2> QED
    BY <1>1, <1>3, <2>1
<1>5. FramesOn(t, L, gs)
  BY <1>2, <1>4 DEF FramesOn
<1> QED
  BY <1>5 DEF gs

(* The innermost apply ends. *)
LEMMA FramesEnd ==
  ASSUME NEW t, NEW L, NEW fs, FramesOn(t, L, fs), fs # << >>
  PROVE  /\ FramesOn(t, L, Front(fs))
         /\ Last(fs) \in Frames(t) /\ InOrder(Last(fs), L)
         /\ Len(Front(fs)) = Len(fs) - 1 /\ Len(fs) \in Nat \ {0}
         /\ \A i \in 1 .. Len(fs) - 1 : Front(fs)[i] = fs[i]
<1>1. /\ fs \in Seq(Frames(t)) /\ Len(fs) \in Nat \ {0}
      /\ \A i \in 1 .. Len(fs) : fs[i] \in Frames(t) /\ InOrder(fs[i], L)
  BY DEF FramesOn
<1>2. Front(fs) \in Seq(Frames(t)) /\ Len(Front(fs)) = Len(fs) - 1
      /\ \A i \in 1 .. Len(fs) - 1 : Front(fs)[i] = fs[i]
  <2>1. PICK S : S = Frames(t)
    OBVIOUS
  <2>2. fs \in Seq(S) /\ Len(fs) - 1 \in Nat /\ Len(fs) - 1 <= Len(fs)
    BY <1>1, <2>1
  <2>3. PICK m \in Nat : m = Len(fs) - 1
    BY <2>2
  <2>4. \A i \in 1 .. m : fs[i] \in S
    BY <2>1, <2>2, <2>3
  <2>5. PICK gs : gs = SubSeq(fs, 1, m)
    OBVIOUS
  <2>6. /\ gs \in Seq(S) /\ Len(gs) = IF 1 <= m THEN m - 1 + 1 ELSE 0
        /\ \A i \in 1 .. m - 1 + 1 : gs[i] = fs[1 + i - 1]
    BY <2>4, <2>5, SubSeqProperties
  <2>7. Len(gs) = m /\ \A i \in 1 .. m : gs[i] = fs[i]
    BY <2>6
  <2>8. gs = Front(fs)
    BY <2>3, <2>5 DEF Front
  <2> QED
    BY <2>1, <2>3, <2>6, <2>7, <2>8
<1>3. \A i \in 1 .. Len(Front(fs)) : InOrder(Front(fs)[i], L)
  BY <1>1, <1>2
<1> QED
  BY <1>1, <1>2, <1>3 DEF FramesOn, Last

(* An apply begins at an end of the list and owes everything. *)
LEMMA FrameBegins ==
  ASSUME NEW t, NEW L, ListOn(t, L), NEW kind \in Applies,
         NEW g, g = [at |-> IF kind = "reverse" THEN t.tail ELSE t.head,
                     kind |-> kind, due |-> Live(t)]
  PROVE  g \in Frames(t) /\ InOrder(g, L)
<1>1. /\ Len(L) \in Nat /\ t.head = At(L, 1) /\ t.tail = At(L, Len(L))
      /\ \A i \in 1 .. Len(L) : L[i] \in Live(t) /\ L[i] # NULL
      /\ \A i, j \in 1 .. Len(L) : L[i] = L[j] => i = j
      /\ \A q \in Live(t) : \E i \in 1 .. Len(L) : q = L[i]
  <2>1. Len(L) \in Nat /\ t.head = At(L, 1) /\ t.tail = At(L, Len(L))
    BY ListFacts
  <2>2. /\ \A i \in 1 .. Len(L) : L[i] \in Live(t) /\ L[i] # NULL
        /\ \A i, j \in 1 .. Len(L) : L[i] = L[j] => i = j
    BY ListFacts
  <2>3. \A q \in Live(t) : \E i \in 1 .. Len(L) : q = L[i]
    BY OnList
  <2> QED
    BY <2>1, <2>2, <2>3
<1>2. /\ g.kind = kind /\ g.due = Live(t)
      /\ g.at = At(L, IF kind = "reverse" THEN Len(L) ELSE 1)
  BY <1>1
<1>3. g.at \in Live(t) \cup {NULL}
  BY <1>1, <1>2 DEF At
<1>4. g \in Frames(t)
  BY <1>2, <1>3 DEF Frames
<1>5. g.at = NULL => g.due = {}
  <2>1. ASSUME g.at = NULL, NEW q \in Live(t) PROVE FALSE
    <3>1. PICK i \in 1 .. Len(L) : q = L[i]
      BY <1>1
    <3>2. 1 \in 1 .. Len(L) /\ Len(L) \in 1 .. Len(L)
      BY <1>1, <3>1
    <3> QED
      BY <1>1, <1>2, <2>1, <3>2 DEF At
  <2> QED
    BY <1>2, <2>1
<1>6. ASSUME NEW i \in 1 .. Len(L), NEW j \in 1 .. Len(L), L[i] = g.at
      PROVE  IF g.kind = "reverse" THEN j <= i ELSE i <= j
  <2>1. 1 \in 1 .. Len(L) /\ Len(L) \in 1 .. Len(L)
    BY <1>1
  <2>2. i = IF kind = "reverse" THEN Len(L) ELSE 1
    BY <1>1, <1>2, <1>6, <2>1 DEF At
  <2> QED
    BY <1>1, <1>2, <2>2
<1>7. InOrder(g, L)
  BY <1>5, <1>6 DEF InOrder
<1> QED
  BY <1>4, <1>7

-----------------------------------------------------------------------------
(* The steps of the specification, with the list L of the table. *)
LEMMA InsertSteps ==
  ASSUME NEW L, Whole(table, L), NEW key \in Keys, NEW v \in Values, Insert(key, v)
  PROVE  \E b \in Addresses \ Live(table) :
           /\ Whole(table', Append(L, b)) /\ Live(table') = Live(table) \cup {b}
           /\ table'.bucket[b].key = key /\ table'.bucket[b].data = v
           /\ \A q \in Live(table) : /\ table'.bucket[q].key = table.bucket[q].key
                                     /\ table'.bucket[q].data = table.bucket[q].data
           /\ table'.cursor = (IF table.cursor = NULL THEN b ELSE table.cursor)
           /\ table'.next = After(key, table.next)
           /\ \A q \in Live(table) : table.bucket[q].key # key
<1>1. table.size \in Nat \ {0} /\ table \in Tables(table.size)
  BY DEF Whole
<1>2. PICK C : ChainsOn(table, C, Live(table))
  BY DEF Whole
<1>3. PICK f : f = Find(table, key)
  OBVIOUS
<1>4. f = NULL
  BY <1>3 DEF Insert
<1>5. \A q \in Live(table) : table.bucket[q].key # key
  <2>1. PICK M : M = Live(table)
    OBVIOUS
  <2>2. ChainsOn(table, C, M)
    BY <1>2, <2>1
  <2>3. f = NULL => \A q \in M : table.bucket[q].key # key
    BY <1>1, <1>3, <2>2, FindIs, ZenonT(60)
  <2> QED
    BY <1>4, <2>1, <2>3
<1>6. PICK b \in Addresses \ Live(table) :
        LET fresh == [key |-> key, data |-> v, next |-> NULL, last |-> NULL,
                      listNext |-> NULL, listLast |-> NULL]
            t == ConnectToGlobalList(
                   ConnectToBucketList([table EXCEPT !.bucket[b] = fresh], b), b)
        IN table' \in HashDoResize([t EXCEPT !.count = @ + 1, !.next = After(key, @)])
  BY DEF Insert
<1>7. PICK r : r = [key |-> key, data |-> v, next |-> NULL, last |-> NULL,
                    listNext |-> NULL, listLast |-> NULL]
  OBVIOUS
<1>8. PICK x : x = WithBucket(table, b, r)
  OBVIOUS
<1>9. PICK y : y = ConnectToBucketList(x, b)
  OBVIOUS
<1>10. PICK c : c = ConnectToGlobalList(y, b)
  OBVIOUS
<1>11. PICK w : w = Counted(c, c.count + 1, After(key, c.next))
  OBVIOUS
<1>12. table' \in HashDoResize([c EXCEPT !.count = @ + 1, !.next = After(key, @)])
  BY <1>6, <1>7, <1>8, <1>9, <1>10 DEF WithBucket
<1>13. [c EXCEPT !.count = @ + 1, !.next = After(key, @)] = w
  BY <1>11 DEF Counted
<1>14. table' \in HashDoResize(w)
  BY <1>12, <1>13
<1>15. PICK u : u = table'
  OBVIOUS
<1>16. u \in HashDoResize(w)
  BY <1>14, <1>15
<1>17. /\ Whole(u, Append(L, b)) /\ Live(u) = Live(table) \cup {b}
       /\ u.bucket[b].key = key /\ u.bucket[b].data = v
       /\ \A q \in Live(table) : /\ u.bucket[q].key = table.bucket[q].key
                                 /\ u.bucket[q].data = table.bucket[q].data
       /\ u.cursor = (IF table.cursor = NULL THEN b ELSE table.cursor)
       /\ u.next = After(key, table.next)
  BY <1>7, <1>8, <1>9, <1>10, <1>11, <1>16, InsertIs
<1> QED
  BY <1>5, <1>15, <1>17

(* A key is a word with its string or without one. *)
LEMMA KeysAre ==
  ASSUME NEW t, NEW L, Whole(t, L), NEW b \in Live(t)
  PROVE  /\ t.bucket[b] \in Buckets /\ t.bucket[b].key \in Keys /\ t.bucket[b].data \in Values
         /\ t.bucket[b].key.h \in 0 .. Word - 1
<1>1. t.size \in Nat \ {0} /\ t \in Tables(t.size)
  BY DEF Whole
<1>2. t.bucket \in Heaps /\ b \in Addresses /\ t.bucket[b] # NULL
  BY <1>1, TableFacts DEF Live
<1>3. t.bucket[b] \in Buckets
  BY <1>2 DEF Heaps
<1>4. t.bucket[b].key \in Keys /\ t.bucket[b].data \in Values
  BY <1>3 DEF Buckets
<1>5. \A key \in Keys : key.h \in 0 .. Word - 1
  BY HashAssumption DEF Keys, Indexes
<1> QED
  BY <1>3, <1>4, <1>5

(* A search in a sound table *)
LEMMA FoundIs ==
  ASSUME NEW t, NEW L, Whole(t, L), NEW key \in Keys, NEW b, b = Find(t, key)
  PROVE  /\ b # NULL => b \in Live(t) /\ t.bucket[b].key = key
         /\ b = NULL => \A q \in Live(t) : t.bucket[q].key # key
<1>1. t.size \in Nat \ {0} /\ t \in Tables(t.size)
  BY DEF Whole
<1>2. PICK C : ChainsOn(t, C, Live(t))
  BY DEF Whole
<1>3. PICK M : M = Live(t)
  OBVIOUS
<1>4. ChainsOn(t, C, M)
  BY <1>2, <1>3
<1>5. /\ b # NULL => b \in M /\ t.bucket[b].key = key
      /\ b = NULL => \A q \in M : t.bucket[q].key # key
  BY <1>1, <1>4, FindIs
<1> QED
  BY <1>3, <1>5

(* The operations, one by one: which table they leave and which list. *)
LEMMA UpdateSteps ==
  ASSUME NEW L, Whole(table, L), NEW key \in Keys, NEW v \in Values, Update(key, v)
  PROVE  \E b \in Live(table) :
           /\ Whole(table', L) /\ Live(table') = Live(table)
           /\ table.bucket[b].key = key
           /\ table'.bucket[b].key = key /\ table'.bucket[b].data = v
           /\ \A q \in Live(table) \ {b} : /\ table'.bucket[q].key = table.bucket[q].key
                                           /\ table'.bucket[q].data = table.bucket[q].data
           /\ table'.cursor = table.cursor
           /\ table'.next = After(key, table.next)
<1>1. table.size \in Nat \ {0} /\ table \in Tables(table.size)
  BY DEF Whole
<1>2. PICK b : b = Find(table, key)
  OBVIOUS
<1>3. b # NULL /\ table' = [table EXCEPT !.bucket[b].data = v, !.next = After(key, @)]
  BY <1>2 DEF Update
<1>4. b \in Live(table) /\ table.bucket[b].key = key
  BY <1>2, <1>3, FoundIs
<1>5. table.next \in 0 .. Word - 1
  BY <1>1 DEF Tables
<1>6. PICK x : x = After(key, table.next)
  OBVIOUS
<1>7. x \in 0 .. Word - 1
  BY <1>5, <1>6, AfterTyped
<1>8. PICK u : u = Counted(WithBucket(table, b, [table.bucket[b] EXCEPT !.data = v]),
                          table.count, x)
  OBVIOUS
<1>9. u = table'
  <2>1. PICK r : r = [table.bucket[b] EXCEPT !.data = v]
    OBVIOUS
  <2>2. PICK h : h = [table.bucket EXCEPT ![b] = r]
    OBVIOUS
  <2>3. table' = [table EXCEPT !.bucket = h, !.next = x]
    BY <1>3, <1>6, <2>1, <2>2
  <2>4. u = [[table EXCEPT !.bucket = h] EXCEPT !.count = table.count, !.next = x]
    BY <1>8, <2>1, <2>2 DEF Counted, WithBucket
  <2>5. PICK t : t = table
    OBVIOUS
  <2>6. t \in Tables(t.size)
    BY <1>1, <2>5
  <2>7. [[t EXCEPT !.bucket = h] EXCEPT !.count = t.count, !.next = x]
          = [t EXCEPT !.bucket = h, !.next = x]
    BY <2>6 DEF Tables
  <2> QED
    BY <2>3, <2>4, <2>5, <2>7
<1>10. /\ Whole(u, L) /\ Live(u) = Live(table) /\ u.cursor = table.cursor /\ u.next = x
       /\ u.bucket[b].key = table.bucket[b].key /\ u.bucket[b].data = v
       /\ \A q \in Live(table) \ {b} : /\ u.bucket[q].key = table.bucket[q].key
                                       /\ u.bucket[q].data = table.bucket[q].data
  BY <1>4, <1>7, <1>8, StoreIs
<1> QED
  BY <1>4, <1>6, <1>9, <1>10

LEMMA DeleteSteps ==
  ASSUME NEW L, Whole(table, L), NEW key \in Keys, Delete(key)
  PROVE  \E k \in 1 .. Len(L) :
           /\ Whole(table', Unlinked(L, k)) /\ Live(table') = Live(table) \ {L[k]}
           /\ \A q \in Live(table') : /\ table'.bucket[q].key = table.bucket[q].key
                                      /\ table'.bucket[q].data = table.bucket[q].data
           /\ table'.cursor = (IF table.cursor = L[k] THEN At(L, k + 1) ELSE table.cursor)
           /\ table'.next = table.next
           /\ Free(L[k]) /\ applies' = NotDue(applies, L[k])
<1>1. PICK b : b = Find(table, key)
  OBVIOUS
<1>2. /\ b # NULL /\ table' = HashDeleteKeyOrIndex(table, b)
      /\ Free(b) /\ applies' = NotDue(applies, b)
  BY <1>1 DEF Delete
<1>3. b \in Live(table)
  BY <1>1, <1>2, FoundIs
<1>4. PICK k \in 1 .. Len(L) : b = L[k]
  <2>1. ListOn(table, L)
    BY DEF Whole
  <2>2. \A q \in Live(table) : \E i \in 1 .. Len(L) : q = L[i]
    BY <2>1, OnList
  <2> QED
    BY <1>3, <2>2
<1>5. PICK u : u = table'
  OBVIOUS
<1>6. u = HashApplyDeleter(table, b) \/ u = HashDeleteKeyOrIndex(table, b)
  BY <1>2, <1>5
<1>7. /\ Whole(u, Unlinked(L, k)) /\ Live(u) = Live(table) \ {b}
      /\ u.cursor = (IF table.cursor = b THEN At(L, k + 1) ELSE table.cursor)
      /\ u.next = table.next
      /\ \A q \in Live(u) : u.bucket[q].key = table.bucket[q].key
            /\ u.bucket[q].data = table.bucket[q].data
  BY <1>4, <1>6, RemoveIs
<1> QED
  BY <1>2, <1>4, <1>5, <1>7

(* The operations of the internal pointer. *)
Moves ==
  \/ HashInternalPointerReset \/ HashInternalPointerEnd
  \/ HashMoveForward \/ HashMoveBackward \/ HashSetPointer

LEMMA MoveSteps ==
  ASSUME NEW L, Whole(table, L), saved \in [pos : Pointers, h : 0 .. Word - 1], Moves
  PROVE  /\ Whole(table', L) /\ Live(table') = Live(table)
         /\ table'.bucket = table.bucket /\ table'.next = table.next
         /\ UNCHANGED <<saved, applies>>
<1>1. ListOn(table, L) /\ table.size \in Nat \ {0} /\ table \in Tables(table.size)
      /\ table.cursor \in Live(table) \cup {NULL}
  BY DEF Whole
<1>2. \A i : At(L, i) \in Live(table) \cup {NULL}
  <2>1. \A i \in 1 .. Len(L) : L[i] \in Live(table)
    BY <1>1, ListFacts
  <2> QED
    BY <2>1 DEF At
<1>3. \A q \in Live(table) : /\ table.bucket[q].listNext \in Live(table) \cup {NULL}
                             /\ table.bucket[q].listLast \in Live(table) \cup {NULL}
  <2>1. \A q \in Live(table) : \E i \in 1 .. Len(L) : q = L[i]
    BY <1>1, OnList
  <2>2. \A i \in 1 .. Len(L) : /\ table.bucket[L[i]].listNext = At(L, i + 1)
                               /\ table.bucket[L[i]].listLast = At(L, i - 1)
    BY <1>1, ListFacts
  <2> QED
    BY <1>2, <2>1, <2>2
<1>4. table.head \in Live(table) \cup {NULL} /\ table.tail \in Live(table) \cup {NULL}
  <2>1. table.head = At(L, 1) /\ table.tail = At(L, Len(L))
    BY <1>1, ListFacts
  <2> QED
    BY <1>2, <2>1
<1>5. ASSUME NEW p \in Live(table) \cup {NULL}, MoveCursor(p)
      PROVE  /\ Whole(table', L) /\ Live(table') = Live(table)
             /\ table'.bucket = table.bucket /\ table'.next = table.next
             /\ UNCHANGED <<saved, applies>>
  <2>1. table' = [table EXCEPT !.cursor = p] /\ UNCHANGED <<saved, applies>>
    BY <1>5 DEF MoveCursor
  <2>2. PICK u : u = table'
    OBVIOUS
  <2>3. u = [table EXCEPT !.cursor = p]
    BY <2>1, <2>2
  <2>4. Whole(u, L) /\ Live(u) = Live(table) /\ u.cursor = p /\ u.next = table.next
        /\ u.bucket = table.bucket
    BY <2>3, CursorIs
  <2> QED
    BY <2>1, <2>2, <2>4
<1>6. CASE HashInternalPointerReset
  BY <1>4, <1>5, <1>6 DEF HashInternalPointerReset
<1>7. CASE HashInternalPointerEnd
  BY <1>4, <1>5, <1>7 DEF HashInternalPointerEnd
<1>8. CASE HashMoveForward
  BY <1>1, <1>3, <1>5, <1>8 DEF HashMoveForward
<1>9. CASE HashMoveBackward
  BY <1>1, <1>3, <1>5, <1>9 DEF HashMoveBackward
<1>10. CASE HashSetPointer
  <2>1. PICK C : ChainsOn(table, C, Live(table))
    BY DEF Whole
  <2>2. PICK i : i = Slot(table, saved.h)
    OBVIOUS
  <2>3. i \in 0 .. table.size - 1
    <3>1. saved.h \in Nat /\ table.size \in Nat \ {0}
      BY <1>1, HashAssumption
    <3> QED
      BY <2>2, <3>1 DEF Slot
  <2>4. Chain(table, i) = C[i]
    <3>1. table.bucket \in Heaps
      BY <1>1, TableFacts
    <3>2. PICK M : M = Live(table)
      OBVIOUS
    <3>3. ChainsOn(table, C, M)
      BY <2>1, <3>2
    <3> QED
      BY <2>3, <3>1, <3>3, ChainIs
  <2>5. Range(C[i]) \subseteq Live(table)
    BY <2>1, <2>3 DEF ChainsOn
  <2>6. saved.pos \in Live(table)
    BY <1>10, <2>2, <2>4, <2>5 DEF HashSetPointer
  <2> QED
    BY <1>5, <1>10, <2>6 DEF HashSetPointer
<1> QED
  BY <1>6, <1>7, <1>8, <1>9, <1>10 DEF Moves

LEMMA ClearSteps ==
  ASSUME NEW L, Whole(table, L), HashClear
  PROVE  /\ Whole(table', << >>) /\ Live(table') = {} /\ table'.cursor = NULL /\ table'.next = 0
         /\ applies = << >> /\ UNCHANGED <<saved, applies>>
<1>1. table' = Cleared(table) /\ applies = << >> /\ UNCHANGED <<saved, applies>>
  BY DEF HashClear, Cleared
<1>2. PICK u : u = table'
  OBVIOUS
<1>3. u = Cleared(table)
  BY <1>1, <1>2
<1>4. Whole(u, << >>) /\ Live(u) = {} /\ u.cursor = NULL /\ u.next = 0
  BY <1>3, ClearIs
<1> QED
  BY <1>1, <1>2, <1>4

LEMMA SortSteps ==
  ASSUME NEW L, Whole(table, L), NEW renumber \in BOOLEAN, HashSort(renumber)
  PROVE  \E order \in SetToSeqs(Live(table)) :
           /\ Whole(table', order) /\ Live(table') = Live(table)
           /\ table'.cursor = order[1] /\ Live(table) # {}
           /\ table'.next = IF renumber THEN Len(order) ELSE table.next
           /\ \A i \in 1 .. Len(order) :
                /\ table'.bucket[order[i]].data = table.bucket[order[i]].data
                /\ table'.bucket[order[i]].key = IF renumber THEN [str |-> NULL, h |-> i - 1]
                                                 ELSE table.bucket[order[i]].key
           /\ applies = << >> /\ UNCHANGED <<saved, applies>>
<1>1. ListOn(table, L) /\ table.size \in Nat \ {0} /\ table \in Tables(table.size)
      /\ table.count = Cardinality(Live(table))
  BY DEF Whole
<1>2. ListOf(table) = L /\ Range(L) = Live(table)
  <2>1. table.bucket \in Heaps
    BY <1>1, TableFacts
  <2> QED
    BY <1>1, <2>1, ListOfIs DEF ListOn
<1>3. Live(table) # {}
  <2>1. table.count > 0
    <3>1. table.count \in Nat
      BY <1>1, LiveFinite
    <3>2. table.count > IF renumber THEN 0 ELSE 1
      BY DEF HashSort
    <3> QED
      BY <3>1, <3>2
  <2>2. Cardinality({}) = 0
    BY FS_EmptySet
  <2> QED
    BY <1>1, <2>1, <2>2
<1>4. PICK order \in SetToSeqs(Live(table)) :
        table' = IF renumber THEN Renumbered(Linked(table, order), order) ELSE Linked(table, order)
  BY <1>2 DEF HashSort
<1>5. PICK t : t = Linked(table, order)
  OBVIOUS
<1>6. /\ Whole(t, order) /\ Live(t) = Live(table)
      /\ t.cursor = order[1] /\ t.next = table.next
      /\ \A q \in Live(table) : t.bucket[q].key = table.bucket[q].key
            /\ t.bucket[q].data = table.bucket[q].data
  BY <1>3, <1>5, SortIs
<1>7. /\ \A i \in 1 .. Len(order) : order[i] \in Live(table)
  BY LiveFinite, OrderFacts DEF Live
<1>8. applies = << >> /\ UNCHANGED <<saved, applies>>
  BY DEF HashSort
<1>9. PICK u : u = table'
  OBVIOUS
<1>10. CASE renumber
  <2>1. u = Renumbered(t, order)
    BY <1>4, <1>5, <1>9, <1>10
  <2>2. order \in SetToSeqs(Live(t))
    BY <1>6
  <2>3. /\ Whole(u, order) /\ Live(u) = Live(t)
        /\ u.cursor = t.cursor /\ u.next = Len(order)
        /\ \A i \in 1 .. Len(order) :
             /\ u.bucket[order[i]].key = [str |-> NULL, h |-> i - 1]
             /\ u.bucket[order[i]].data = t.bucket[order[i]].data
    BY <1>6, <2>1, <2>2, RenumberIs
  <2> QED
    BY <1>3, <1>6, <1>7, <1>8, <1>9, <1>10, <2>3
<1>11. CASE ~renumber
  <2>1. u = t
    BY <1>4, <1>5, <1>9, <1>11
  <2> QED
    BY <1>3, <1>6, <1>7, <1>8, <1>9, <1>11, <2>1
<1> QED
  BY <1>10, <1>11

(* What HashUpdateCurrentKeyEx does with its element at the place m of K. *)
Renames(K, m, a, key) ==
  /\ Whole(table', [K EXCEPT ![m] = a])
  /\ table'.cursor = a /\ table'.next = table.next
  /\ table'.bucket[a].key = key
  /\ table'.bucket[a].data = table.bucket[table.cursor].data
  /\ \A i \in 1 .. Len(K) \ {m} : /\ table'.bucket[K[i]].key = table.bucket[K[i]].key
                                  /\ table'.bucket[K[i]].data = table.bucket[K[i]].data

(* The same, with the list L before: the other element with the key is gone. *)
Renaming(L, K, m, a, key) ==
  /\ K[m] = table.cursor /\ Renames(K, m, a, key)
  /\ \/ K = L /\ \A x \in Live(table) : table.bucket[x].key # key
     \/ \E k \in 1 .. Len(L) : /\ table.bucket[L[k]].key = key /\ L[k] # table.cursor
                               /\ K = Unlinked(L, k)

LEMMA WithoutOtherIs ==
  ASSUME NEW t, NEW L, Whole(t, L), t.cursor # NULL, NEW key \in Keys,
         t.bucket[t.cursor].key # key,
         NEW u, u = WithoutOther(t, key)
  PROVE  \E K : /\ Whole(u, K) /\ u.cursor = t.cursor /\ u.next = t.next
                /\ \A q \in Live(u) : u.bucket[q].key = t.bucket[q].key
                      /\ u.bucket[q].data = t.bucket[q].data
                /\ \/ K = L /\ \A q \in Live(t) : t.bucket[q].key # key
                   \/ \E k \in 1 .. Len(L) : /\ t.bucket[L[k]].key = key /\ L[k] # t.cursor
                                             /\ K = Unlinked(L, k)
<1>1. PICK c : c = Find(t, key)
  OBVIOUS
<1>2. CASE c = NULL
  <2>1. u = t
    BY <1>1, <1>2 DEF WithoutOther
  <2>2. c = NULL => \A q \in Live(t) : t.bucket[q].key # key
    BY <1>1, FoundIs
  <2> QED
    BY <1>2, <2>1, <2>2
<1>3. CASE c # NULL
  <2>1. c \in Live(t) /\ t.bucket[c].key = key
    BY <1>1, <1>3, FoundIs
  <2>2. PICK k \in 1 .. Len(L) : c = L[k]
    <3>1. ListOn(t, L)
      BY DEF Whole
    <3>2. \A q \in Live(t) : \E i \in 1 .. Len(L) : q = L[i]
      BY <3>1, OnList
    <3> QED
      BY <2>1, <3>2
  <2>3. u = HashApplyDeleter(t, c) \/ u = HashDeleteKeyOrIndex(t, c)
    BY <1>1, <1>3 DEF WithoutOther
  <2>4. /\ Whole(u, Unlinked(L, k)) /\ Live(u) = Live(t) \ {c}
        /\ u.cursor = (IF t.cursor = c THEN At(L, k + 1) ELSE t.cursor)
        /\ u.next = t.next
        /\ \A q \in Live(u) : u.bucket[q].key = t.bucket[q].key
              /\ u.bucket[q].data = t.bucket[q].data
    BY <2>2, <2>3, RemoveIs
  <2>5. c # t.cursor
    BY <2>1
  <2> QED
    BY <2>1, <2>2, <2>4, <2>5
<1> QED
  BY <1>2, <1>3

LEMMA RenameSteps ==
  ASSUME NEW L, Whole(table, L), NEW key \in Keys, HashUpdateCurrentKey(key), ~RenameFails
  PROVE  \E K, a : \E m \in 1 .. Len(K) :
           Renaming(L, K, m, a, key) /\ applies = << >> /\ UNCHANGED <<saved, applies>>
<1>1. PICK b : b = table.cursor
  BY SMTT(60)
<1>2. /\ b # NULL /\ table.bucket[b].key # key /\ applies = << >> /\ UNCHANGED <<saved, applies>>
  BY <1>1, Zenon DEF HashUpdateCurrentKey, KeyAt
<1>3. PICK t : t = WithoutOther(table, key)
  OBVIOUS
<1>4. PICK K : /\ Whole(t, K) /\ t.cursor = table.cursor /\ t.next = table.next
               /\ \A q \in Live(t) : t.bucket[q].key = table.bucket[q].key
                     /\ t.bucket[q].data = table.bucket[q].data
               /\ \/ K = L /\ \A q \in Live(table) : table.bucket[q].key # key
                  \/ \E k \in 1 .. Len(L) : /\ table.bucket[L[k]].key = key /\ L[k] # table.cursor
                                            /\ K = Unlinked(L, k)
  BY <1>1, <1>2, <1>3, WithoutOtherIs
<1>5. ListOn(t, K) /\ t.cursor \in Live(t) \cup {NULL}
  BY <1>4 DEF Whole
<1>6. b \in Live(t)
  BY <1>1, <1>2, <1>4, <1>5
<1>7. PICK m \in 1 .. Len(K) : b = K[m]
  <2>1. \A q \in Live(t) : \E i \in 1 .. Len(K) : q = K[i]
    BY <1>5, ListFacts
  <2> QED
    BY <1>6, <2>1
<1>8. PICK u : u = Off(t, b)
  OBVIOUS
<1>9. /\ Loose(u, K, b) /\ Live(u) = Live(t)
      /\ u.cursor = t.cursor /\ u.next = t.next
      /\ \A q \in Live(t) : u.bucket[q].key = t.bucket[q].key /\ u.bucket[q].data = t.bucket[q].data
  BY <1>4, <1>6, <1>8, OffIs
<1>10. \/ table' = Rekey(u, b, key)
       \/ \E a \in Addresses \ Live(t) : table' = Rekey(Moved(u, b, a), a, key)
  BY <1>1, <1>3, <1>8, Zenon DEF HashUpdateCurrentKey, Off, Rekey
<1>11. /\ \A i \in 1 .. Len(K) : K[i] \in Live(t)
       /\ \A i, j \in 1 .. Len(K) : K[i] = K[j] => i = j
       /\ K \in Seq(Addresses)
  BY <1>5, ListFacts
<1>12. PICK w : w = table'
  OBVIOUS
<1>13. CASE table' = Rekey(u, b, key)
  <2>1. w = Rekey(u, b, key)
    BY <1>12, <1>13
  <2>2. /\ Whole(w, K) /\ Live(w) = Live(u) /\ w.cursor = u.cursor /\ w.next = u.next
        /\ w.bucket[b].key = key /\ w.bucket[b].data = u.bucket[b].data
        /\ \A q \in Live(u) \ {b} : w.bucket[q].key = u.bucket[q].key
              /\ w.bucket[q].data = u.bucket[q].data
    BY <1>9, <2>1, RekeyIs
  <2>3. [K EXCEPT ![m] = b] = K
    BY <1>7, <1>11
  <2>4. \A i \in 1 .. Len(K) \ {m} : /\ w.bucket[K[i]].key = table.bucket[K[i]].key
                                     /\ w.bucket[K[i]].data = table.bucket[K[i]].data
    BY <1>4, <1>7, <1>9, <1>11, <2>2
  <2>5. w.bucket[b].data = table.bucket[b].data
    BY <1>4, <1>6, <1>9, <2>2
  <2>6. Renames(K, m, b, key)
    BY <1>1, <1>4, <1>9, <1>12, <2>2, <2>3, <2>4, <2>5 DEF Renames
  <2> QED
    BY <1>1, <1>2, <1>4, <1>7, <2>6 DEF Renaming
<1>14. ASSUME NEW a \in Addresses \ Live(t), table' = Rekey(Moved(u, b, a), a, key)
       PROVE  Renames(K, m, a, key)
  <2>1. PICK v : v = Moved(u, b, a)
    OBVIOUS
  <2>2. w = Rekey(v, a, key)
    BY <1>12, <1>14, <2>1
  <2>3. PICK M : M = [K EXCEPT ![m] = a]
    OBVIOUS
  <2>4. a \in Addresses \ Live(u)
    BY <1>9
  <2>a. /\ Loose(v, [K EXCEPT ![m] = a], a) /\ Live(v) = (Live(u) \ {b}) \cup {a}
        /\ v.cursor = (IF u.cursor = b THEN a ELSE u.cursor) /\ v.next = u.next
        /\ v.bucket[a].key = u.bucket[b].key /\ v.bucket[a].data = u.bucket[b].data
        /\ \A q \in Live(u) \ {b} : v.bucket[q].key = u.bucket[q].key
              /\ v.bucket[q].data = u.bucket[q].data
    BY <1>7, <1>9, <2>1, <2>4, MoveIs
  <2>5. /\ Loose(v, M, a) /\ Live(v) = (Live(u) \ {b}) \cup {a}
        /\ v.cursor = (IF u.cursor = b THEN a ELSE u.cursor) /\ v.next = u.next
        /\ v.bucket[a].key = u.bucket[b].key /\ v.bucket[a].data = u.bucket[b].data
        /\ \A q \in Live(u) \ {b} : v.bucket[q].key = u.bucket[q].key
              /\ v.bucket[q].data = u.bucket[q].data
    BY <2>3, <2>a
  <2>6. /\ Whole(w, M) /\ Live(w) = Live(v) /\ w.cursor = v.cursor /\ w.next = v.next
        /\ w.bucket[a].key = key /\ w.bucket[a].data = v.bucket[a].data
        /\ \A q \in Live(v) \ {a} : w.bucket[q].key = v.bucket[q].key
              /\ w.bucket[q].data = v.bucket[q].data
    BY <2>2, <2>5, RekeyIs
  <2>7. \A i \in 1 .. Len(K) \ {m} : K[i] \in Live(u) \ {b} /\ K[i] \in Live(v) \ {a}
              /\ K[i] \in Live(t)
    BY <1>7, <1>9, <1>11, <2>5
  <2>8. \A i \in 1 .. Len(K) \ {m} : /\ w.bucket[K[i]].key = table.bucket[K[i]].key
                                     /\ w.bucket[K[i]].data = table.bucket[K[i]].data
    BY <1>4, <1>9, <2>5, <2>6, <2>7
  <2>9. w.bucket[a].data = table.bucket[b].data
    BY <1>4, <1>6, <1>9, <2>5, <2>6
  <2>10. w.cursor = a /\ w.next = table.next
    BY <1>1, <1>4, <1>9, <2>5, <2>6
  <2> QED
    BY <1>1, <1>12, <2>3, <2>6, <2>8, <2>9, <2>10 DEF Renames
<1>15. CASE \E a \in Addresses \ Live(t) : table' = Rekey(Moved(u, b, a), a, key)
  <2>1. PICK a \in Addresses \ Live(t) : table' = Rekey(Moved(u, b, a), a, key)
    BY <1>15
  <2>2. Renames(K, m, a, key)
    BY <1>14, <2>1
  <2> QED
    BY <1>1, <1>2, <1>4, <1>7, <2>2 DEF Renaming
<1> QED
  BY <1>10, <1>13, <1>15

LEMMA DeleterSteps ==
  ASSUME NEW L, Whole(table, L), NEW k \in 1 .. Len(L), NEW b, b = L[k],
         table' = HashApplyDeleter(table, b)
  PROVE  /\ Whole(table', Unlinked(L, k)) /\ Live(table') = Live(table) \ {b}
         /\ table'.cursor = (IF table.cursor = b THEN At(L, k + 1) ELSE table.cursor)
         /\ table'.next = table.next
         /\ \A q \in Live(table') : /\ table'.bucket[q].key = table.bucket[q].key
                                    /\ table'.bucket[q].data = table.bucket[q].data
<1>1. PICK u : u = table'
  OBVIOUS
<1>2. u = HashApplyDeleter(table, b) \/ u = HashDeleteKeyOrIndex(table, b)
  BY <1>1
<1>3. /\ Whole(u, Unlinked(L, k)) /\ Live(u) = Live(table) \ {b}
      /\ u.cursor = (IF table.cursor = b THEN At(L, k + 1) ELSE table.cursor)
      /\ u.next = table.next
      /\ \A q \in Live(u) : u.bucket[q].key = table.bucket[q].key
            /\ u.bucket[q].data = table.bucket[q].data
  BY <1>2, RemoveIs
<1> QED
  BY <1>1, <1>3

-----------------------------------------------------------------------------
(* What every step keeps: one sequence is the list, the chains hold what is *)
(* in it, and each apply has what it owes in front of it.                   *)
IInv ==
  /\ saved \in [pos : Pointers, h : 0 .. Word - 1]
  /\ \E L : Whole(table, L) /\ FramesOn(table, L, applies)

(* Nothing runs: nothing is owed. *)
LEMMA FramesNone ==
  ASSUME NEW t, NEW L
  PROVE  FramesOn(t, L, << >>)
BY DEF FramesOn

(* HashInitEx makes a sound table. *)
LEMMA InitSound ==
  ASSUME Init
  PROVE  IInv
<1> DEFINE n == InitialSize
           h == [b \in Addresses |-> NULL]
           s == EmptyBuckets(n)
<1>1. table = [bucket |-> h, buckets |-> s, size |-> n, head |-> NULL, tail |-> NULL,
               count |-> 0, next |-> 0, cursor |-> NULL]
  BY DEF Init
<1>2. /\ n \in Nat \ {0} /\ h \in Heaps /\ s \in [0 .. n - 1 -> Pointers]
      /\ \A b \in Addresses : h[b] = NULL
      /\ \A i \in 0 .. n - 1 : s[i] = NULL
  BY HashAssumption DEF Heaps, EmptyBuckets, Pointers
<1>3. 0 \in 0 .. Word - 1 /\ NULL \in Pointers
  BY HashAssumption DEF Pointers
<1> HIDE DEF n, h, s
<1>4. PICK u : u = table
  OBVIOUS
<1>5. u \in Tables(n)
  BY <1>1, <1>2, <1>3, <1>4 DEF Tables, Heaps
<1>6. /\ u.bucket = h /\ u.buckets = s /\ u.head = NULL /\ u.tail = NULL /\ u.cursor = NULL
      /\ u.count = 0 /\ u.size = n
  BY <1>1, <1>4
<1>7. Whole(u, << >>)
  BY <1>2, <1>5, <1>6, EmptyIs
<1>8. saved \in [pos : Pointers, h : 0 .. Word - 1] /\ applies = << >>
  BY <1>3 DEF Init
<1> QED
  BY <1>4, <1>7, <1>8, FramesNone DEF IInv

(* A call-back returns: its element may go, its apply steps on. *)
LEMMA CallBackKeeps ==
  ASSUME NEW L, Whole(table, L), FramesOn(table, L, applies),
         NEW remove \in BOOLEAN, NEW stop \in BOOLEAN, CallBackReturns(remove, stop)
  PROVE  \E K : /\ Whole(table', K) /\ FramesOn(table', K, applies')
                /\ UNCHANGED saved
                /\ \/ UNCHANGED table
                   \/ \E k \in 1 .. Len(L) :
                        K = Unlinked(L, k) /\ table' = HashApplyDeleter(table, L[k])
<1>1. PICK f : f = Last(applies)
  OBVIOUS
<1>2. /\ f.at # NULL /\ applies # << >> /\ UNCHANGED saved
  BY <1>1 DEF CallBackReturns
<1>3. /\ FramesOn(table, L, Front(applies)) /\ f \in Frames(table) /\ InOrder(f, L)
      /\ Len(Front(applies)) = Len(applies) - 1 /\ Len(applies) \in Nat \ {0}
      /\ \A i \in 1 .. Len(applies) - 1 : Front(applies)[i] = applies[i]
  BY <1>1, <1>2, FramesEnd
<1>4. ListOn(table, L)
  BY DEF Whole
<1>5. PICK k \in 1 .. Len(L) : f.at = L[k]
  <2>1. f.at \in Live(table)
    BY <1>2, <1>3 DEF Frames
  <2>2. \A q \in Live(table) : \E i \in 1 .. Len(L) : q = L[i]
    BY <1>4, OnList
  <2> QED
    BY <2>1, <2>2
<1>6. PICK g : g = [f EXCEPT !.at = IF stop THEN NULL ELSE StepFrom(f, remove),
                             !.due = IF stop THEN {} ELSE @ \ {f.at}]
  OBVIOUS
<1>7. /\ g.kind = f.kind /\ g.due = (IF stop THEN {} ELSE f.due \ {L[k]})
      /\ g.at = (IF stop THEN NULL ELSE At(L, IF f.kind = "reverse" THEN k - 1 ELSE k + 1))
      /\ DOMAIN g = DOMAIN f
  <2>1. StepFrom(f, remove) = At(L, IF f.kind = "reverse" THEN k - 1 ELSE k + 1)
    <3>1. /\ table.bucket[L[k]].listNext = At(L, k + 1)
          /\ table.bucket[L[k]].listLast = At(L, k - 1)
      BY <1>4, ListFacts
    <3> QED
      BY <1>5, <3>1 DEF StepFrom
  <2> QED
    BY <1>3, <1>5, <1>6, <2>1 DEF Frames
<1>8. /\ Len(L) \in Nat /\ \A i \in 1 .. Len(L) : L[i] \in Live(table) /\ L[i] # NULL
      /\ \A i, j \in 1 .. Len(L) : L[i] = L[j] => i = j
  BY <1>4, ListFacts
<1>9. g \in Frames(table) /\ g.at # L[k] /\ L[k] \notin g.due
  <2>1. g.at \in Live(table) \cup {NULL} /\ g.at # L[k]
    BY <1>7, <1>8 DEF At
  <2>2. g.due \in SUBSET Live(table) /\ L[k] \notin g.due
    BY <1>3, <1>7 DEF Frames
  <2>3. g = [at |-> g.at, kind |-> g.kind, due |-> g.due]
    BY <1>3, <1>6 DEF Frames
  <2>4. g.kind \in Applies
    BY <1>3, <1>7 DEF Frames
  <2> QED
    BY <2>1, <2>2, <2>3, <2>4 DEF Frames
<1>10. InOrder(g, L)
  <2>1. CASE stop
    BY <1>7, <2>1 DEF InOrder
  <2>2. CASE ~stop
    <3>1. g.due = f.due \ {L[k]} /\ g.at = At(L, IF f.kind = "reverse" THEN k - 1 ELSE k + 1)
      BY <1>7, <2>2
    <3> QED
      BY <1>3, <1>4, <1>5, <1>7, <1>9, <3>1, FrameSteps
  <2> QED
    BY <2>1, <2>2
<1>11. CASE ~remove
  <2>1. applies' = Append(Front(applies), g) /\ UNCHANGED table
    BY <1>1, <1>6, <1>11 DEF CallBackReturns
  <2>2. FramesOn(table, L, Append(Front(applies), g))
    BY <1>3, <1>9, <1>10, FramesAppended
  <2> QED
    BY <1>2, <2>1, <2>2
<1>12. CASE remove
  <2>1. /\ \A i \in 1 .. Len(applies) - 1 : applies[i].at # L[k]
        /\ table' = HashApplyDeleter(table, L[k])
        /\ applies' = Append(NotDue(Front(applies), L[k]), g)
    BY <1>1, <1>5, <1>6, <1>12 DEF CallBackReturns
  <2>2. PICK b : b = L[k]
    OBVIOUS
  <2>3. Whole(table', Unlinked(L, k)) /\ Live(table') = Live(table) \ {b}
    BY <2>1, <2>2, DeleterSteps
  <2>4. PICK K : K = Unlinked(L, k)
    OBVIOUS
  <2>5. SameOrder(L, K)
    BY <1>4, <2>4, OrderUnlinked
  <2>6. PICK fs : fs = Front(applies)
    OBVIOUS
  <2>7. FramesOn(table, L, fs) /\ \A i \in 1 .. Len(fs) : fs[i].at # b
    BY <1>3, <2>1, <2>2, <2>6
  <2>8. PICK gs : gs = NotDue(fs, b)
    OBVIOUS
  <2>9. PICK u : u = table'
    OBVIOUS
  <2>10. Live(u) = Live(table) \ {b}
    BY <2>3, <2>9
  <2>11. FramesOn(u, K, gs)
    BY <1>4, <2>5, <2>7, <2>8, <2>10, FramesShrink
  <2>12. g \in Frames(u)
    BY <1>9, <2>2, <2>10 DEF Frames
  <2>13. InOrder(g, K)
    BY <1>4, <1>9, <1>10, <2>5, <2>12, FrameCarried
  <2>14. FramesOn(u, K, Append(gs, g))
    BY <2>11, <2>12, <2>13, FramesAppended
  <2> QED
    BY <1>2, <2>1, <2>2, <2>3, <2>4, <2>6, <2>8, <2>9, <2>14
<1> QED
  BY <1>11, <1>12

(* Each action keeps the lists and what the applies owe. *)
LEMMA StepKeeps ==
  ASSUME NEW L, Whole(table, L), FramesOn(table, L, applies),
         saved \in [pos : Pointers, h : 0 .. Word - 1], ~RenameFails, Next
  PROVE  \E K : Whole(table', K) /\ FramesOn(table', K, applies')
<1>1. ListOn(table, L)
  BY DEF Whole
<1>2. ASSUME NEW key \in Keys, NEW v \in Values, Insert(key, v)
      PROVE  \E K : Whole(table', K) /\ FramesOn(table', K, applies')
  <2>1. PICK b \in Addresses \ Live(table) :
          Whole(table', Append(L, b)) /\ Live(table') = Live(table) \cup {b}
    BY <1>2, InsertSteps
  <2>2. PICK K : K = Append(L, b)
    OBVIOUS
  <2>3. SameOrder(L, K)
    BY <1>1, <2>2, OrderAppended
  <2>4. PICK u : u = table'
    OBVIOUS
  <2>5. Live(table) \subseteq Live(u)
    BY <2>1, <2>4
  <2>6. FramesOn(u, K, applies)
    BY <1>1, <2>3, <2>5, FramesGrow
  <2>7. applies' = applies
    BY <1>2 DEF Insert
  <2> QED
    BY <2>1, <2>2, <2>4, <2>6, <2>7
<1>3. ASSUME Whole(table', L), Live(table') = Live(table), UNCHANGED applies
      PROVE  \E K : Whole(table', K) /\ FramesOn(table', K, applies')
  <2>1. PICK u : u = table'
    OBVIOUS
  <2>2. Live(table) \subseteq Live(u)
    BY <1>3, <2>1
  <2>3. SameOrder(L, L)
    BY <1>1, OrderItself
  <2>4. FramesOn(u, L, applies)
    BY <1>1, <2>2, <2>3, FramesGrow
  <2> QED
    BY <1>3, <2>1, <2>4
<1>4. ASSUME NEW key \in Keys, NEW v \in Values, Update(key, v)
      PROVE  \E K : Whole(table', K) /\ FramesOn(table', K, applies')
  <2>1. Whole(table', L) /\ Live(table') = Live(table)
    BY <1>4, UpdateSteps
  <2>2. UNCHANGED applies
    BY <1>4 DEF Update
  <2> QED
    BY <1>3, <2>1, <2>2
<1>5. ASSUME NEW key \in Keys, Delete(key)
      PROVE  \E K : Whole(table', K) /\ FramesOn(table', K, applies')
  <2>1. PICK k \in 1 .. Len(L) :
          /\ Whole(table', Unlinked(L, k)) /\ Live(table') = Live(table) \ {L[k]}
          /\ Free(L[k]) /\ applies' = NotDue(applies, L[k])
    BY <1>5, DeleteSteps
  <2>2. PICK K : K = Unlinked(L, k)
    OBVIOUS
  <2>3. SameOrder(L, K)
    BY <1>1, <2>2, OrderUnlinked
  <2>4. PICK b : b = L[k]
    OBVIOUS
  <2>5. PICK u : u = table'
    OBVIOUS
  <2>6. Live(u) = Live(table) \ {b}
    BY <2>1, <2>4, <2>5
  <2>7. \A i \in 1 .. Len(applies) : applies[i].at # b
    <3>1. DOMAIN applies = 1 .. Len(applies)
      BY DEF FramesOn
    <3> QED
      BY <2>1, <2>4, <3>1 DEF Free
  <2>8. PICK gs : gs = NotDue(applies, b)
    OBVIOUS
  <2>9. FramesOn(u, K, gs)
    BY <1>1, <2>3, <2>6, <2>7, <2>8, FramesShrink
  <2> QED
    BY <2>1, <2>2, <2>4, <2>5, <2>8, <2>9
<1>6. ASSUME NEW key \in Keys, HashUpdateCurrentKey(key)
      PROVE  \E K : Whole(table', K) /\ FramesOn(table', K, applies')
  <2>1. \E K, a : \E m \in 1 .. Len(K) :
          Renaming(L, K, m, a, key) /\ applies = << >> /\ UNCHANGED <<saved, applies>>
    BY <1>6, RenameSteps
  <2>2. \E K : Whole(table', K) /\ applies' = << >>
    BY <2>1 DEF Renaming, Renames
  <2> QED
    BY <2>2, FramesNone
<1>7. ASSUME NEW v \in Values, NextInsert(v)
      PROVE  \E K : Whole(table', K) /\ FramesOn(table', K, applies')
  <2>1. [str |-> NULL, h |-> table.next] \in Keys
    <3>1. table.next \in 0 .. Word - 1
      BY DEF Whole, Tables
    <3> QED
      BY <3>1 DEF Keys, Indexes
  <2> QED
    BY <1>2, <1>7, <2>1 DEF NextInsert
<1>8. ASSUME HashClear
      PROVE  \E K : Whole(table', K) /\ FramesOn(table', K, applies')
  <2>1. Whole(table', << >>) /\ applies' = << >>
    BY <1>8, ClearSteps
  <2> QED
    BY <2>1, FramesNone
<1>9. ASSUME Moves
      PROVE  \E K : Whole(table', K) /\ FramesOn(table', K, applies')
  <2>1. Whole(table', L) /\ Live(table') = Live(table) /\ UNCHANGED applies
    BY <1>9, MoveSteps
  <2> QED
    BY <1>3, <2>1
<1>10. ASSUME HashGetPointer
       PROVE  \E K : Whole(table', K) /\ FramesOn(table', K, applies')
  BY <1>10 DEF HashGetPointer
<1>11. ASSUME NEW renumber \in BOOLEAN, HashSort(renumber)
       PROVE  \E K : Whole(table', K) /\ FramesOn(table', K, applies')
  <2>1. \E order \in SetToSeqs(Live(table)) : Whole(table', order) /\ applies = << >>
              /\ UNCHANGED applies
    BY <1>11, SortSteps
  <2> QED
    BY <2>1, FramesNone
<1>12. ASSUME NEW kind \in Applies, StartApply(kind)
       PROVE  \E K : Whole(table', K) /\ FramesOn(table', K, applies')
  <2>1. PICK g : g = [at |-> IF kind = "reverse" THEN table.tail ELSE table.head,
                      kind |-> kind, due |-> Live(table)]
    OBVIOUS
  <2>2. g \in Frames(table) /\ InOrder(g, L)
    BY <1>1, <2>1, FrameBegins
  <2>3. FramesOn(table, L, Append(applies, g))
    BY <2>2, FramesAppended
  <2> QED
    BY <1>12, <2>1, <2>3 DEF StartApply
<1>13. ASSUME NEW remove \in BOOLEAN, NEW stop \in BOOLEAN, CallBackReturns(remove, stop)
       PROVE  \E K : Whole(table', K) /\ FramesOn(table', K, applies')
  BY <1>13, CallBackKeeps
<1>14. ASSUME EndApply
       PROVE  \E K : Whole(table', K) /\ FramesOn(table', K, applies')
  <2>1. applies # << >> /\ applies' = Front(applies) /\ UNCHANGED table
    BY <1>14 DEF EndApply, ClientRuns
  <2> QED
    BY <2>1, FramesEnd
<1> QED
  BY <1>2, <1>4, <1>5, <1>6, <1>7, <1>8, <1>9, <1>10, <1>11, <1>12, <1>13, <1>14 DEF Next, Moves

(* What is saved has its type, wherever it points. *)
LEMMA SavedTyped ==
  ASSUME NEW L, Whole(table, L), saved \in [pos : Pointers, h : 0 .. Word - 1], Next
  PROVE  saved' \in [pos : Pointers, h : 0 .. Word - 1]
<1>1. CASE HashGetPointer
  <2>1. table.cursor \in Live(table) \cup {NULL}
    BY DEF Whole
  <2>2. table.cursor \in Pointers
    BY <2>1 DEF Live, Pointers
  <2>3. table.cursor # NULL => KeyAt(table, table.cursor).h \in 0 .. Word - 1
    BY <2>1, KeysAre DEF KeyAt
  <2>4. 0 \in 0 .. Word - 1
    BY HashAssumption
  <2> QED
    BY <1>1, <2>2, <2>3, <2>4 DEF HashGetPointer
<1>2. CASE ~HashGetPointer
  <2>1. UNCHANGED saved
    BY <1>2, Zenon DEF Next, Insert, Update, Delete, HashUpdateCurrentKey, NextInsert, HashClear,
       HashInternalPointerReset, HashInternalPointerEnd, HashMoveForward, HashMoveBackward,
       HashSetPointer, MoveCursor, HashSort, StartApply, CallBackReturns, EndApply
  <2> QED
    BY <2>1, SMTT(60)
<1> QED
  BY <1>1, <1>2

(* Every step keeps the invariant. *)
LEMMA NextSound ==
  ASSUME IInv, ~RenameFails, [Next]_vars
  PROVE  IInv'
<1>1. PICK L : Whole(table, L) /\ FramesOn(table, L, applies)
  BY DEF IInv
<1>2. saved \in [pos : Pointers, h : 0 .. Word - 1]
  BY DEF IInv
<1>3. CASE Next
  <2>1. \E K : Whole(table', K) /\ FramesOn(table', K, applies')
    BY <1>1, <1>2, <1>3, StepKeeps
  <2>2. saved' \in [pos : Pointers, h : 0 .. Word - 1]
    BY <1>1, <1>2, <1>3, SavedTyped
  <2> QED
    BY <2>1, <2>2 DEF IInv
<1>4. CASE UNCHANGED vars
  BY <1>1, <1>2, <1>4 DEF IInv, vars
<1> QED
  BY <1>3, <1>4

(* The lists are sound as long as no renaming gets no memory. *)
THEOREM AlwaysSound == ~RenameFails => (Spec => []IInv)
<1>1. ASSUME ~RenameFails PROVE Spec => []IInv
  <2>1. Init => IInv
    BY InitSound
  <2>2. IInv /\ [Next]_vars => IInv'
    BY <1>1, NextSound
  <2> QED
    BY <2>1, <2>2, PTL DEF Spec
<1> QED
  BY <1>1

(* The invariant implies each of the properties. *)
LEMMA SoundTyped ==
  ASSUME IInv
  PROVE  TypeOK
<1>1. PICK L : Whole(table, L) /\ FramesOn(table, L, applies)
  BY DEF IInv
<1>2. saved \in [pos : Pointers, h : 0 .. Word - 1]
  BY DEF IInv
<1>3. applies \in Seq([at : Live(table) \cup {NULL}, kind : Applies, due : SUBSET Live(table)])
  BY <1>1 DEF FramesOn, Frames
<1> QED
  BY <1>1, <1>2, <1>3 DEF TypeOK, Whole

LEMMA SoundList ==
  ASSUME IInv
  PROVE  ListSound
<1>1. PICK L : Whole(table, L)
  BY DEF IInv
<1>2. ListOn(table, L) /\ table \in Tables(table.size) /\ table.size \in Nat \ {0}
  BY <1>1 DEF Whole
<1>3. ListOf(table) = L
  BY <1>2, TableFacts, ListOfIs
<1>4. /\ Len(L) \in Nat /\ DOMAIN L = 1 .. Len(L)
      /\ \A i, j \in 1 .. Len(L) : L[i] = L[j] => i = j
      /\ L = <<>> <=> Len(L) = 0
  BY <1>2, ListFacts
<1>5. /\ \A i \in 1 .. Len(L) : /\ table.bucket[L[i]].listNext = At(L, i + 1)
                                /\ table.bucket[L[i]].listLast = At(L, i - 1)
  BY <1>2, ListFacts
<1>6. Range(L) = Live(table) /\ table.tail = At(L, Len(L))
  BY <1>2, ListFacts
<1>7. IsInjective(L)
  BY <1>4 DEF IsInjective
<1>8. Doubly(L, "listNext", "listLast")
  BY <1>4, <1>5 DEF Doubly, At
<1>9. table.tail = IF L = << >> THEN NULL ELSE Last(L)
  BY <1>4, <1>6 DEF At, Last
<1> QED
  BY <1>3, <1>6, <1>7, <1>8, <1>9 DEF ListSound

LEMMA SoundChains ==
  ASSUME IInv
  PROVE  ChainsSound
<1>1. PICK L : Whole(table, L)
  BY DEF IInv
<1>2. table \in Tables(table.size) /\ table.size \in Nat \ {0} /\ table.bucket \in Heaps
  BY <1>1, TableFacts DEF Whole
<1>3. PICK M : M = Live(table)
  OBVIOUS
<1>4. PICK C : ChainsOn(table, C, M)
  BY <1>1, <1>3 DEF Whole
<1>5. \A i \in 0 .. table.size - 1 : Chain(table, i) = C[i]
  BY <1>2, <1>4, ChainIs
<1>6. \A i \in 0 .. table.size - 1 :
        /\ Path(C[i], table.buckets[i], ChainNext(table), ChainLast(table))
        /\ \A q : q \in Range(C[i]) <=> q \in M /\ InSlot(table, q) = i
  BY <1>2, <1>4, ChainFacts
<1>7. ASSUME NEW i \in 0 .. table.size - 1
      PROVE  IsInjective(Chain(table, i)) /\ Doubly(Chain(table, i), "next", "last")
  <2>1. PICK c : c = C[i]
    OBVIOUS
  <2>2. Path(c, table.buckets[i], ChainNext(table), ChainLast(table))
    BY <1>6, <2>1
  <2>3. /\ Len(c) \in Nat /\ DOMAIN c = 1 .. Len(c)
        /\ \A j \in 1 .. Len(c) : c[j] \in Addresses
        /\ \A j, k \in 1 .. Len(c) : c[j] = c[k] => j = k
    BY <2>2, PathFacts
  <2>4. \A j \in 1 .. Len(c) : /\ table.bucket[c[j]].next = At(c, j + 1)
                               /\ table.bucket[c[j]].last = At(c, j - 1)
    BY <2>2, <2>3 DEF Path, ChainNext, ChainLast
  <2>5. IsInjective(c)
    BY <2>3 DEF IsInjective
  <2>6. Doubly(c, "next", "last")
    BY <2>3, <2>4 DEF Doubly, At
  <2> QED
    BY <1>5, <2>1, <2>5, <2>6
<1>8. ASSUME NEW b \in Live(table), NEW i \in 0 .. table.size - 1
      PROVE  b \in Range(Chain(table, i)) <=> i = Slot(table, KeyAt(table, b).h)
  BY <1>3, <1>5, <1>6 DEF InSlot, KeyAt
<1> QED
  BY <1>7, <1>8 DEF ChainsSound

LEMMA SoundApplies ==
  ASSUME IInv
  PROVE  ApplyMissesNone
<1>1. PICK L : FramesOn(table, L, applies)
  BY DEF IInv
<1>2. DOMAIN applies = 1 .. Len(applies) /\ \A i \in 1 .. Len(applies) : InOrder(applies[i], L)
  BY <1>1 DEF FramesOn
<1> QED
  BY <1>2 DEF ApplyMissesNone, InOrder

(* NumOfElements counts the buckets, and no pointer that the table or an    *)
(* apply keeps is at one that has been freed: neither InternalPointer nor   *)
(* the element a call-back is running for.                                  *)
THEOREM TypeCorrect == ~RenameFails => (Spec => []TypeOK)
<1>1. ASSUME ~RenameFails PROVE Spec => []TypeOK
  <2>1. Spec => []IInv
    BY <1>1, AlwaysSound
  <2>2. IInv => TypeOK
    BY SoundTyped
  <2> QED
    BY <2>1, <2>2, PTL
<1> QED
  BY <1>1

(* After any insertions, removals, renamings, sorts and applies the list    *)
(* from the head holds every bucket once and can be walked both ways, so    *)
(* HashDestroy frees each bucket and frees it once.                         *)
THEOREM ListWhole == ~RenameFails => (Spec => []ListSound)
<1>1. ASSUME ~RenameFails PROVE Spec => []ListSound
  <2>1. Spec => []IInv
    BY <1>1, AlwaysSound
  <2>2. IInv => ListSound
    BY SoundList
  <2> QED
    BY <2>1, <2>2, PTL
<1> QED
  BY <1>1

(* Every bucket is in the chain of the slot that its hash value has under   *)
(* the size the table has now, in that one only, and once.                  *)
THEOREM ChainsWhole == ~RenameFails => (Spec => []ChainsSound)
<1>1. ASSUME ~RenameFails PROVE Spec => []ChainsSound
  <2>1. Spec => []IInv
    BY <1>1, AlwaysSound
  <2>2. IInv => ChainsSound
    BY SoundChains
  <2> QED
    BY <2>1, <2>2, PTL
<1> QED
  BY <1>1

(* Whatever the call-backs of HashApply and HashGracefulReverseApply insert,*)
(* delete and apply, an apply that runs to its end has visited all that was *)
(* there at its beginning and was not removed before its turn.              *)
THEOREM AppliesComplete == ~RenameFails => (Spec => []ApplyMissesNone)
<1>1. ASSUME ~RenameFails PROVE Spec => []ApplyMissesNone
  <2>1. Spec => []IInv
    BY <1>1, AlwaysSound
  <2>2. IInv => ApplyMissesNone
    BY SoundApplies
  <2> QED
    BY <2>1, <2>2, PTL
<1> QED
  BY <1>1

-----------------------------------------------------------------------------
(* The table as an ordered map *)

Entry(t, b) == [key |-> t.bucket[b].key, data |-> t.bucket[b].data]
EntriesOf(t, L) == [i \in 1 .. Len(L) |-> Entry(t, L[i])]
Records == [key : Keys, data : Values]

(* p is the place of the internal pointer in the list. *)
PlaceIs(t, L, p) ==
  IF t.cursor = NULL THEN p = 0 ELSE p \in 1 .. Len(L) /\ L[p] = t.cursor

(* The map that the table t with the list L shows. *)
Shows(t, L, e, p) ==
  /\ Whole(t, L) /\ e = EntriesOf(t, L) /\ PlaceIs(t, L, p)

(* Entries and place are what the abstract map has them to be. *)
LEMMA ShownFacts ==
  ASSUME NEW t, NEW L, NEW e, NEW p, Shows(t, L, e, p)
  PROVE  /\ Len(L) \in Nat /\ e \in Seq(Records) /\ Len(e) = Len(L)
         /\ DOMAIN e = 1 .. Len(L) /\ DOMAIN L = 1 .. Len(L)
         /\ \A i \in 1 .. Len(L) :
              /\ e[i] = Entry(t, L[i]) /\ e[i] \in Records
              /\ e[i].key = t.bucket[L[i]].key /\ e[i].data = t.bucket[L[i]].data
              /\ L[i] \in Live(t) /\ L[i] # NULL
         /\ \A i, j \in 1 .. Len(L) : L[i] = L[j] => i = j
         /\ \A q \in Live(t) : \E i \in 1 .. Len(L) : q = L[i]
         /\ p \in 0 .. Len(L) /\ (p = 0 <=> t.cursor = NULL) /\ (p # 0 => L[p] = t.cursor)
         /\ t.next \in 0 .. Word - 1
<1>1. ListOn(t, L) /\ t.cursor \in Live(t) \cup {NULL} /\ t \in Tables(t.size) /\ Whole(t, L)
  BY DEF Whole, Shows
<1>2. /\ Len(L) \in Nat /\ DOMAIN L = 1 .. Len(L)
      /\ \A i \in 1 .. Len(L) : L[i] \in Live(t) /\ L[i] # NULL
      /\ \A i, j \in 1 .. Len(L) : L[i] = L[j] => i = j
  BY <1>1, ListFacts
<1>3. \A q \in Live(t) : \E i \in 1 .. Len(L) : q = L[i]
  BY <1>1, OnList
<1>4. e = [i \in 1 .. Len(L) |-> Entry(t, L[i])]
  BY DEF EntriesOf, Shows
<1>5. \A i \in 1 .. Len(L) : t.bucket[L[i]].key \in Keys /\ t.bucket[L[i]].data \in Values
  BY <1>1, <1>2, KeysAre
<1>6. \A i \in 1 .. Len(L) :
        /\ e[i] = Entry(t, L[i]) /\ e[i] \in Records
        /\ e[i].key = t.bucket[L[i]].key /\ e[i].data = t.bucket[L[i]].data
  BY <1>4, <1>5 DEF Entry, Records
<1>7. e \in Seq(Records) /\ Len(e) = Len(L) /\ DOMAIN e = 1 .. Len(L)
  BY <1>2, <1>4, <1>6
<1>8. p \in 0 .. Len(L) /\ (p = 0 <=> t.cursor = NULL) /\ (p # 0 => L[p] = t.cursor)
  BY <1>2 DEF PlaceIs, Shows
<1>9. t.next \in 0 .. Word - 1
  BY <1>1 DEF Tables
<1> QED
  BY <1>2, <1>3, <1>6, <1>7, <1>8, <1>9

(* Two maps with the same entries in the same places are the same. *)
LEMMA SameMap ==
  ASSUME NEW e \in Seq(Records), NEW f \in Seq(Records), Len(e) = Len(f),
         \A i \in 1 .. Len(e) : e[i].key = f[i].key /\ e[i].data = f[i].data
  PROVE  e = f
<1>1. \A r \in Records : r = [key |-> r.key, data |-> r.data]
  BY DEF Records
<1>2. \A i \in 1 .. Len(e) : e[i] \in Records /\ f[i] \in Records
  OBVIOUS
<1>3. \A i \in 1 .. Len(e) : e[i] = f[i]
  BY <1>1, <1>2
<1> QED
  BY <1>3

(* Definitions entries and place of the model, for any table. *)
MapOf(t) == LET s == ListOf(t)
            IN [i \in DOMAIN s |-> [key |-> KeyAt(t, s[i]), data |-> t.bucket[s[i]].data]]
PlaceOf(t) == LET s == ListOf(t)
                  at == {i \in DOMAIN s : s[i] = t.cursor}
              IN IF at = {} THEN 0 ELSE CHOOSE i \in at : TRUE

(* What the module reads off the walk is what the list shows. *)
LEMMA MapIs ==
  ASSUME NEW t, NEW L, Whole(t, L), NEW e, NEW p, e = MapOf(t), p = PlaceOf(t)
  PROVE  Shows(t, L, e, p)
<1>1. ListOn(t, L) /\ t.cursor \in Live(t) \cup {NULL} /\ t \in Tables(t.size)
      /\ t.size \in Nat \ {0}
  BY DEF Whole
<1>2. ListOf(t) = L
  BY <1>1, TableFacts, ListOfIs
<1>3. /\ Len(L) \in Nat /\ DOMAIN L = 1 .. Len(L)
      /\ \A i \in 1 .. Len(L) : L[i] \in Live(t) /\ L[i] # NULL
  BY <1>1, ListFacts
<1>4. \A q \in Live(t) : \E i \in 1 .. Len(L) : q = L[i]
  BY <1>1, OnList
<1>5. e = EntriesOf(t, L)
  BY <1>2, <1>3 DEF MapOf, EntriesOf, Entry, KeyAt
<1>6. PlaceIs(t, L, p)
  <2> DEFINE at == {i \in 1 .. Len(L) : L[i] = t.cursor}
  <2>1. p = IF at = {} THEN 0 ELSE CHOOSE i \in at : TRUE
    BY <1>2, <1>3 DEF PlaceOf
  <2>2. CASE t.cursor = NULL
    <3>1. at = {}
      BY <1>3, <2>2
    <3> QED
      BY <2>1, <2>2, <3>1 DEF PlaceIs
  <2>3. CASE t.cursor # NULL
    <3>1. at # {}
      BY <1>1, <1>4, <2>3
    <3>2. p \in at
      BY <2>1, <3>1
    <3> QED
      BY <2>3, <3>2 DEF PlaceIs
  <2> QED
    BY <2>2, <2>3
<1> QED
  BY <1>5, <1>6 DEF Shows

(* The shown map, before and after each change of the list. *)
LEMMA AddShown ==
  ASSUME NEW t, NEW L, NEW e, NEW p, Shows(t, L, e, p),
         NEW u, NEW b \in Addresses \ Live(t), NEW f, NEW q, Shows(u, Append(L, b), f, q),
         \A x \in Live(t) : u.bucket[x].key = t.bucket[x].key
               /\ u.bucket[x].data = t.bucket[x].data,
         u.cursor = (IF t.cursor = NULL THEN b ELSE t.cursor)
  PROVE  /\ Len(f) = Len(e) + 1 /\ SubSeq(f, 1, Len(f) - 1) = e
         /\ f[Len(f)].key = u.bucket[b].key /\ f[Len(f)].data = u.bucket[b].data
         /\ q = IF p = 0 THEN Len(e) + 1 ELSE p
<1>1. PICK K : K = Append(L, b)
  OBVIOUS
<1>2. /\ Len(L) \in Nat /\ e \in Seq(Records) /\ Len(e) = Len(L)
      /\ \A i \in 1 .. Len(L) : /\ e[i].key = t.bucket[L[i]].key /\ e[i].data = t.bucket[L[i]].data
                                /\ L[i] \in Live(t) /\ L[i] # NULL
      /\ p \in 0 .. Len(L) /\ (p = 0 <=> t.cursor = NULL) /\ (p # 0 => L[p] = t.cursor)
  BY ShownFacts
<1>3. L \in Seq(Addresses)
  BY ListFacts DEF Shows, Whole
<1>4. Len(K) = Len(L) + 1 /\ K[Len(L) + 1] = b /\ \A i \in 1 .. Len(L) : K[i] = L[i]
  BY <1>1, <1>3
<1>5. Shows(u, K, f, q)
  BY <1>1
<1>6. /\ f \in Seq(Records) /\ Len(f) = Len(K)
      /\ \A i \in 1 .. Len(K) : f[i].key = u.bucket[K[i]].key /\ f[i].data = u.bucket[K[i]].data
      /\ \A i, j \in 1 .. Len(K) : K[i] = K[j] => i = j
      /\ q \in 0 .. Len(K) /\ (q = 0 <=> u.cursor = NULL) /\ (q # 0 => K[q] = u.cursor)
  BY <1>5, ShownFacts
<1>7. PICK g : g = SubSeq(f, 1, Len(f) - 1)
  OBVIOUS
<1>8. g \in Seq(Records) /\ Len(g) = Len(L) /\ \A i \in 1 .. Len(L) : g[i] = f[i]
  <2>1. PICK m \in Nat : m = Len(f) - 1 /\ m = Len(L)
    BY <1>2, <1>4, <1>6
  <2>2. \A i \in 1 .. m : f[i] \in Records
    BY <1>6, <2>1
  <2>3. g = SubSeq(f, 1, m)
    BY <1>7, <2>1
  <2>4. /\ g \in Seq(Records) /\ Len(g) = IF 1 <= m THEN m - 1 + 1 ELSE 0
        /\ \A i \in 1 .. m - 1 + 1 : g[i] = f[1 + i - 1]
    BY <2>2, <2>3, SubSeqProperties
  <2> QED
    BY <2>1, <2>4
<1>9. \A i \in 1 .. Len(e) : e[i].key = g[i].key /\ e[i].data = g[i].data
  BY <1>2, <1>4, <1>6, <1>8
<1>10. e = g
  BY <1>2, <1>8, <1>9, SameMap
<1>11. q = IF p = 0 THEN Len(e) + 1 ELSE p
  <2>1. u.cursor # NULL
    BY HashAssumption
  <2>2. CASE p = 0
    BY <1>2, <1>4, <1>6, <2>1, <2>2
  <2>3. CASE p # 0
    BY <1>2, <1>4, <1>6, <2>1, <2>3
  <2> QED
    BY <2>2, <2>3
<1> QED
  BY <1>2, <1>4, <1>6, <1>7, <1>10, <1>11

LEMMA UpdateShown ==
  ASSUME NEW t, NEW L, NEW e, NEW p, Shows(t, L, e, p),
         NEW u, NEW b \in Live(t), NEW f, NEW q, Shows(u, L, f, q), NEW v \in Values,
         u.bucket[b].key = t.bucket[b].key, u.bucket[b].data = v,
         \A x \in Live(t) \ {b} : u.bucket[x].key = t.bucket[x].key
               /\ u.bucket[x].data = t.bucket[x].data,
         u.cursor = t.cursor
  PROVE  /\ Len(f) = Len(e) /\ q = p
         /\ \E i \in DOMAIN e : f = [e EXCEPT ![i].data = v] /\ e[i].key = t.bucket[b].key
<1>1. /\ Len(L) \in Nat /\ e \in Seq(Records) /\ Len(e) = Len(L) /\ DOMAIN e = 1 .. Len(L)
      /\ \A i \in 1 .. Len(L) : /\ e[i].key = t.bucket[L[i]].key /\ e[i].data = t.bucket[L[i]].data
                                /\ L[i] \in Live(t) /\ L[i] # NULL
      /\ \A i, j \in 1 .. Len(L) : L[i] = L[j] => i = j
      /\ p \in 0 .. Len(L) /\ (p = 0 <=> t.cursor = NULL) /\ (p # 0 => L[p] = t.cursor)
  BY ShownFacts
<1>2. \A x \in Live(t) : \E i \in 1 .. Len(L) : x = L[i]
  BY ShownFacts
<1>3. /\ f \in Seq(Records) /\ Len(f) = Len(L)
      /\ \A i \in 1 .. Len(L) : f[i].key = u.bucket[L[i]].key /\ f[i].data = u.bucket[L[i]].data
      /\ q \in 0 .. Len(L) /\ (q = 0 <=> u.cursor = NULL) /\ (q # 0 => L[q] = u.cursor)
  BY ShownFacts
<1>4. q = p
  BY <1>1, <1>3
<1>5. PICK i \in 1 .. Len(L) : b = L[i]
  BY <1>2
<1>6. PICK r : r = [e[i] EXCEPT !.data = v]
  OBVIOUS
<1>7. r \in Records /\ r.key = e[i].key /\ r.data = v
  <2>1. e[i] \in Records
    BY <1>1
  <2> QED
    BY <1>6, <2>1 DEF Records
<1>8. PICK g : g = [e EXCEPT ![i] = r]
  OBVIOUS
<1>9. g \in Seq(Records) /\ Len(g) = Len(L) /\ g[i] = r /\ \A j \in 1 .. Len(L) \ {i} : g[j] = e[j]
  BY <1>1, <1>7, <1>8
<1>10. \A j \in 1 .. Len(f) : f[j].key = g[j].key /\ f[j].data = g[j].data
  <2>1. \A j \in 1 .. Len(L) \ {i} : L[j] \in Live(t) \ {b}
    BY <1>1, <1>5
  <2>2. \A j \in 1 .. Len(L) \ {i} : f[j].key = g[j].key /\ f[j].data = g[j].data
    BY <1>1, <1>3, <1>9, <2>1
  <2>3. f[i].key = g[i].key /\ f[i].data = g[i].data
    BY <1>1, <1>3, <1>5, <1>7, <1>9
  <2> QED
    BY <1>3, <2>2, <2>3
<1>11. f = g
  BY <1>3, <1>9, <1>10, SameMap
<1> QED
  BY <1>1, <1>3, <1>4, <1>5, <1>6, <1>8, <1>11

(* RemoveAt of the ordered map is Unlinked of the lists. *)
LEMMA RemovedAt ==
  ASSUME NEW S, NEW s \in Seq(S), NEW k \in 1 .. Len(s)
  PROVE  /\ SubSeq(s, 1, k - 1) \o SubSeq(s, k + 1, Len(s)) = Unlinked(s, k)
         /\ Len(Unlinked(s, k)) = Len(s) - 1
         /\ \A i \in 1 .. Len(s) - 1 : Unlinked(s, k)[i] = IF i < k THEN s[i] ELSE s[i + 1]
<1>1. PICK n \in Nat : n = Len(s)
  OBVIOUS
<1>2. /\ k \in Int /\ k - 1 \in Int /\ k + 1 \in Int /\ k >= 1 /\ k <= n
      /\ \A i \in 1 .. n : s[i] \in S
  BY <1>1
<1>3. PICK x : x = SubSeq(s, 1, k - 1)
  OBVIOUS
<1>4. PICK y : y = SubSeq(s, k + 1, n)
  OBVIOUS
<1>5. x \in Seq(S) /\ Len(x) = k - 1 /\ \A i \in 1 .. k - 1 : x[i] = s[i]
  <2>1. \A i \in 1 .. k - 1 : s[i] \in S
    BY <1>2
  <2>2. /\ x \in Seq(S) /\ Len(x) = IF 1 <= k - 1 THEN k - 1 - 1 + 1 ELSE 0
        /\ \A i \in 1 .. k - 1 - 1 + 1 : x[i] = s[1 + i - 1]
    BY <1>2, <1>3, <2>1, SubSeqProperties
  <2> QED
    BY <1>2, <2>2
<1>6. y \in Seq(S) /\ Len(y) = n - k /\ \A i \in 1 .. n - k : y[i] = s[k + i]
  <2>1. \A i \in k + 1 .. n : s[i] \in S
    BY <1>2
  <2>2. /\ y \in Seq(S) /\ Len(y) = IF k + 1 <= n THEN n - (k + 1) + 1 ELSE 0
        /\ \A i \in 1 .. n - (k + 1) + 1 : y[i] = s[k + 1 + i - 1]
    BY <1>2, <1>4, <2>1, SubSeqProperties
  <2> QED
    BY <1>2, <2>2
<1>7. PICK z : z = x \o y
  OBVIOUS
<1>8. z \in Seq(S) /\ Len(z) = n - 1
      /\ \A i \in 1 .. n - 1 : z[i] = IF i <= k - 1 THEN x[i] ELSE y[i - (k - 1)]
  <2>1. z \in Seq(S) /\ Len(z) = Len(x) + Len(y)
        /\ \A i \in 1 .. Len(x) + Len(y) : z[i] = IF i <= Len(x) THEN x[i] ELSE y[i - Len(x)]
    BY <1>5, <1>6, <1>7, ConcatProperties
  <2> QED
    BY <1>2, <1>5, <1>6, <2>1
<1>9. \A i \in 1 .. n - 1 : z[i] = IF i < k THEN s[i] ELSE s[i + 1]
  <2>1. ASSUME NEW i \in 1 .. n - 1 PROVE z[i] = IF i < k THEN s[i] ELSE s[i + 1]
    <3>1. CASE i < k
      BY <1>2, <1>5, <1>8, <3>1
    <3>2. CASE ~(i < k)
      <4>1. i - (k - 1) \in 1 .. n - k /\ k + (i - (k - 1)) = i + 1
        BY <1>2, <3>2
      <4> QED
        BY <1>2, <1>6, <1>8, <3>2, <4>1
    <3> QED
      BY <3>1, <3>2
  <2> QED
    BY <2>1
<1>10. Unlinked(s, k) = [i \in 1 .. n - 1 |-> IF i < k THEN s[i] ELSE s[i + 1]]
  BY <1>1 DEF Unlinked
<1>11. z = Unlinked(s, k)
  BY <1>1, <1>8, <1>9, <1>10
<1> QED
  BY <1>1, <1>3, <1>4, <1>7, <1>8, <1>9, <1>11

(* Where the internal pointer is when entry k of the n goes. *)
PlaceWithout(n, p, k) ==
  IF p > k THEN p - 1 ELSE IF p = k /\ k = n THEN 0 ELSE p

LEMMA DeleteShown ==
  ASSUME NEW t, NEW L, NEW e, NEW p, Shows(t, L, e, p), NEW k \in 1 .. Len(L),
         NEW u, NEW f, NEW q, Shows(u, Unlinked(L, k), f, q),
         \A x \in Live(u) : u.bucket[x].key = t.bucket[x].key
               /\ u.bucket[x].data = t.bucket[x].data,
         u.cursor = (IF t.cursor = L[k] THEN At(L, k + 1) ELSE t.cursor)
  PROVE  /\ Len(f) = Len(e) - 1 /\ f = Unlinked(e, k) /\ k \in DOMAIN e
         /\ q = PlaceWithout(Len(e), p, k)
<1>1. PICK K : K = Unlinked(L, k)
  OBVIOUS
<1>2. /\ Len(L) \in Nat /\ e \in Seq(Records) /\ Len(e) = Len(L) /\ DOMAIN e = 1 .. Len(L)
      /\ \A i \in 1 .. Len(L) : /\ e[i].key = t.bucket[L[i]].key /\ e[i].data = t.bucket[L[i]].data
                                /\ L[i] \in Live(t) /\ L[i] # NULL
      /\ \A i, j \in 1 .. Len(L) : L[i] = L[j] => i = j
      /\ p \in 0 .. Len(L) /\ (p = 0 <=> t.cursor = NULL) /\ (p # 0 => L[p] = t.cursor)
  BY ShownFacts
<1>3. Len(K) = Len(L) - 1 /\ \A i \in 1 .. Len(L) - 1 : K[i] = IF i < k THEN L[i] ELSE L[i + 1]
  BY <1>1, <1>2 DEF Unlinked
<1>4. Shows(u, K, f, q)
  BY <1>1
<1>5. /\ f \in Seq(Records) /\ Len(f) = Len(K)
      /\ \A i \in 1 .. Len(K) : /\ f[i].key = u.bucket[K[i]].key /\ f[i].data = u.bucket[K[i]].data
                                /\ K[i] \in Live(u)
      /\ \A i, j \in 1 .. Len(K) : K[i] = K[j] => i = j
      /\ q \in 0 .. Len(K) /\ (q = 0 <=> u.cursor = NULL) /\ (q # 0 => K[q] = u.cursor)
  BY <1>4, ShownFacts
<1>6. PICK g : g = Unlinked(e, k)
  OBVIOUS
<1>7. /\ Len(g) = Len(L) - 1
      /\ \A i \in 1 .. Len(L) - 1 : g[i] = IF i < k THEN e[i] ELSE e[i + 1]
  BY <1>2, <1>6 DEF Unlinked
<1>8. g \in Seq(Records)
  <2>1. g = [i \in 1 .. Len(L) - 1 |-> IF i < k THEN e[i] ELSE e[i + 1]]
    BY <1>2, <1>6 DEF Unlinked
  <2>2. \A i \in 1 .. Len(L) - 1 : (IF i < k THEN e[i] ELSE e[i + 1]) \in Records
    <3>1. \A i \in 1 .. Len(L) : e[i] \in Records
      BY <1>2
    <3>2. \A i \in 1 .. Len(L) - 1 : i \in 1 .. Len(L) /\ i + 1 \in 1 .. Len(L)
      BY <1>2
    <3> QED
      BY <3>1, <3>2
  <2> QED
    BY <1>2, <2>1, <2>2
<1>9. \A i \in 1 .. Len(f) : f[i].key = g[i].key /\ f[i].data = g[i].data
  <2>1. ASSUME NEW i \in 1 .. Len(L) - 1, NEW j \in 1 .. Len(L), j = (IF i < k THEN i ELSE i + 1)
        PROVE  f[i].key = g[i].key /\ f[i].data = g[i].data
    <3>1. K[i] = L[j] /\ g[i] = e[j]
      BY <1>3, <1>7, <2>1
    <3>2. i \in 1 .. Len(K)
      BY <1>3
    <3>3. f[i].key = u.bucket[K[i]].key /\ f[i].data = u.bucket[K[i]].data /\ K[i] \in Live(u)
      BY <1>5, <3>2
    <3>4. u.bucket[K[i]].key = t.bucket[K[i]].key /\ u.bucket[K[i]].data = t.bucket[K[i]].data
      BY <3>3
    <3>5. e[j].key = t.bucket[L[j]].key /\ e[j].data = t.bucket[L[j]].data
      BY <1>2
    <3> QED
      BY <3>1, <3>3, <3>4, <3>5
  <2>2. \A i \in 1 .. Len(L) - 1 : (IF i < k THEN i ELSE i + 1) \in 1 .. Len(L)
    BY <1>2
  <2> QED
    BY <1>3, <1>5, <2>1, <2>2
<1>10. f = g
  BY <1>3, <1>5, <1>7, <1>8, <1>9, SameMap
<1>11. q = PlaceWithout(Len(L), p, k)
  <2>1. CASE p = 0
    BY <1>2, <1>5, <2>1 DEF PlaceWithout
  <2>2. CASE p = k /\ k = Len(L)
    <3>1. u.cursor = NULL
      BY <1>2, <2>2 DEF At
    <3>2. q = 0
      BY <1>5, <3>1
    <3>3. ~(p > k) /\ p = k /\ k = Len(L)
      BY <1>2, <2>2
    <3> QED
      BY <3>2, <3>3 DEF PlaceWithout
  <2>3. CASE p = k /\ k < Len(L)
    <3>1. k \in 1 .. Len(L) - 1 /\ k + 1 \in 1 .. Len(L)
      BY <1>2, <2>3
    <3>2. u.cursor = L[k + 1] /\ K[k] = L[k + 1] /\ u.cursor # NULL
      BY <1>2, <1>3, <2>3, <3>1 DEF At
    <3>3. q = k
      BY <1>3, <1>5, <3>1, <3>2
    <3>4. k \in Nat /\ Len(L) \in Nat
      BY <1>2
    <3>5. ~(k > k) /\ k # Len(L)
      BY <2>3, <3>4
    <3> QED
      BY <2>3, <3>3, <3>5 DEF PlaceWithout
  <2>4. CASE p # 0 /\ p < k
    <3>1. p \in 1 .. Len(L) - 1 /\ p \in 1 .. Len(L)
      BY <1>2, <2>4
    <3>2. u.cursor = L[p] /\ K[p] = L[p] /\ u.cursor # NULL
      BY <1>2, <1>3, <2>4, <3>1
    <3>3. q = p
      BY <1>3, <1>5, <3>1, <3>2
    <3>4. Len(L) \in Nat /\ k \in Nat /\ p \in Nat
      BY <1>2, <3>1
    <3>5. ~(p > k) /\ p # k
      BY <2>4, <3>4
    <3> QED
      BY <3>3, <3>5 DEF PlaceWithout
  <2>5. CASE p > k
    <3>1. p - 1 \in 1 .. Len(L) - 1 /\ p \in 1 .. Len(L) /\ ~(p - 1 < k) /\ p - 1 + 1 = p
      BY <1>2, <2>5
    <3>2. u.cursor = L[p] /\ K[p - 1] = L[p] /\ u.cursor # NULL
      BY <1>2, <1>3, <2>5, <3>1
    <3>3. q = p - 1
      BY <1>3, <1>5, <3>1, <3>2
    <3> QED
      BY <1>2, <2>5, <3>3 DEF PlaceWithout
  <2> QED
    BY <1>2, <2>1, <2>2, <2>3, <2>4, <2>5
<1> QED
  BY <1>2, <1>3, <1>5, <1>6, <1>10, <1>11

(* Two enumerations of the same elements are of one length. *)
LEMMA SameLength ==
  ASSUME NEW t, NEW L, ListOn(t, L)
  PROVE  Len(L) = Cardinality(Live(t))
<1>1. /\ Len(L) \in Nat /\ DOMAIN L = 1 .. Len(L) /\ L \in Seq(Addresses)
      /\ \A i \in 1 .. Len(L) : L[i] \in Live(t)
      /\ \A i, j \in 1 .. Len(L) : L[i] = L[j] => i = j
  BY ListFacts, SMTT(60)
<1>2. \A q \in Live(t) : \E i \in 1 .. Len(L) : q = L[i]
  BY OnList
<1>3. L \in [1 .. Len(L) -> Live(t)]
  BY <1>1
<1>4. ExistsBijection(1 .. Len(L), Live(t))
  BY <1>1, <1>2, <1>3 DEF ExistsBijection, Bijection, Injection, Surjection, IsInjective
<1> QED
  BY <1>1, <1>4, FS_Interval, FS_Bijection

Relabel(e, p, key) == [e EXCEPT ![p].key = key]

LEMMA RenameShown ==
  ASSUME NEW L, NEW e, NEW p, Shows(table, L, e, p),
         NEW key \in Keys, NEW K, NEW a, NEW m \in 1 .. Len(K),
         Renaming(L, K, m, a, key), table.cursor # NULL,
         NEW f, NEW q, Shows(table', [K EXCEPT ![m] = a], f, q),
         NEW g, g = Relabel(e, p, key)
  PROVE  /\ q # 0 /\ f[q].key = key /\ p \in DOMAIN e
         /\ \/ /\ f = g /\ q = p
               /\ \A i \in DOMAIN e : e[i].key # key
            \/ \E k \in DOMAIN e : /\ k # p /\ e[k].key = key /\ f = Unlinked(g, k)
                                   /\ q = PlaceWithout(Len(e), p, k)
<1>1. PICK t : t = table
  OBVIOUS
<1>2. PICK u : u = table'
  OBVIOUS
<1>3. PICK N : N = [K EXCEPT ![m] = a]
  OBVIOUS
<1>4. /\ Len(L) \in Nat /\ e \in Seq(Records) /\ Len(e) = Len(L) /\ DOMAIN e = 1 .. Len(L)
      /\ DOMAIN L = 1 .. Len(L)
      /\ \A i \in 1 .. Len(L) : /\ e[i].key = t.bucket[L[i]].key /\ e[i].data = t.bucket[L[i]].data
                                /\ L[i] \in Live(t) /\ L[i] # NULL /\ e[i] \in Records
      /\ \A i, j \in 1 .. Len(L) : L[i] = L[j] => i = j
      /\ p \in 0 .. Len(L) /\ (p = 0 <=> t.cursor = NULL) /\ (p # 0 => L[p] = t.cursor)
  BY <1>1, ShownFacts
<1>5. Shows(u, N, f, q)
  BY <1>2, <1>3
<1>6. /\ f \in Seq(Records) /\ Len(f) = Len(N) /\ Len(N) \in Nat /\ DOMAIN N = 1 .. Len(N)
      /\ \A i \in 1 .. Len(N) : f[i].key = u.bucket[N[i]].key /\ f[i].data = u.bucket[N[i]].data
      /\ \A i, j \in 1 .. Len(N) : N[i] = N[j] => i = j
      /\ q \in 0 .. Len(N) /\ (q = 0 <=> u.cursor = NULL) /\ (q # 0 => N[q] = u.cursor)
      /\ \A i \in 1 .. Len(N) : N[i] # NULL
  BY <1>5, ShownFacts
<1>7. /\ u.cursor = a /\ u.bucket[a].key = key /\ u.bucket[a].data = t.bucket[t.cursor].data
      /\ \A i \in 1 .. Len(K) \ {m} : /\ u.bucket[K[i]].key = t.bucket[K[i]].key
                                      /\ u.bucket[K[i]].data = t.bucket[K[i]].data
  BY <1>1, <1>2 DEF Renaming, Renames
<1>8. p \in 1 .. Len(L) /\ L[p] = t.cursor /\ K[m] = t.cursor
  BY <1>1, <1>4 DEF Renaming
<1>9. PICK r : r = [e[p] EXCEPT !.key = key]
  OBVIOUS
<1>10. r \in Records /\ r.key = key /\ r.data = e[p].data
  <2>1. e[p] \in Records
    BY <1>4, <1>8
  <2> QED
    BY <1>9, <2>1 DEF Records
<1>11. g \in Seq(Records) /\ Len(g) = Len(L) /\ g[p] = r /\ \A i \in 1 .. Len(L) \ {p} : g[i] = e[i]
  <2>1. g = [e EXCEPT ![p] = r]
    BY <1>9 DEF Relabel
  <2> QED
    BY <1>4, <1>8, <1>10, <2>1
<1>12. ASSUME DOMAIN K = 1 .. Len(K), Len(K) \in Nat
       PROVE  /\ Len(N) = Len(K) /\ N[m] = a /\ \A i \in 1 .. Len(K) \ {m} : N[i] = K[i]
              /\ q = m /\ f[m].key = key /\ f[m].data = e[p].data
              /\ \A i \in 1 .. Len(K) \ {m} : /\ f[i].key = t.bucket[K[i]].key
                                              /\ f[i].data = t.bucket[K[i]].data
  <2>1. DOMAIN N = 1 .. Len(K) /\ N[m] = a /\ \A i \in 1 .. Len(K) \ {m} : N[i] = K[i]
    BY <1>3, <1>12
  <2>2. Len(N) = Len(K)
    BY <1>6, <1>12, <2>1
  <2>3. q = m
    <3>1. a # NULL
      BY <1>6, <2>1, <2>2
    <3> QED
      BY <1>6, <1>7, <2>1, <2>2, <3>1
  <2>4. f[m].key = key /\ f[m].data = e[p].data
    BY <1>4, <1>6, <1>7, <1>8, <2>1, <2>2
  <2>5. \A i \in 1 .. Len(K) \ {m} : /\ f[i].key = t.bucket[K[i]].key
                                     /\ f[i].data = t.bucket[K[i]].data
    BY <1>6, <1>7, <2>1, <2>2
  <2> QED
    BY <2>1, <2>2, <2>3, <2>4, <2>5
<1>13. CASE K = L /\ \A x \in Live(table) : table.bucket[x].key # key
  <2>1. /\ Len(N) = Len(L) /\ q = m /\ f[m].key = key /\ f[m].data = e[p].data
        /\ \A i \in 1 .. Len(L) \ {m} : /\ f[i].key = t.bucket[L[i]].key
                                        /\ f[i].data = t.bucket[L[i]].data
    BY <1>4, <1>12, <1>13
  <2>2. m = p
    BY <1>4, <1>8, <1>13
  <2>3. \A i \in 1 .. Len(f) : f[i].key = g[i].key /\ f[i].data = g[i].data
    <3>1. \A i \in 1 .. Len(L) \ {p} : f[i].key = g[i].key /\ f[i].data = g[i].data
      BY <1>4, <1>11, <2>1, <2>2
    <3>2. f[p].key = g[p].key /\ f[p].data = g[p].data
      BY <1>10, <1>11, <2>1, <2>2
    <3> QED
      BY <1>6, <2>1, <3>1, <3>2
  <2>4. f = g
    <3>1. f \in Seq(Records) /\ g \in Seq(Records)
      BY <1>6, <1>11
    <3>2. Len(f) = Len(g)
      BY <1>6, <1>11, <2>1
    <3> QED
      BY <2>3, <3>1, <3>2, SameMap
  <2>5. \A i \in DOMAIN e : e[i].key # key
    BY <1>1, <1>4, <1>13
  <2> QED
    BY <1>4, <1>8, <2>1, <2>2, <2>4, <2>5
<1>14. CASE \E k \in 1 .. Len(L) : /\ table.bucket[L[k]].key = key /\ L[k] # table.cursor
                                   /\ K = Unlinked(L, k)
  <2>1. PICK k \in 1 .. Len(L) : t.bucket[L[k]].key = key /\ L[k] # t.cursor /\ K = Unlinked(L, k)
    BY <1>1, <1>14
  <2>2. /\ DOMAIN K = 1 .. Len(K) /\ Len(K) = Len(L) - 1 /\ Len(K) \in Nat
        /\ \A i \in 1 .. Len(L) - 1 : K[i] = IF i < k THEN L[i] ELSE L[i + 1]
    <3>1. K = [i \in 1 .. Len(L) - 1 |-> IF i < k THEN L[i] ELSE L[i + 1]]
      BY <2>1 DEF Unlinked
    <3>2. Len(L) - 1 \in Nat
      BY <1>4
    <3> QED
      BY <3>1, <3>2
  <2>3. /\ Len(N) = Len(K) /\ q = m /\ f[m].key = key /\ f[m].data = e[p].data
        /\ \A i \in 1 .. Len(K) \ {m} : /\ f[i].key = t.bucket[K[i]].key
                                        /\ f[i].data = t.bucket[K[i]].data
    BY <1>12, <2>2
  <2>4. k # p /\ e[k].key = key
    BY <1>4, <1>8, <2>1
  <2>5. p = IF m < k THEN m ELSE m + 1
    <3>1. (IF m < k THEN m ELSE m + 1) \in 1 .. Len(L)
      BY <1>4, <2>2
    <3>2. L[IF m < k THEN m ELSE m + 1] = L[p]
      BY <1>8, <2>2
    <3> QED
      BY <1>4, <1>8, <3>1, <3>2
  <2>6. q = PlaceWithout(Len(L), p, k)
    <3>1. m \in Nat /\ k \in Nat /\ q = m
      BY <1>4, <2>2, <2>3
    <3> QED
      BY <2>4, <2>5, <3>1 DEF PlaceWithout
  <2>7. PICK h : h = Unlinked(g, k)
    OBVIOUS
  <2>8. /\ h = [i \in 1 .. Len(L) - 1 |-> IF i < k THEN g[i] ELSE g[i + 1]]
        /\ Len(h) = Len(L) - 1
        /\ \A i \in 1 .. Len(L) - 1 : h[i] = IF i < k THEN g[i] ELSE g[i + 1]
    BY <1>4, <1>11, <2>7 DEF Unlinked
  <2>9. h \in Seq(Records)
    <3>1. \A i \in 1 .. Len(L) : g[i] \in Records
      BY <1>11
    <3>2. \A i \in 1 .. Len(L) - 1 : i \in 1 .. Len(L) /\ i + 1 \in 1 .. Len(L)
      BY <1>4
    <3>3. \A i \in 1 .. Len(L) - 1 : (IF i < k THEN g[i] ELSE g[i + 1]) \in Records
      BY <3>1, <3>2
    <3>4. PICK n \in Nat : n = Len(L) - 1
      BY <2>2
    <3>5. h = [i \in 1 .. n |-> IF i < k THEN g[i] ELSE g[i + 1]]
      BY <2>8, <3>4
    <3>6. \A i \in 1 .. n : (IF i < k THEN g[i] ELSE g[i + 1]) \in Records
      BY <3>3, <3>4
    <3>7. DOMAIN h = 1 .. n /\ \A i \in 1 .. n : h[i] \in Records
      BY <3>5, <3>6
    <3>8. h \in [1 .. n -> Records]
      BY <3>5, <3>7
    <3> QED
      BY <3>8
  <2>10. ASSUME NEW i \in 1 .. Len(L) - 1
         PROVE  f[i].key = h[i].key /\ f[i].data = h[i].data
    <3>1. PICK j \in 1 .. Len(L) : j = IF i < k THEN i ELSE i + 1
      BY <1>4
    <3>2. h[i] = g[j] /\ K[i] = L[j]
      BY <2>2, <2>8, <3>1
    <3>3. CASE i = m
      <4>1. j = p
        BY <2>5, <3>1, <3>3
      <4> QED
        BY <1>10, <1>11, <2>3, <3>2, <3>3, <4>1
    <3>4. CASE i # m
      <4>1. j # p
        <5>1. i \in Nat /\ m \in Nat /\ k \in Nat
          BY <1>4, <2>2
        <5> QED
          BY <2>5, <3>1, <3>4, <5>1
      <4>2. g[j] = e[j]
        BY <1>11, <4>1
      <4>3. f[i].key = t.bucket[K[i]].key /\ f[i].data = t.bucket[K[i]].data
        BY <2>2, <2>3, <3>4
      <4>4. e[j].key = t.bucket[L[j]].key /\ e[j].data = t.bucket[L[j]].data
        BY <1>4
      <4> QED
        BY <3>2, <4>2, <4>3, <4>4
    <3> QED
      BY <3>3, <3>4
  <2>11. f = h
    <3>1. f \in Seq(Records) /\ h \in Seq(Records)
      BY <1>6, <2>9
    <3>2. Len(f) = Len(h) /\ Len(f) = Len(L) - 1
      BY <1>6, <2>2, <2>3, <2>8
    <3>3. \A i \in 1 .. Len(f) : f[i].key = h[i].key /\ f[i].data = h[i].data
      BY <2>10, <3>2
    <3> QED
      BY <3>1, <3>2, <3>3, SameMap
  <2>12. q # 0 /\ f[q].key = key
    BY <2>2, <2>3
  <2>13. k \in DOMAIN e /\ p \in DOMAIN e
    BY <1>4, <1>8
  <2>14. f = Unlinked(g, k) /\ q = PlaceWithout(Len(e), p, k)
    BY <1>4, <2>6, <2>7, <2>11
  <2> QED
    BY <2>4, <2>12, <2>13, <2>14
<1> QED
  BY <1>13, <1>14 DEF Renaming

(* The head of a list is at its first place. *)
LEMMA FirstPlace ==
  ASSUME NEW u, NEW order, NEW f, NEW q, Shows(u, order, f, q),
         Live(u) # {}, u.cursor = order[1]
  PROVE  q = 1 /\ 1 \in 1 .. Len(order)
<1>1. /\ Len(order) \in Nat
      /\ \A i \in 1 .. Len(order) : order[i] # NULL
      /\ \A i, j \in 1 .. Len(order) : order[i] = order[j] => i = j
      /\ q \in 0 .. Len(order) /\ (q = 0 <=> u.cursor = NULL) /\ (q # 0 => order[q] = u.cursor)
  BY ShownFacts
<1>2. \A x \in Live(u) : \E i \in 1 .. Len(order) : x = order[i]
  BY ShownFacts
<1>3. 1 \in 1 .. Len(order)
  BY <1>1, <1>2
<1> QED
  BY <1>1, <1>3

(* A permutation leads from the old places to the new ones. *)
LEMMA SortShown ==
  ASSUME NEW t, NEW L, NEW e, NEW p, Shows(t, L, e, p), NEW order,
         NEW u, NEW f, NEW q, Shows(u, order, f, q), Live(u) = Live(t)
  PROVE  /\ Len(f) = Len(e) /\ Len(e) \in Nat /\ DOMAIN e = 1 .. Len(e) /\ DOMAIN f = 1 .. Len(e)
         /\ \E perm \in SetToSeqs(DOMAIN e) :
              /\ DOMAIN perm = 1 .. Len(e)
              /\ \A i \in 1 .. Len(e) : perm[i] \in 1 .. Len(e) /\ order[i] = L[perm[i]]
              /\ \A j \in 1 .. Len(e) : \E i \in 1 .. Len(e) : perm[i] = j
<1>1. /\ Len(L) \in Nat /\ Len(e) = Len(L) /\ DOMAIN e = 1 .. Len(L)
      /\ \A i \in 1 .. Len(L) : L[i] \in Live(t)
      /\ \A i, j \in 1 .. Len(L) : L[i] = L[j] => i = j
  BY ShownFacts
<1>2. \A x \in Live(t) : \E i \in 1 .. Len(L) : x = L[i]
  <2>1. ListOn(t, L)
    BY DEF Shows, Whole
  <2> QED
    BY <2>1, ListFacts
<1>3. /\ Len(order) \in Nat /\ Len(f) = Len(order) /\ DOMAIN f = 1 .. Len(order)
      /\ \A i \in 1 .. Len(order) : order[i] \in Live(t)
      /\ \A i, j \in 1 .. Len(order) : order[i] = order[j] => i = j
  <2>1. /\ Len(order) \in Nat /\ Len(f) = Len(order) /\ DOMAIN f = 1 .. Len(order)
        /\ \A i \in 1 .. Len(order) : order[i] \in Live(u)
        /\ \A i, j \in 1 .. Len(order) : order[i] = order[j] => i = j
    BY ShownFacts
  <2> QED
    BY <2>1
<1>4. \A x \in Live(t) : \E i \in 1 .. Len(order) : x = order[i]
  <2>1. ListOn(u, order)
    BY DEF Shows, Whole
  <2>2. \A x \in Live(u) : \E i \in 1 .. Len(order) : x = order[i]
    BY <2>1, ListFacts
  <2> QED
    BY <2>2
<1>5. Len(order) = Len(L)
  <2>1. Len(L) = Cardinality(Live(t))
    <3>1. ListOn(t, L)
      BY DEF Shows, Whole
    <3> QED
      BY <3>1, SameLength
  <2>2. Len(order) = Cardinality(Live(u))
    <3>1. ListOn(u, order)
      BY DEF Shows, Whole
    <3> QED
      BY <3>1, SameLength, SMTT(60)
  <2> QED
    BY <2>1, <2>2
<1>6. PICK n \in Nat : n = Len(L)
  BY <1>1
<1> DEFINE perm == [i \in 1 .. n |-> CHOOSE j \in 1 .. n : order[i] = L[j]]
<1>7. \A i \in 1 .. n : perm[i] \in 1 .. n /\ order[i] = L[perm[i]]
  BY <1>2, <1>3, <1>5, <1>6
<1>8. DOMAIN perm = 1 .. n /\ perm \in [1 .. n -> 1 .. n]
  BY <1>7
<1> HIDE DEF perm
<1>9. \A i, j \in 1 .. n : perm[i] = perm[j] => i = j
  BY <1>3, <1>5, <1>6, <1>7
<1>10. \A j \in 1 .. n : \E i \in 1 .. n : perm[i] = j
  <2>1. ASSUME NEW j \in 1 .. n PROVE \E i \in 1 .. n : perm[i] = j
    <3>1. PICK i \in 1 .. n : L[j] = order[i]
      BY <1>1, <1>4, <1>5, <1>6
    <3> QED
      BY <1>1, <1>6, <1>7, <3>1
  <2> QED
    BY <2>1
<1>11. Cardinality(1 .. n) = n
  BY FS_Interval
<1>12. perm \in SetToSeqs(DOMAIN e)
  <2>1. DOMAIN e = 1 .. n
    BY <1>1, <1>6
  <2>2. \A i, j \in 1 .. n : i # j => perm[i] # perm[j]
    BY <1>9
  <2> QED
    BY <1>8, <1>11, <2>1, <2>2 DEF SetToSeqs
<1>13. n = Len(e)
  BY <1>1, <1>6
<1>14. /\ DOMAIN perm = 1 .. Len(e)
       /\ \A i \in 1 .. Len(e) : perm[i] \in 1 .. Len(e) /\ order[i] = L[perm[i]]
       /\ \A j \in 1 .. Len(e) : \E i \in 1 .. Len(e) : perm[i] = j
  BY <1>7, <1>8, <1>10, <1>13
<1>15. Len(f) = Len(e) /\ Len(e) \in Nat /\ DOMAIN e = 1 .. Len(e) /\ DOMAIN f = 1 .. Len(e)
  BY <1>1, <1>3, <1>5
<1> QED
  BY <1>12, <1>14, <1>15

(* The steps of the map *)
LEMMA MapNow == entries = MapOf(table) /\ place = PlaceOf(table)
BY DEF entries, place, MapOf, PlaceOf

LEMMA MapThen == entries' = MapOf(table') /\ place' = PlaceOf(table')
BY DEF entries, place, MapOf, PlaceOf

(* A sound table shows entries and place, now and after the step. *)
LEMMA ShownNow ==
  ASSUME NEW L, Whole(table, L)
  PROVE  Shows(table, L, entries, place)
BY MapNow, MapIs

LEMMA ShownThen ==
  ASSUME NEW K, Whole(table', K)
  PROVE  Shows(table', K, entries', place')
<1>1. PICK u : u = table'
  OBVIOUS
<1>2. PICK f : f = entries'
  OBVIOUS
<1>3. PICK q : q = place'
  OBVIOUS
<1>4. Whole(u, K) /\ f = MapOf(u) /\ q = PlaceOf(u)
  BY <1>1, <1>2, <1>3, MapThen
<1>5. Shows(u, K, f, q)
  BY <1>4, MapIs
<1> QED
  BY <1>1, <1>2, <1>3, <1>5

(* Each operation is the step of OrderedMap that it stands for. *)
LEMMA InsertRefines ==
  ASSUME NEW L, Whole(table, L), NEW key \in Keys, NEW v \in Values, Insert(key, v)
  PROVE  Abstract!Add(entries, entries')
<1>1. PICK b \in Addresses \ Live(table) :
        /\ Whole(table', Append(L, b)) /\ Live(table') = Live(table) \cup {b}
        /\ table'.bucket[b].key = key /\ table'.bucket[b].data = v
        /\ \A x \in Live(table) : /\ table'.bucket[x].key = table.bucket[x].key
                                  /\ table'.bucket[x].data = table.bucket[x].data
        /\ table'.cursor = (IF table.cursor = NULL THEN b ELSE table.cursor)
        /\ table'.next = After(key, table.next)
        /\ \A x \in Live(table) : table.bucket[x].key # key
  BY InsertSteps
<1>2. PICK e, p : e = entries /\ p = place
  OBVIOUS
<1>3. PICK f, q : f = entries' /\ q = place'
  OBVIOUS
<1>4. PICK u : u = table'
  OBVIOUS
<1>5. Shows(table, L, e, p)
  BY <1>2, ShownNow
<1>6. Shows(u, Append(L, b), f, q)
  BY <1>1, <1>3, <1>4, ShownThen
<1>7. /\ \A x \in Live(table) : /\ u.bucket[x].key = table.bucket[x].key
                                /\ u.bucket[x].data = table.bucket[x].data
      /\ u.cursor = (IF table.cursor = NULL THEN b ELSE table.cursor)
      /\ u.bucket[b].key = key /\ u.bucket[b].data = v
  BY <1>1, <1>4
<1>8. /\ Len(f) = Len(e) + 1 /\ SubSeq(f, 1, Len(f) - 1) = e
      /\ f[Len(f)].key = u.bucket[b].key /\ f[Len(f)].data = u.bucket[b].data
      /\ q = IF p = 0 THEN Len(e) + 1 ELSE p
  BY <1>5, <1>6, <1>7, AddShown
<1>9. ~Abstract!Has(key, e)
  <2>1. DOMAIN e = 1 .. Len(L)
        /\ \A i \in 1 .. Len(L) : e[i].key = table.bucket[L[i]].key /\ L[i] \in Live(table)
    BY <1>5, ShownFacts
  <2> QED
    BY <1>1, <2>1 DEF Abstract!Has
<1>10. table'.next = After(f[Len(f)].key, table.next)
  BY <1>1, <1>7, <1>8
<1>11. Abstract!Add(e, f)
  <2>1. Len(f) = Len(e) + 1 /\ Abstract!Front(f) = e
    BY <1>8 DEF Abstract!Front
  <2>2. Abstract!Last(f).key = key /\ Abstract!Last(f).data = v
    BY <1>7, <1>8 DEF Abstract!Last
  <2>3. table'.next = After(Abstract!Last(f).key, table.next)
    BY <1>1, <2>2
  <2>4. place' = IF place = 0 THEN Len(e) + 1 ELSE place
    BY <1>2, <1>3, <1>8
  <2> QED
    BY <1>9, <2>1, <2>2, <2>3, <2>4 DEF Abstract!Add
<1> QED
  BY <1>2, <1>3, <1>11

LEMMA UpdateRefines ==
  ASSUME NEW L, Whole(table, L), NEW key \in Keys, NEW v \in Values, Update(key, v)
  PROVE  Abstract!Update(entries, entries')
<1>1. PICK b \in Live(table) :
        /\ Whole(table', L) /\ Live(table') = Live(table)
        /\ table.bucket[b].key = key
        /\ table'.bucket[b].key = key /\ table'.bucket[b].data = v
        /\ \A x \in Live(table) \ {b} : /\ table'.bucket[x].key = table.bucket[x].key
                                        /\ table'.bucket[x].data = table.bucket[x].data
        /\ table'.cursor = table.cursor
        /\ table'.next = After(key, table.next)
  BY UpdateSteps
<1>2. PICK e, p : e = entries /\ p = place
  OBVIOUS
<1>3. PICK f, q : f = entries' /\ q = place'
  OBVIOUS
<1>4. PICK u : u = table'
  OBVIOUS
<1>5. Shows(table, L, e, p)
  BY <1>2, ShownNow
<1>6. Shows(u, L, f, q)
  BY <1>1, <1>3, <1>4, ShownThen
<1>7. /\ u.bucket[b].key = table.bucket[b].key /\ u.bucket[b].data = v
      /\ \A x \in Live(table) \ {b} : /\ u.bucket[x].key = table.bucket[x].key
                                      /\ u.bucket[x].data = table.bucket[x].data
      /\ u.cursor = table.cursor
  BY <1>1, <1>4
<1>8. /\ Len(f) = Len(e) /\ q = p
      /\ \E i \in DOMAIN e : f = [e EXCEPT ![i].data = v] /\ e[i].key = table.bucket[b].key
  BY <1>5, <1>6, <1>7, UpdateShown, SMTT(60)
<1>9. PICK i \in DOMAIN e : f = [e EXCEPT ![i].data = v] /\ e[i].key = table.bucket[b].key
  BY <1>8
<1>10. table'.next = After(e[i].key, table.next)
  BY <1>1, <1>9
<1>11. place' = place
  BY <1>2, <1>3, <1>8
<1>12. Abstract!Update(e, f)
  BY <1>8, <1>9, <1>10, <1>11 DEF Abstract!Update
<1> QED
  BY <1>2, <1>3, <1>12

(* A removal of either kind *)
LEMMA RemovalRefines ==
  ASSUME NEW L, Whole(table, L), NEW k \in 1 .. Len(L), Whole(table', Unlinked(L, k)),
         \A x \in Live(table') : /\ table'.bucket[x].key = table.bucket[x].key
                                 /\ table'.bucket[x].data = table.bucket[x].data,
         table'.cursor = (IF table.cursor = L[k] THEN At(L, k + 1) ELSE table.cursor),
         table'.next = table.next
  PROVE  Abstract!Delete(entries, entries')
<1>2. PICK e, p : e = entries /\ p = place
  OBVIOUS
<1>3. PICK f, q : f = entries' /\ q = place'
  OBVIOUS
<1>4. PICK u : u = table'
  OBVIOUS
<1>5. Shows(table, L, e, p)
  BY <1>2, ShownNow
<1>6. Shows(u, Unlinked(L, k), f, q)
  BY <1>3, <1>4, ShownThen
<1>7. /\ \A x \in Live(u) : u.bucket[x].key = table.bucket[x].key
            /\ u.bucket[x].data = table.bucket[x].data
      /\ u.cursor = (IF table.cursor = L[k] THEN At(L, k + 1) ELSE table.cursor)
  BY <1>4
<1>8. /\ Len(f) = Len(e) - 1 /\ f = Unlinked(e, k) /\ k \in DOMAIN e
      /\ q = PlaceWithout(Len(e), p, k)
  BY <1>5, <1>6, <1>7, DeleteShown
<1>9. e \in Seq(Records) /\ k \in 1 .. Len(e)
  BY <1>5, ShownFacts
<1>10. Abstract!RemoveAt(e, k) = Unlinked(e, k)
  BY <1>9, RemovedAt DEF Abstract!RemoveAt
<1>11. place' = Abstract!CursorWithout(e, k)
  BY <1>2, <1>3, <1>8 DEF PlaceWithout, Abstract!CursorWithout
<1>12. Abstract!Delete(e, f)
  BY <1>8, <1>10, <1>11 DEF Abstract!Delete
<1> QED
  BY <1>2, <1>3, <1>12

LEMMA RenameRefines ==
  ASSUME NEW L, Whole(table, L), NEW key \in Keys, HashUpdateCurrentKey(key), ~RenameFails
  PROVE  Abstract!Rename(entries, entries')
<1>1. PICK K, a : \E m \in 1 .. Len(K) : Renaming(L, K, m, a, key)
  BY RenameSteps
<1>2. PICK m \in 1 .. Len(K) : Renaming(L, K, m, a, key)
  BY <1>1, SMTT(60)
<1>3. table.cursor # NULL
  BY Zenon DEF HashUpdateCurrentKey
<1>4. Whole(table', [K EXCEPT ![m] = a]) /\ table'.next = table.next
  BY <1>2 DEF Renaming, Renames
<1>5. PICK e, p : e = entries /\ p = place
  OBVIOUS
<1>6. PICK f, q : f = entries' /\ q = place'
  OBVIOUS
<1>7. Shows(table, L, e, p)
  BY <1>5, ShownNow
<1>8. Shows(table', [K EXCEPT ![m] = a], f, q)
  BY <1>4, <1>6, ShownThen
<1>9. PICK g : g = Relabel(e, p, key)
  OBVIOUS
<1>10. /\ q # 0 /\ f[q].key = key /\ p \in DOMAIN e
       /\ \/ /\ f = g /\ q = p
             /\ \A i \in DOMAIN e : e[i].key # key
          \/ \E k \in DOMAIN e : /\ k # p /\ e[k].key = key /\ f = Unlinked(g, k)
                                 /\ q = PlaceWithout(Len(e), p, k)
  BY <1>2, <1>3, <1>7, <1>8, <1>9, RenameShown
<1>11. e \in Seq(Records) /\ DOMAIN e = 1 .. Len(L) /\ Len(e) = Len(L) /\ Len(L) \in Nat
  BY <1>7, ShownFacts
<1>12. p # 0
  BY <1>10, <1>11
<1>13. PICK others : others = {i \in DOMAIN e \ {p} : e[i].key = key}
  OBVIOUS
<1>14. IF others = {}
         THEN f = g /\ q = p
         ELSE \E i \in others : f = Abstract!RemoveAt(g, i) /\ q = Abstract!CursorWithout(e, i)
  <2>1. CASE f = g /\ q = p /\ \A i \in DOMAIN e : e[i].key # key
    BY <1>13, <2>1
  <2>2. CASE \E k \in DOMAIN e : /\ k # p /\ e[k].key = key /\ f = Unlinked(g, k)
                                 /\ q = PlaceWithout(Len(e), p, k)
    <3>1. PICK k \in DOMAIN e : /\ k # p /\ e[k].key = key /\ f = Unlinked(g, k)
                                /\ q = PlaceWithout(Len(e), p, k)
      BY <2>2
    <3>2. k \in others
      BY <1>13, <3>1
    <3>3. g \in Seq(Records) /\ Len(g) = Len(e)
      <4>1. PICK r : r = [e[p] EXCEPT !.key = key]
        OBVIOUS
      <4>2. e[p] \in Records
        BY <1>10, <1>11
      <4>3. r \in Records
        BY <4>1, <4>2 DEF Records
      <4>4. g = [e EXCEPT ![p] = r]
        BY <1>9, <4>1 DEF Relabel
      <4> QED
        BY <1>10, <1>11, <4>3, <4>4
    <3>4. k \in 1 .. Len(g)
      BY <1>11, <3>1, <3>3
    <3>5. Abstract!RemoveAt(g, k) = Unlinked(g, k)
      BY <3>3, <3>4, RemovedAt DEF Abstract!RemoveAt
    <3>6. q = Abstract!CursorWithout(e, k)
      <4>1. Abstract!CursorWithout(e, k) = PlaceWithout(Len(e), p, k)
        BY <1>5 DEF PlaceWithout, Abstract!CursorWithout
      <4> QED
        BY <3>1, <4>1
    <3> QED
      BY <3>1, <3>2, <3>5, <3>6
  <2> QED
    BY <1>10, <2>1, <2>2
<1>15. Abstract!Rename(e, f)
  <2>1. place # 0 /\ place' # 0 /\ table'.next = table.next
    BY <1>4, <1>5, <1>6, <1>10, <1>12
  <2>2. f[place'].key = key
    BY <1>6, <1>10
  <2>3. g = [e EXCEPT ![place].key = f[place'].key]
    BY <1>5, <1>9, <2>2 DEF Relabel
  <2>4. others = {i \in DOMAIN e \ {place} : e[i].key = f[place'].key}
    BY <1>5, <1>13, <2>2
  <2>5. IF others = {}
          THEN f = g /\ place' = place
          ELSE \E i \in others : f = Abstract!RemoveAt(g, i)
                /\ place' = Abstract!CursorWithout(e, i)
    BY <1>5, <1>6, <1>14
  <2>6. f[place'].key \in Keys
    BY <2>2
  <2> QED
    BY <2>1, <2>3, <2>4, <2>5, <2>6 DEF Abstract!Rename
<1> QED
  BY <1>5, <1>6, <1>15

LEMMA SortRefines ==
  ASSUME NEW L, Whole(table, L), HashSort(FALSE)
  PROVE  Abstract!Sort(entries, entries')
<1>1. PICK order \in SetToSeqs(Live(table)) :
        /\ Whole(table', order) /\ Live(table') = Live(table)
        /\ table'.cursor = order[1] /\ Live(table) # {}
        /\ table'.next = table.next
        /\ \A i \in 1 .. Len(order) :
             /\ table'.bucket[order[i]].data = table.bucket[order[i]].data
             /\ table'.bucket[order[i]].key = table.bucket[order[i]].key
  BY SortSteps
<1>2. PICK e, p : e = entries /\ p = place
  OBVIOUS
<1>3. PICK f, q : f = entries' /\ q = place'
  OBVIOUS
<1>4. PICK u : u = table'
  OBVIOUS
<1>5. Shows(table, L, e, p)
  BY <1>2, ShownNow
<1>6. Shows(u, order, f, q)
  BY <1>1, <1>3, <1>4, ShownThen
<1>7. q = 1
  BY <1>1, <1>4, <1>6, FirstPlace
<1>8. Live(u) = Live(table)
  BY <1>1, <1>4
<1>9. /\ Len(f) = Len(e) /\ Len(e) \in Nat /\ DOMAIN e = 1 .. Len(e) /\ DOMAIN f = 1 .. Len(e)
      /\ \E perm \in SetToSeqs(DOMAIN e) :
           /\ DOMAIN perm = 1 .. Len(e)
           /\ \A i \in 1 .. Len(e) : perm[i] \in 1 .. Len(e) /\ order[i] = L[perm[i]]
           /\ \A j \in 1 .. Len(e) : \E i \in 1 .. Len(e) : perm[i] = j
  BY <1>5, <1>6, <1>8, SortShown
<1>10. PICK perm :
         /\ \A i \in 1 .. Len(e) : perm[i] \in 1 .. Len(e) /\ order[i] = L[perm[i]]
         /\ \A j \in 1 .. Len(e) : \E i \in 1 .. Len(e) : perm[i] = j
  BY <1>9
<1>11. Len(order) = Len(e) /\ Len(L) = Len(e)
       /\ \A i \in 1 .. Len(e) : f[i] = Entry(u, order[i])
  <2>1. Len(f) = Len(order) /\ \A i \in 1 .. Len(order) : f[i] = Entry(u, order[i])
    BY <1>6, ShownFacts
  <2>2. Len(e) = Len(L)
    BY <1>5, ShownFacts
  <2> QED
    BY <1>9, <2>1, <2>2
<1>12. \A i \in 1 .. Len(e) : e[i] = Entry(table, L[i])
  <2>1. \A i \in 1 .. Len(L) : e[i] = Entry(table, L[i])
    BY <1>5, ShownFacts
  <2> QED
    BY <1>11, <2>1
<1>13. \A i \in 1 .. Len(e) : f[i] = e[perm[i]]
  <2>1. \A i \in 1 .. Len(e) : Entry(u, order[i]) = Entry(table, order[i])
    BY <1>1, <1>4, <1>11 DEF Entry
  <2>2. ASSUME NEW i \in 1 .. Len(e) PROVE f[i] = e[perm[i]]
    <3>1. perm[i] \in 1 .. Len(e) /\ order[i] = L[perm[i]]
      BY <1>10
    <3>2. e[perm[i]] = Entry(table, L[perm[i]])
      BY <1>12, <3>1
    <3>3. f[i] = Entry(table, order[i])
      BY <1>11, <2>1
    <3> QED
      BY <3>1, <3>2, <3>3
  <2> QED
    BY <2>2
<1>14. Abstract!Range(f) = Abstract!Range(e)
  <2>1. \A j \in 1 .. Len(e) : \E i \in 1 .. Len(e) : f[i] = e[j]
    BY <1>10, <1>13
  <2>2. \A i \in 1 .. Len(e) : \E j \in 1 .. Len(e) : f[i] = e[j]
    BY <1>10, <1>13
  <2>3. Abstract!Range(f) = {f[i] : i \in 1 .. Len(e)}
              /\ Abstract!Range(e) = {e[i] : i \in 1 .. Len(e)}
    BY <1>9 DEF Abstract!Range
  <2> QED
    BY <2>1, <2>2, <2>3
<1>15. Abstract!Sort(e, f)
  BY <1>1, <1>3, <1>7, <1>9, <1>14 DEF Abstract!Sort
<1> QED
  BY <1>2, <1>3, <1>15

LEMMA RenumberRefines ==
  ASSUME NEW L, Whole(table, L), HashSort(TRUE)
  PROVE  Abstract!Renumber(entries, entries')
<1>1. PICK order \in SetToSeqs(Live(table)) :
        /\ Whole(table', order) /\ Live(table') = Live(table)
        /\ table'.cursor = order[1] /\ Live(table) # {}
        /\ table'.next = Len(order)
        /\ \A i \in 1 .. Len(order) :
             /\ table'.bucket[order[i]].data = table.bucket[order[i]].data
             /\ table'.bucket[order[i]].key = [str |-> NULL, h |-> i - 1]
  BY SortSteps
<1>2. PICK e, p : e = entries /\ p = place
  OBVIOUS
<1>3. PICK f, q : f = entries' /\ q = place'
  OBVIOUS
<1>4. PICK u : u = table'
  OBVIOUS
<1>5. Shows(table, L, e, p)
  BY <1>2, ShownNow
<1>6. Shows(u, order, f, q)
  BY <1>1, <1>3, <1>4, ShownThen
<1>7. q = 1
  BY <1>1, <1>4, <1>6, FirstPlace
<1>8. Live(u) = Live(table)
  BY <1>1, <1>4
<1>9. /\ Len(f) = Len(e) /\ Len(e) \in Nat /\ DOMAIN e = 1 .. Len(e) /\ DOMAIN f = 1 .. Len(e)
      /\ \E perm \in SetToSeqs(DOMAIN e) :
           /\ DOMAIN perm = 1 .. Len(e)
           /\ \A i \in 1 .. Len(e) : perm[i] \in 1 .. Len(e) /\ order[i] = L[perm[i]]
           /\ \A j \in 1 .. Len(e) : \E i \in 1 .. Len(e) : perm[i] = j
  BY <1>5, <1>6, <1>8, SortShown
<1>10. PICK perm \in SetToSeqs(DOMAIN e) :
         /\ DOMAIN perm = 1 .. Len(e)
         /\ \A i \in 1 .. Len(e) : perm[i] \in 1 .. Len(e) /\ order[i] = L[perm[i]]
  BY <1>9
<1>11. Len(order) = Len(e) /\ Len(L) = Len(e)
       /\ \A i \in 1 .. Len(e) : f[i].key = u.bucket[order[i]].key
             /\ f[i].data = u.bucket[order[i]].data
  <2>1. /\ Len(f) = Len(order)
        /\ \A i \in 1 .. Len(order) : f[i].key = u.bucket[order[i]].key
              /\ f[i].data = u.bucket[order[i]].data
    BY <1>6, ShownFacts
  <2>2. Len(e) = Len(L)
    BY <1>5, ShownFacts
  <2> QED
    BY <1>9, <2>1, <2>2
<1>12. \A i \in 1 .. Len(e) : e[i].data = table.bucket[L[i]].data
  <2>1. \A i \in 1 .. Len(L) : e[i].data = table.bucket[L[i]].data
    BY <1>5, ShownFacts
  <2> QED
    BY <1>11, <2>1
<1>13. \A i \in 1 .. Len(e) : f[i].data = e[perm[i]].data /\ f[i].key = [str |-> NULL, h |-> i - 1]
  <2>1. \A i \in 1 .. Len(e) : /\ u.bucket[order[i]].data = table.bucket[order[i]].data
                               /\ u.bucket[order[i]].key = [str |-> NULL, h |-> i - 1]
    BY <1>1, <1>4, <1>11
  <2>2. ASSUME NEW i \in 1 .. Len(e)
        PROVE  f[i].data = e[perm[i]].data /\ f[i].key = [str |-> NULL, h |-> i - 1]
    <3>1. perm[i] \in 1 .. Len(e) /\ order[i] = L[perm[i]]
      BY <1>10
    <3>2. e[perm[i]].data = table.bucket[L[perm[i]]].data
      BY <1>12, <3>1
    <3>3. f[i].data = u.bucket[order[i]].data /\ f[i].key = u.bucket[order[i]].key
      BY <1>11
    <3> QED
      BY <2>1, <3>1, <3>2, <3>3
  <2> QED
    BY <2>2
<1>14. Abstract!SetToSeqs(DOMAIN e) = SetToSeqs(DOMAIN e)
  <2>1. Abstract!Cardinality(DOMAIN e) = Cardinality(DOMAIN e)
    BY DEF Cardinality, Abstract!Cardinality
  <2> QED
    BY <2>1, Zenon DEF SetToSeqs, Abstract!SetToSeqs
<1>15. Abstract!Renumber(e, f)
  <2>1. place' = 1 /\ table'.next = Len(e) /\ Len(f) = Len(e)
    BY <1>1, <1>3, <1>7, <1>9, <1>11
  <2>2. \A i \in DOMAIN f : f[i].key = [str |-> NULL, h |-> i - 1]
    BY <1>9, <1>13
  <2>3. perm \in Abstract!SetToSeqs(DOMAIN e) /\ \A i \in DOMAIN perm : f[i].data = e[perm[i]].data
    BY <1>10, <1>13, <1>14
  <2> QED
    BY <2>1, <2>2, <2>3 DEF Abstract!Renumber
<1> QED
  BY <1>2, <1>3, <1>15

LEMMA ClearRefines ==
  ASSUME NEW L, Whole(table, L), HashClear
  PROVE  Abstract!Clear(entries')
<1>1. Whole(table', << >>) /\ table'.cursor = NULL /\ table'.next = 0
  BY ClearSteps
<1>2. PICK f, q : f = entries' /\ q = place'
  OBVIOUS
<1>3. Shows(table', << >>, f, q)
  BY <1>1, <1>2, ShownThen
<1>4. f \in Seq(Records) /\ Len(f) = Len(<< >>) /\ q \in 0 .. Len(<< >>)
  BY <1>3, ShownFacts
<1>5. f = << >> /\ q = 0
  BY <1>4
<1> QED
  BY <1>1, <1>2, <1>5 DEF Abstract!Clear

LEMMA MoveRefines ==
  ASSUME NEW L, Whole(table, L), saved \in [pos : Pointers, h : 0 .. Word - 1], Moves
  PROVE  Abstract!Move(entries, entries')
<1>1. Whole(table', L) /\ table'.bucket = table.bucket /\ table'.next = table.next
  BY MoveSteps
<1>2. PICK e, p : e = entries /\ p = place
  OBVIOUS
<1>3. PICK f, q : f = entries' /\ q = place'
  OBVIOUS
<1>4. PICK u : u = table'
  OBVIOUS
<1>5. Shows(table, L, e, p)
  BY <1>2, ShownNow
<1>6. Shows(u, L, f, q)
  BY <1>1, <1>3, <1>4, ShownThen
<1>7. f = e
  BY <1>1, <1>4, <1>5, <1>6 DEF Shows, EntriesOf, Entry
<1>8. DOMAIN e = 1 .. Len(L) /\ Len(L) \in Nat
  BY <1>5, ShownFacts
<1>9. q \in 0 .. Len(L)
  BY <1>6, ShownFacts
<1>10. q \in {0} \cup DOMAIN e
  BY <1>8, <1>9
<1> QED
  BY <1>1, <1>2, <1>3, <1>7, <1>10 DEF Abstract!Move

LEMMA CallBackRefines ==
  ASSUME NEW L, Whole(table, L), FramesOn(table, L, applies),
         NEW remove \in BOOLEAN, NEW stop \in BOOLEAN, CallBackReturns(remove, stop)
  PROVE  UNCHANGED table \/ Abstract!Delete(entries, entries')
<1>1. CASE ~UNCHANGED table
  <2>1. \E k \in 1 .. Len(L) : table' = HashApplyDeleter(table, L[k])
    BY <1>1, CallBackKeeps
  <2>2. PICK k \in 1 .. Len(L) : table' = HashApplyDeleter(table, L[k])
    BY <2>1
  <2>3. PICK b : b = L[k]
    OBVIOUS
  <2>4. /\ Whole(table', Unlinked(L, k)) /\ Live(table') = Live(table) \ {b}
        /\ table'.cursor = (IF table.cursor = b THEN At(L, k + 1) ELSE table.cursor)
        /\ table'.next = table.next
        /\ \A q \in Live(table') : /\ table'.bucket[q].key = table.bucket[q].key
                                   /\ table'.bucket[q].data = table.bucket[q].data
    BY <2>2, <2>3, DeleterSteps
  <2>5. Abstract!Delete(entries, entries')
    BY <2>3, <2>4, RemovalRefines
  <2> QED
    BY <2>5
<1> QED
  BY <1>1

(* A step that leaves the table alone does not show. *)
LEMMA SameTable ==
  ASSUME UNCHANGED table
  PROVE  UNCHANGED Abstract!vars
BY MapNow, MapThen DEF Abstract!vars

(* Every step of the table is a step of the map, or does not show in it. *)
LEMMA StepRefines ==
  ASSUME IInv, ~RenameFails, [Next]_vars
  PROVE  [Abstract!Next]_(Abstract!vars)
<1>1. PICK L : Whole(table, L) /\ FramesOn(table, L, applies)
  BY DEF IInv
<1>2. saved \in [pos : Pointers, h : 0 .. Word - 1]
  BY DEF IInv
<1>3. ASSUME NEW key \in Keys, NEW v \in Values, Insert(key, v)
      PROVE  Abstract!Add(entries, entries')
  BY <1>1, <1>3, InsertRefines
<1>4. ASSUME NEW key \in Keys, NEW v \in Values, Update(key, v)
      PROVE  Abstract!Update(entries, entries')
  BY <1>1, <1>4, UpdateRefines
<1>5. ASSUME NEW key \in Keys, Delete(key)
      PROVE  Abstract!Delete(entries, entries')
  <2>1. PICK k \in 1 .. Len(L) :
          /\ Whole(table', Unlinked(L, k))
          /\ \A q \in Live(table') : /\ table'.bucket[q].key = table.bucket[q].key
                                     /\ table'.bucket[q].data = table.bucket[q].data
          /\ table'.cursor = (IF table.cursor = L[k] THEN At(L, k + 1) ELSE table.cursor)
          /\ table'.next = table.next
    BY <1>1, <1>5, DeleteSteps
  <2> QED
    BY <1>1, <2>1, RemovalRefines
<1>6. ASSUME NEW key \in Keys, HashUpdateCurrentKey(key)
      PROVE  Abstract!Rename(entries, entries')
  BY <1>1, <1>6, RenameRefines
<1>7. ASSUME NEW v \in Values, NextInsert(v)
      PROVE  Abstract!Add(entries, entries')
  <2>1. [str |-> NULL, h |-> table.next] \in Keys
    <3>1. table.next \in 0 .. Word - 1
      BY <1>1 DEF Whole, Tables
    <3> QED
      BY <3>1 DEF Keys, Indexes
  <2> QED
    BY <1>3, <1>7, <2>1 DEF NextInsert
<1>8. ASSUME HashClear PROVE Abstract!Clear(entries')
  BY <1>1, <1>8, ClearRefines
<1>9. ASSUME Moves PROVE Abstract!Move(entries, entries')
  BY <1>1, <1>2, <1>9, MoveRefines
<1>10. ASSUME NEW renumber \in BOOLEAN, HashSort(renumber)
       PROVE  Abstract!Sort(entries, entries') \/ Abstract!Renumber(entries, entries')
  <2>1. CASE renumber = FALSE
    BY <1>1, <1>10, <2>1, SortRefines
  <2>2. CASE renumber = TRUE
    BY <1>1, <1>10, <2>2, RenumberRefines
  <2> QED
    BY <2>1, <2>2
<1>11. ASSUME NEW remove \in BOOLEAN, NEW stop \in BOOLEAN, CallBackReturns(remove, stop)
       PROVE  UNCHANGED table \/ Abstract!Delete(entries, entries')
  BY <1>1, <1>11, CallBackRefines
<1>12. HashGetPointer \/ (\E kind \in Applies : StartApply(kind)) \/ EndApply \/ UNCHANGED vars
         => UNCHANGED table
  BY DEF HashGetPointer, StartApply, EndApply, vars
<1>13. PICK e, f : e = entries /\ f = entries'
  OBVIOUS
<1>14. \/ UNCHANGED table
       \/ Abstract!Move(e, f) \/ Abstract!Clear(f) \/ Abstract!Add(e, f) \/ Abstract!Delete(e, f)
       \/ Abstract!Sort(e, f) \/ Abstract!Renumber(e, f) \/ Abstract!Rename(e, f)
       \/ Abstract!Update(e, f)
  BY <1>3, <1>4, <1>5, <1>6, <1>7, <1>8, <1>9, <1>10, <1>11, <1>12, <1>13 DEF Next, Moves
<1>15. CASE UNCHANGED table
  BY <1>15, SameTable
<1>16. CASE ~UNCHANGED table
  <2>1. Abstract!Next
    BY <1>13, <1>14, <1>16 DEF Abstract!Next
  <2> QED
    BY <2>1
<1> QED
  BY <1>15, <1>16

(* An empty table shows the empty map. *)
LEMMA InitRefines ==
  ASSUME Init
  PROVE  Abstract!Init
<1>1. Whole(table, << >>)
  <2>1. PICK L : Whole(table, L)
    BY InitSound DEF IInv
  <2>2. Live(table) = {}
    BY DEF Init, Live
  <2>3. L = << >>
    <3>1. ListOn(table, L)
      BY <2>1 DEF Whole
    <3>2. Len(L) \in Nat /\ (L = <<>> <=> Len(L) = 0) /\ \A i \in 1 .. Len(L) : L[i] \in Live(table)
      BY <3>1, ListFacts
    <3> QED
      BY <2>2, <3>2
  <2> QED
    BY <2>1, <2>3
<1>2. PICK e, p : e = entries /\ p = place
  OBVIOUS
<1>3. Shows(table, << >>, e, p)
  BY <1>1, <1>2, ShownNow
<1>4. e \in Seq(Records) /\ Len(e) = Len(<< >>) /\ p \in 0 .. Len(<< >>)
  BY <1>3, ShownFacts
<1>5. e = << >> /\ p = 0
  BY <1>4
<1>6. table.next = 0
  BY DEF Init
<1> QED
  BY <1>2, <1>5, <1>6 DEF Abstract!Init

(* With chains, addresses, sizes and applies out of sight the table is a    *)
(* map that keeps the order of insertion and one cursor, for every sequence *)
(* of calls of HashAddOrUpdate, HashDelete, HashUpdateCurrentKeyEx,         *)
(* HashSort, the applies and the moves of the internal pointer.             *)
THEOREM IsOrderedMap == ~RenameFails => (Spec => ImplementsOrderedMap)
<1>1. ASSUME ~RenameFails PROVE Spec => ImplementsOrderedMap
  <2>1. Spec => []IInv
    BY <1>1, AlwaysSound
  <2>2. Init => Abstract!Init
    BY InitRefines
  <2>3. IInv /\ [Next]_vars => [Abstract!Next]_(Abstract!vars)
    BY <1>1, StepRefines
  <2> QED
    BY <2>1, <2>2, <2>3, PTL DEF Spec, ImplementsOrderedMap, Abstract!Spec
<1> QED
  BY <1>1
=============================================================================
