-------------------------- MODULE ScanPassesProofs --------------------------
(***************************************************************************)
(* Proofs about ScanPasses, for op arrays of every length and handlers     *)
(* that push as much as they like.  That a pass handles its candidates in  *)
(* order, and each that is not marked, needs that what a queue has below   *)
(* its bottom is behind the pass (Behind), that the dump has nothing above *)
(* the bottom of Skip that is behind it (TypeOK), and that what the pass   *)
(* has gone past was handled or is in a queue (PastInv).                   *)
(***************************************************************************)
EXTENDS ScanPasses, SequenceTheorems, FiniteSetTheorems, TLAPS

Lemmas == INSTANCE ListLemmas

Queue == [elements : Seq(0 .. LastOffset), bottom : Nat]

(* What a queue has below its bottom, and what it has from there on. *)
Below(q, lo) == \A i \in 1 .. q.bottom : q.elements[i] < lo
Above(q, lo) == \A i \in q.bottom + 1 .. Top(q) : q.elements[i] >= lo

-----------------------------------------------------------------------------
LEMMA QueueFacts ==
  ASSUME NEW q \in Queue
  PROVE  /\ q.elements \in Seq(0 .. LastOffset) /\ q.bottom \in Nat
         /\ Top(q) \in Nat /\ DOMAIN q.elements = 1 .. Top(q)
         /\ \A i \in 1 .. Top(q) : q.elements[i] \in 0 .. LastOffset
<1>1. q.elements \in Seq(0 .. LastOffset) /\ q.bottom \in Nat
  BY DEF Queue
<1> QED
  BY <1>1, LenProperties, ElementOfSeq DEF Top

(* Where a push puts its offset. *)
LEMMA PushIs ==
  ASSUME NEW q \in Queue, NEW x \in 0 .. LastOffset
  PROVE  LET r == StackPushAsc(q, x)
         IN  /\ r \in Queue /\ r.bottom = q.bottom /\ Top(r) = Top(q) + 1
             /\ \E k \in 0 .. Top(q) :
                  /\ k = 0 \/ q.elements[k] <= x
                  /\ \A j \in k + 1 .. Top(q) : q.elements[j] > x
                  /\ \A i \in 1 .. Top(q) + 1 :
                       r.elements[i] = IF i <= k THEN q.elements[i]
                                       ELSE IF i = k + 1 THEN x ELSE q.elements[i - 1]
<1> DEFINE n == Top(q)
           Rests(k) == /\ k = 0 \/ q.elements[k] <= x
                       /\ \A j \in k + 1 .. n : q.elements[j] > x
           k == CHOOSE i \in 0 .. n : Rests(i)
           r == StackPushAsc(q, x)
<1>1. /\ n \in Nat /\ q.elements \in Seq(0 .. LastOffset) /\ q.bottom \in Nat
      /\ \A i \in 1 .. n : q.elements[i] \in 0 .. LastOffset
  BY QueueFacts
<1>2. \E i \in 0 .. n : Rests(i)
  <2> DEFINE ups == {i \in 0 .. n : \A j \in i + 1 .. n : q.elements[j] > x}
  <2>1. n \in ups /\ ups \subseteq Nat
    BY <1>1
  <2>2. PICK i \in ups : \A j \in ups : i <= j
    <3> HIDE DEF ups
    <3> QED
      BY <2>1, Lemmas!LeastNumber
  <2>3. i = 0 \/ q.elements[i] <= x
    <3>1. SUFFICES ASSUME i # 0, ~(q.elements[i] <= x)
                   PROVE  FALSE
      OBVIOUS
    <3>2. i \in 1 .. n /\ q.elements[i] > x
      BY <1>1, <3>1
    <3>3. ASSUME NEW j \in (i - 1) + 1 .. n
          PROVE  q.elements[j] > x
      <4>1. j = i \/ j \in i + 1 .. n
        BY <1>1, <3>2
      <4> QED
        BY <3>2, <4>1
    <3>4. i - 1 \in ups
      BY <1>1, <3>2, <3>3
    <3> HIDE DEF ups
    <3> QED
      BY <2>2, <3>2, <3>4
  <2> QED
    BY <2>2, <2>3
<1>3. k \in 0 .. n /\ Rests(k)
  BY <1>2
<1>4. r = [q EXCEPT !.elements =
              SubSeq(q.elements, 1, k) \o <<x>> \o SubSeq(q.elements, k + 1, n)]
  BY DEF StackPushAsc, Top
<1> HIDE DEF k, r
<1> DEFINE all == SubSeq(q.elements, 1, k) \o <<x>> \o SubSeq(q.elements, k + 1, n)
<1>5. /\ all \in Seq(0 .. LastOffset) /\ Len(all) = n + 1
      /\ \A i \in 1 .. n + 1 :
           all[i] = IF i <= k THEN q.elements[i]
                    ELSE IF i = k + 1 THEN x ELSE q.elements[i - 1]
  <2>1. k + 1 \in 1 .. n + 1 /\ (k + 1) - 1 = k
    BY <1>1, <1>3
  <2>2. all = Lemmas!Inserted(q.elements, k + 1, x)
    BY <2>1 DEF Lemmas!Inserted, Top
  <2> HIDE DEF all
  <2>3. /\ all \in Seq(0 .. LastOffset) /\ Len(all) = n + 1
        /\ \A i \in 1 .. n + 1 :
             all[i] = IF i < k + 1 THEN q.elements[i]
                      ELSE IF i = k + 1 THEN x ELSE q.elements[i - 1]
    <3>1. /\ q.elements \in Seq(0 .. LastOffset) /\ k + 1 \in 1 .. Len(q.elements) + 1
          /\ n = Len(q.elements)
      BY <1>1, <2>1 DEF Top
    <3> DEFINE S == 0 .. LastOffset
               s == q.elements
               at == k + 1
    <3>2. s \in Seq(S) /\ x \in S /\ at \in 1 .. Len(s) + 1 /\ n = Len(s)
      BY <3>1
    <3>3. all = Lemmas!Inserted(s, at, x)
      BY <2>2
    <3> HIDE DEF n, S, s, at
    <3>4. /\ all \in Seq(S) /\ Len(all) = Len(s) + 1
          /\ \A i \in 1 .. Len(s) + 1 :
               all[i] = IF i < at THEN s[i] ELSE IF i = at THEN x ELSE s[i - 1]
      <4>1. s \in Seq(S)
        BY <3>2
      <4>2. x \in S
        BY <3>2
      <4>3. at \in 1 .. Len(s) + 1
        BY <3>2
      <4>4. /\ Lemmas!Inserted(s, at, x) \in Seq(S)
            /\ Len(Lemmas!Inserted(s, at, x)) = Len(s) + 1
            /\ \A i \in 1 .. Len(s) + 1 :
                 Lemmas!Inserted(s, at, x)[i] =
                   IF i < at THEN s[i] ELSE IF i = at THEN x ELSE s[i - 1]
        BY <4>1, <4>2, <4>3, Lemmas!InsertedIs
      <4> QED
        BY <3>3, <4>4
    <3> QED
      BY <3>2, <3>4 DEF S, s, at
  <2> QED
    BY <1>1, <1>3, <2>3
<1> HIDE DEF all
<1>6. r \in Queue /\ r.bottom = q.bottom /\ r.elements = all
  BY <1>1, <1>4, <1>5 DEF Queue, all
<1>7. Top(r) = n + 1
  BY <1>5, <1>6 DEF Top
<1> QED
  BY <1>3, <1>5, <1>6, <1>7 DEF r

(* A push keeps a sorted queue sorted, and what is below and above its bottom
   apart. *)
LEMMA PushKeeps ==
  ASSUME NEW q \in Queue, SortedQueue(q), NEW x \in 0 .. LastOffset
  PROVE  LET r == StackPushAsc(q, x)
         IN  /\ r \in Queue /\ SortedQueue(r) /\ r.bottom = q.bottom
             /\ ElementSet(r) = ElementSet(q) \cup {x}
             /\ \A lo \in Int : Below(q, lo) => Below(r, lo)
             /\ \A lo \in Int : Above(q, lo) /\ x >= lo => Above(r, lo)
<1> DEFINE r == StackPushAsc(q, x)
           n == Top(q)
<1>1. /\ n \in Nat /\ q.bottom \in 0 .. n /\ LastOffset + 0 \in Int
      /\ \A i \in 1 .. n : q.elements[i] \in 0 .. LastOffset /\ q.elements[i] \in Int
      /\ \A i, j \in 1 .. n : i <= j => q.elements[i] <= q.elements[j]
  <2>1. \A y \in 0 .. LastOffset : y \in Int
    OBVIOUS
  <2> QED
    BY <2>1, QueueFacts, ScanAssumption DEF SortedQueue
<1>2. r \in Queue /\ r.bottom = q.bottom /\ Top(r) = n + 1
  BY PushIs
<1>3. PICK k \in 0 .. n :
        /\ k = 0 \/ q.elements[k] <= x
        /\ \A j \in k + 1 .. n : q.elements[j] > x
        /\ \A i \in 1 .. n + 1 :
             r.elements[i] = IF i <= k THEN q.elements[i]
                             ELSE IF i = k + 1 THEN x ELSE q.elements[i - 1]
  BY PushIs
<1> HIDE DEF n, r
<1>4. \A i \in 1 .. n + 1 :
        \/ i <= k /\ i \in 1 .. n /\ r.elements[i] = q.elements[i] /\ q.elements[i] <= x
        \/ i = k + 1 /\ r.elements[i] = x
        \/ /\ i > k + 1 /\ i - 1 \in k + 1 .. n /\ i - 1 \in 1 .. n
           /\ r.elements[i] = q.elements[i - 1] /\ q.elements[i - 1] > x
  <2> SUFFICES ASSUME NEW i \in 1 .. n + 1
               PROVE  \/ i <= k /\ i \in 1 .. n /\ r.elements[i] = q.elements[i] /\ q.elements[i] <= x
                      \/ i = k + 1 /\ r.elements[i] = x
                      \/ /\ i > k + 1 /\ i - 1 \in k + 1 .. n /\ i - 1 \in 1 .. n
                         /\ r.elements[i] = q.elements[i - 1] /\ q.elements[i - 1] > x
    OBVIOUS
  <2>1. CASE i <= k
    <3>1. i \in 1 .. n /\ k \in 1 .. n
      BY <1>1, <2>1
    <3>2. q.elements[i] <= q.elements[k] /\ q.elements[k] <= x
      BY <1>1, <1>3, <2>1, <3>1
    <3>3. q.elements[i] \in Int /\ q.elements[k] \in Int
      BY <1>1, <3>1
    <3> QED
      BY <1>3, <2>1, <3>1, <3>2, <3>3
  <2>2. CASE i = k + 1
    BY <1>3, <2>2
  <2>3. CASE i > k + 1
    <3>1. i - 1 \in k + 1 .. n /\ i - 1 \in 1 .. n
      BY <1>1, <2>3
    <3>2. r.elements[i] = q.elements[i - 1]
      BY <1>1, <1>3, <2>3
    <3> QED
      BY <1>3, <2>3, <3>1, <3>2
  <2> QED
    BY <1>1, <2>1, <2>2, <2>3
<1>5. \A i \in 1 .. n + 1 : r.elements[i] \in Int /\ r.elements[i] \in 0 .. LastOffset
  BY <1>1, <1>4
<1>6. ASSUME NEW i \in 1 .. n + 1, NEW j \in 1 .. n + 1, i <= j
      PROVE  r.elements[i] <= r.elements[j]
  <2>1. CASE j <= k
    <3>1. r.elements[i] = q.elements[i] /\ r.elements[j] = q.elements[j] /\ i \in 1 .. n /\ j \in 1 .. n
      BY <1>1, <1>4, <1>6, <2>1
    <3> QED
      BY <1>1, <1>6, <3>1
  <2>2. CASE i <= k /\ j = k + 1
    <3>1. r.elements[i] <= x /\ r.elements[j] = x
      BY <1>1, <1>4, <2>2
    <3> QED
      BY <3>1
  <2>3. CASE i <= k + 1 /\ j > k + 1
    <3>1. r.elements[i] <= x /\ r.elements[j] > x
      BY <1>1, <1>4, <2>3
    <3> QED
      BY <1>5, <3>1
  <2>4. CASE i = k + 1 /\ j = k + 1
    BY <1>5, <2>4
  <2>5. CASE i > k + 1
    <3>1. /\ r.elements[i] = q.elements[i - 1] /\ r.elements[j] = q.elements[j - 1]
          /\ i - 1 \in 1 .. n /\ j - 1 \in 1 .. n /\ i - 1 <= j - 1
      BY <1>1, <1>4, <1>6, <2>5
    <3> QED
      BY <1>1, <3>1
  <2> QED
    BY <1>1, <1>6, <2>1, <2>2, <2>3, <2>4, <2>5
<1>7. SortedQueue(r)
  <2>1. r.elements \in Seq(0 .. LastOffset)
    BY <1>2, QueueFacts
  <2>2. r.bottom \in 0 .. Top(r)
    BY <1>1, <1>2
  <2> QED
    BY <1>2, <1>6, <2>1, <2>2 DEF SortedQueue
<1>8. ElementSet(r) = ElementSet(q) \cup {x}
  <2>1. \A i \in 1 .. n + 1 : r.elements[i] \in ElementSet(q) \cup {x}
    BY <1>4 DEF ElementSet, n
  <2>2. ASSUME NEW i \in 1 .. n
        PROVE  \E j \in 1 .. n + 1 : r.elements[j] = q.elements[i]
    <3>1. CASE i <= k
      BY <1>1, <1>3, <3>1
    <3>2. CASE i > k
      <4>1. i + 1 \in 1 .. n + 1 /\ ~(i + 1 <= k) /\ i + 1 # k + 1 /\ (i + 1) - 1 = i
        BY <1>1, <3>2
      <4> QED
        BY <1>3, <4>1
    <3> QED
      BY <1>1, <3>1, <3>2
  <2>3. k + 1 \in 1 .. n + 1 /\ r.elements[k + 1] = x
    BY <1>1, <1>3
  <2> QED
    BY <1>2, <2>1, <2>2, <2>3 DEF ElementSet, n
<1>9. ASSUME NEW lo \in Int, Below(q, lo)
      PROVE  Below(r, lo)
  <2>1. ASSUME NEW i \in 1 .. q.bottom
        PROVE  r.elements[i] < lo
    <3>1. i \in 1 .. n + 1 /\ q.elements[i] < lo /\ i \in 1 .. n /\ q.elements[i] \in Int
      BY <1>1, <1>9 DEF Below
    <3>2. CASE i <= k
      BY <1>4, <3>1, <3>2
    <3>3. CASE i = k + 1
      <4>1. q.elements[i] > x
        BY <1>1, <1>3, <3>1, <3>3
      <4>2. r.elements[i] = x
        BY <1>3, <3>1, <3>3
      <4> QED
        BY <3>1, <4>1, <4>2
    <3>4. CASE i > k + 1
      <4>1. r.elements[i] = q.elements[i - 1] /\ i - 1 \in 1 .. q.bottom
        BY <1>1, <1>4, <3>1, <3>4
      <4> QED
        BY <1>9, <4>1 DEF Below
    <3> QED
      BY <1>1, <3>2, <3>3, <3>4
  <2> QED
    BY <1>2, <2>1 DEF Below
<1>10. ASSUME NEW lo \in Int, Above(q, lo), x >= lo
       PROVE  Above(r, lo)
  <2>1. ASSUME NEW i \in q.bottom + 1 .. n + 1
        PROVE  r.elements[i] >= lo
    <3>1. i \in 1 .. n + 1 /\ r.elements[i] \in Int
      BY <1>1, <1>5
    <3>2. CASE i <= k
      <4>1. i \in q.bottom + 1 .. n /\ r.elements[i] = q.elements[i]
        BY <1>1, <1>4, <3>1, <3>2
      <4> QED
        BY <1>10, <4>1 DEF Above, n
    <3>3. CASE i = k + 1
      BY <1>3, <1>10, <3>1, <3>3
    <3>4. CASE i > k + 1
      <4>1. r.elements[i] > x
        BY <1>1, <1>4, <3>1, <3>4
      <4> QED
        BY <1>10, <3>1, <4>1
    <3> QED
      BY <1>1, <3>1, <3>2, <3>3, <3>4
  <2> QED
    BY <1>2, <2>1 DEF Above
<1> QED
  BY <1>2, <1>7, <1>8, <1>9, <1>10 DEF r

-----------------------------------------------------------------------------
(* The offsets of a set are pushed one by one, each at most once: the function
   that pushes them exists. *)
LEMMA PushAllExists ==
  ASSUME NEW q \in Queue, NEW S
  PROVE  \E f \in [0 .. LastOffset + 1 -> Queue] :
           /\ f[0] = q
           /\ \A n \in 1 .. LastOffset + 1 :
                f[n] = IF n - 1 \in S THEN StackPushAsc(f[n - 1], n - 1) ELSE f[n - 1]
           /\ StackPushAll(q, S) = f[LastOffset + 1]
<1> DEFINE N == LastOffset + 1
           step == [p \in (1 .. N) \X Queue |->
                      IF p[1] - 1 \in S THEN StackPushAsc(p[2], p[1] - 1) ELSE p[2]]
           Is(f) == f = [n \in 0 .. LastOffset + 1 |->
                           IF n = 0 THEN q
                           ELSE IF n - 1 \in S THEN StackPushAsc(f[n - 1], n - 1)
                                ELSE f[n - 1]]
<1>1. N \in Nat
  BY ScanAssumption
<1>2. step \in [(1 .. N) \X Queue -> Queue]
  <2> SUFFICES ASSUME NEW n \in 1 .. N, NEW r \in Queue
               PROVE  (IF n - 1 \in S THEN StackPushAsc(r, n - 1) ELSE r) \in Queue
    OBVIOUS
  <2>1. n - 1 \in 0 .. LastOffset
    BY ScanAssumption
  <2> QED
    BY <2>1, PushIs
<1>3. PICK g \in [0 .. N -> Queue] :
        g[0] = q /\ \A n \in 1 .. N : g[n] = step[<<n, g[n - 1]>>]
  <2>1. q \in Queue
    OBVIOUS
  <2> HIDE DEF N, step
  <2> DEFINE D == Queue
  <2>2. step \in [(1 .. N) \X D -> D] /\ q \in D
    BY <1>2
  <2> HIDE DEF D
  <2>3. \E f \in [0 .. N -> D] : Lemmas!Recursion(f, N, q, step)
    <3>1. step \in [(1 .. N) \X D -> D]
      BY <2>2
    <3>2. q \in D
      BY <2>2
    <3> QED
      BY <1>1, <3>1, <3>2, Lemmas!PrimitiveRecursion
  <2> QED
    BY <2>3 DEF D, Lemmas!Recursion
<1>4. ASSUME NEW n \in 1 .. N
      PROVE  /\ g[n - 1] \in Queue
             /\ g[n] = IF n - 1 \in S THEN StackPushAsc(g[n - 1], n - 1) ELSE g[n - 1]
  <2>1. n - 1 \in 0 .. N
    BY <1>1
  <2>2. g[n - 1] \in Queue
    BY <2>1
  <2>3. step[<<n, g[n - 1]>>]
          = IF n - 1 \in S THEN StackPushAsc(g[n - 1], n - 1) ELSE g[n - 1]
    BY <2>2
  <2> QED
    BY <1>3, <2>2, <2>3
<1>5. Is(g)
  <2>1. ASSUME NEW n \in 0 .. N
        PROVE  g[n] = IF n = 0 THEN q
                      ELSE IF n - 1 \in S THEN StackPushAsc(g[n - 1], n - 1)
                           ELSE g[n - 1]
    <3>1. CASE n = 0
      BY <1>3, <3>1
    <3>2. CASE n # 0
      <4>1. n \in 1 .. N
        BY <1>1, <3>2
      <4> QED
        BY <1>4, <3>2, <4>1
    <3> QED
      BY <3>1, <3>2
  <2> QED
    BY <2>1
<1> DEFINE h == CHOOSE f : Is(f)
<1>6. Is(h)
  BY <1>5
<1>7. StackPushAll(q, S) = h[LastOffset + 1]
  BY DEF StackPushAll
<1> HIDE DEF h
<1>8. h = g
  <2> DEFINE bad == {n \in 0 .. N : h[n] # g[n]}
  <2>1. bad = {}
    <3> SUFFICES ASSUME bad # {}
                 PROVE  FALSE
      OBVIOUS
    <3>1. PICK m \in bad : \A i \in bad : m <= i
      <4>1. bad \subseteq Nat
        OBVIOUS
      <4> HIDE DEF bad
      <4> QED
        BY <4>1, Lemmas!LeastNumber
    <3>2. m # 0
      BY <1>1, <1>3, <1>6, <3>1
    <3>3. m \in 1 .. N /\ m - 1 \in 0 .. N /\ m - 1 \notin bad
      <4>1. m \in 0 .. N
        BY <3>1
      <4>2. m \in 1 .. N /\ m - 1 \in 0 .. N /\ ~(m <= m - 1)
        BY <1>1, <3>2, <4>1
      <4> HIDE DEF bad
      <4> QED
        BY <3>1, <4>2
    <3>4. h[m - 1] = g[m - 1]
      BY <3>3
    <3>5. h[m] = IF m - 1 \in S THEN StackPushAsc(h[m - 1], m - 1) ELSE h[m - 1]
      BY <1>6, <3>1, <3>2
    <3>6. h[m] = g[m]
      BY <1>4, <3>3, <3>4, <3>5
    <3> QED
      BY <3>1, <3>6
  <2>2. \A n \in 0 .. N : h[n] = g[n]
    BY <2>1
  <2>3. h = [n \in 0 .. N |-> h[n]]
    BY <1>6
  <2> QED
    BY <2>2, <2>3
<1> QED
  BY <1>3, <1>4, <1>7, <1>8

(* Pushing a set does to a queue what pushing each of its offsets does. *)
LEMMA PushAllIs ==
  ASSUME NEW q \in Queue, SortedQueue(q), NEW S, S \subseteq 0 .. LastOffset
  PROVE  LET r == StackPushAll(q, S)
         IN  /\ r \in Queue /\ SortedQueue(r) /\ r.bottom = q.bottom
             /\ ElementSet(r) = ElementSet(q) \cup S
             /\ \A lo \in Int : Below(q, lo) => Below(r, lo)
             /\ \A lo \in Int : Above(q, lo) /\ (\A x \in S : x >= lo) => Above(r, lo)
<1> DEFINE N == LastOffset + 1
           Upto(n) == {x \in S : x < n}
           Good(r, n) ==
             /\ r \in Queue /\ SortedQueue(r) /\ r.bottom = q.bottom
             /\ ElementSet(r) = ElementSet(q) \cup Upto(n)
             /\ \A lo \in Int : Below(q, lo) => Below(r, lo)
             /\ \A lo \in Int : Above(q, lo) /\ (\A x \in S : x >= lo) => Above(r, lo)
<1>1. N \in Nat /\ LastOffset \in Nat /\ \A x \in S : x \in Nat /\ x < N /\ ~(x < 0)
  BY ScanAssumption
<1>2. PICK f \in [0 .. N -> Queue] :
        /\ f[0] = q
        /\ \A n \in 1 .. N :
             f[n] = IF n - 1 \in S THEN StackPushAsc(f[n - 1], n - 1) ELSE f[n - 1]
        /\ StackPushAll(q, S) = f[N]
  BY PushAllExists
<1>3. Good(q, 0)
  <2>1. Upto(0) = {}
    BY <1>1
  <2> QED
    BY <2>1
<1>4. ASSUME NEW n \in 1 .. N, Good(f[n - 1], n - 1)
      PROVE  Good(f[n], n)
  <2> DEFINE r == f[n - 1]
  <2>1. /\ r \in Queue /\ SortedQueue(r) /\ r.bottom = q.bottom
        /\ ElementSet(r) = ElementSet(q) \cup Upto(n - 1)
        /\ \A lo \in Int : Below(q, lo) => Below(r, lo)
        /\ \A lo \in Int : Above(q, lo) /\ (\A x \in S : x >= lo) => Above(r, lo)
    BY <1>4
  <2>2. n - 1 \in 0 .. LastOffset
    BY <1>1
  <2>3. \A x \in S : x < n <=> x < n - 1 \/ x = n - 1
    BY <1>1
  <2>4. CASE n - 1 \in S
    <3>1. f[n] = StackPushAsc(r, n - 1)
      BY <1>2, <2>4
    <3>2. Upto(n) = Upto(n - 1) \cup {n - 1}
      BY <2>4, <2>3
    <3> HIDE DEF r, Upto
    <3>3. /\ f[n] \in Queue /\ SortedQueue(f[n]) /\ f[n].bottom = r.bottom
          /\ ElementSet(f[n]) = ElementSet(r) \cup {n - 1}
          /\ \A lo \in Int : Below(r, lo) => Below(f[n], lo)
          /\ \A lo \in Int : Above(r, lo) /\ n - 1 >= lo => Above(f[n], lo)
      BY <2>1, <2>2, <3>1, PushKeeps
    <3> QED
      BY <2>1, <2>4, <3>2, <3>3
  <2>5. CASE n - 1 \notin S
    <3>1. f[n] = r
      BY <1>2, <2>5
    <3>2. Upto(n) = Upto(n - 1)
      BY <2>5, <2>3
    <3> QED
      BY <2>1, <3>1, <3>2
  <2> QED
    BY <2>4, <2>5
<1>5. Good(f[N], N)
  <2> DEFINE bad == {n \in 0 .. N : ~Good(f[n], n)}
  <2>1. bad = {}
    <3> SUFFICES ASSUME bad # {}
                 PROVE  FALSE
      OBVIOUS
    <3>1. bad \subseteq Nat
      OBVIOUS
    <3>2. PICK m \in bad : \A i \in bad : m <= i
      <4> HIDE DEF bad
      <4> QED
        BY <3>1, Lemmas!LeastNumber
    <3>3. m \in 0 .. N /\ ~Good(f[m], m)
      BY <3>2
    <3> HIDE DEF Good
    <3>4. m \in 1 .. N /\ m - 1 \in 0 .. N /\ ~(m <= m - 1)
      <4>1. m # 0
        BY <1>2, <1>3, <3>3
      <4> QED
        BY <1>1, <3>3, <4>1
    <3>5. m - 1 \notin bad
      <4> HIDE DEF bad
      <4> QED
        BY <3>2, <3>4
    <3> QED
      BY <1>4, <3>3, <3>4, <3>5
  <2> HIDE DEF Good
  <2>2. N \in 0 .. N
    BY <1>1
  <2> QED
    BY <2>1, <2>2
<1>6. Upto(N) = S
  BY <1>1
<1> QED
  BY <1>2, <1>5, <1>6

-----------------------------------------------------------------------------
(* Popping at the bottom takes the elements in S that stand there, and no other. *)
LEMMA PopWhileInIs ==
  ASSUME NEW q \in Queue, SortedQueue(q), NEW S
  PROVE  LET r == PopWhileIn(q, S)
         IN  /\ r \in Queue /\ SortedQueue(r) /\ r.elements = q.elements
             /\ r.bottom \in q.bottom .. Top(q)
             /\ r.bottom = Top(q) \/ q.elements[r.bottom + 1] \notin S
             /\ \A i \in q.bottom + 1 .. r.bottom : q.elements[i] \in S
<1> DEFINE n == Top(q)
           low == q.bottom
           Stops(b) == /\ b = n \/ q.elements[b + 1] \notin S
                       /\ \A i \in low + 1 .. b : q.elements[i] \in S
           b == CHOOSE i \in low .. n : Stops(i)
           r == PopWhileIn(q, S)
<1>1. n \in Nat /\ low \in 0 .. n /\ low \in Nat /\ q \in Queue
  BY QueueFacts DEF SortedQueue
<1>2. \E i \in low .. n : Stops(i)
  <2> DEFINE ends == {i \in low .. n : i = n \/ q.elements[i + 1] \notin S}
  <2>1. ends \subseteq Nat /\ n \in ends
    BY <1>1
  <2>2. PICK m \in ends : \A i \in ends : m <= i
    <3> HIDE DEF ends
    <3> QED
      BY <2>1, Lemmas!LeastNumber
  <2>3. m \in low .. n /\ (m = n \/ q.elements[m + 1] \notin S)
    BY <2>2
  <2>4. ASSUME NEW i \in low + 1 .. m
        PROVE  q.elements[i] \in S
    <3>1. i - 1 \in low .. n /\ ~(m <= i - 1) /\ i - 1 # n /\ (i - 1) + 1 = i
      BY <1>1, <2>3
    <3>2. i - 1 \notin ends
      <4> HIDE DEF ends
      <4> QED
        BY <2>2, <3>1
    <3> QED
      BY <3>1, <3>2
  <2> QED
    BY <2>3, <2>4
<1>3. b \in low .. n /\ Stops(b)
  BY <1>2
<1>4. r = [q EXCEPT !.bottom = b]
  BY DEF PopWhileIn
<1> HIDE DEF b
<1>5. r.elements = q.elements /\ r.bottom = b /\ r \in Queue
  BY <1>1, <1>3, <1>4 DEF Queue
<1>6. Top(r) = n /\ r.bottom \in 0 .. n
  BY <1>1, <1>3, <1>5 DEF Top
<1>7. SortedQueue(r)
  BY <1>5, <1>6 DEF SortedQueue
<1> QED
  BY <1>3, <1>5, <1>7 DEF r

(* What a scan does with its queues when it comes to an offset: the elements
   that are behind it go below the bottom. *)
LEMMA PopSmallerIs ==
  ASSUME NEW q \in Queue, SortedQueue(q), NEW x \in Nat, Below(q, x)
  PROVE  LET r == PopSmaller(q, x)
         IN  /\ r \in Queue /\ SortedQueue(r) /\ ElementSet(r) = ElementSet(q)
             /\ Below(r, x) /\ Above(r, x)
<1> DEFINE r == PopSmaller(q, x)
           S == 0 .. x - 1
<1>1. /\ r \in Queue /\ SortedQueue(r) /\ r.elements = q.elements
      /\ r.bottom \in q.bottom .. Top(q)
      /\ r.bottom = Top(q) \/ q.elements[r.bottom + 1] \notin S
      /\ \A i \in q.bottom + 1 .. r.bottom : q.elements[i] \in S
  <2> HIDE DEF S
  <2>1. r = PopWhileIn(q, S)
    BY DEF PopSmaller, S
  <2> HIDE DEF r
  <2> QED
    BY <2>1, PopWhileInIs
<1>2. /\ Top(q) \in Nat /\ Top(r) = Top(q) /\ q.bottom \in Nat
      /\ \A i \in 1 .. Top(q) : q.elements[i] \in Nat
      /\ \A i, j \in 1 .. Top(q) : i <= j => q.elements[i] <= q.elements[j]
  BY <1>1, QueueFacts, ScanAssumption DEF SortedQueue, Top
<1> HIDE DEF r
<1>3. Below(r, x)
  <2> SUFFICES ASSUME NEW i \in 1 .. r.bottom
               PROVE  q.elements[i] < x
    BY <1>1 DEF Below
  <2>1. CASE i <= q.bottom
    <3>1. i \in 1 .. q.bottom
      BY <1>1, <1>2, <2>1
    <3> QED
      BY <3>1 DEF Below
  <2>2. CASE i > q.bottom
    <3>1. i \in q.bottom + 1 .. r.bottom
      BY <1>1, <1>2, <2>2
    <3> QED
      BY <1>1, <3>1
  <2> QED
    BY <1>1, <1>2, <2>1, <2>2
<1>4. Above(r, x)
  <2> SUFFICES ASSUME NEW i \in r.bottom + 1 .. Top(q)
               PROVE  q.elements[i] >= x
    BY <1>1, <1>2 DEF Above
  <2>1. i \in 1 .. Top(q) /\ r.bottom + 1 \in 1 .. Top(q) /\ r.bottom # Top(q)
    BY <1>1, <1>2
  <2>2. q.elements[r.bottom + 1] \in Nat /\ q.elements[r.bottom + 1] \notin S
    BY <1>1, <1>2, <2>1
  <2>3. q.elements[r.bottom + 1] >= x
    BY <2>2
  <2>4. q.elements[r.bottom + 1] <= q.elements[i] /\ q.elements[i] \in Nat
    BY <1>1, <1>2, <2>1
  <2> QED
    BY <2>2, <2>3, <2>4
<1>5. ElementSet(r) = ElementSet(q)
  BY <1>1, <1>2 DEF ElementSet
<1> QED
  BY <1>1, <1>3, <1>4, <1>5 DEF r

(* An offset that is not at the bottom is not in the queue at all, when what is
   behind it is below the bottom. *)
LEMMA NotAtBottom ==
  ASSUME NEW q \in Queue, SortedQueue(q), NEW x \in Nat, Below(q, x), Above(q, x),
         ~StackAtBottom(q, x)
  PROVE  x \notin ElementSet(q) /\ Above(q, x + 1)
<1>1. /\ Top(q) \in Nat /\ q.bottom \in 0 .. Top(q)
      /\ \A i \in 1 .. Top(q) : q.elements[i] \in Nat
      /\ \A i, j \in 1 .. Top(q) : i <= j => q.elements[i] <= q.elements[j]
  BY QueueFacts, ScanAssumption DEF SortedQueue
<1>2. ASSUME NEW i \in q.bottom + 1 .. Top(q)
      PROVE  q.elements[i] >= x + 1
  <2> DEFINE first == q.elements[q.bottom + 1]
  <2>1. q.bottom + 1 \in q.bottom + 1 .. Top(q) /\ q.bottom + 1 \in 1 .. Top(q) /\ i \in 1 .. Top(q)
    BY <1>1
  <2>2. first \in Nat /\ first >= x /\ first # x
    BY <1>1, <2>1 DEF Above, StackAtBottom
  <2>3. first <= q.elements[i] /\ q.elements[i] \in Nat
    BY <1>1, <2>1
  <2> QED
    BY <2>2, <2>3
<1>3. ASSUME NEW i \in 1 .. Top(q)
      PROVE  q.elements[i] # x
  <2>1. CASE i <= q.bottom
    <3>1. i \in 1 .. q.bottom /\ q.elements[i] \in Nat
      BY <1>1, <2>1
    <3>2. q.elements[i] < x
      BY <3>1 DEF Below
    <3> QED
      BY <3>1, <3>2
  <2>2. CASE i > q.bottom
    <3>1. i \in q.bottom + 1 .. Top(q) /\ q.elements[i] \in Nat
      BY <1>1, <2>2
    <3>2. q.elements[i] >= x + 1
      BY <1>2, <3>1
    <3> QED
      BY <3>1, <3>2
  <2> QED
    BY <1>1, <2>1, <2>2
<1> QED
  BY <1>2, <1>3 DEF Above, ElementSet

(* An offset that is at the bottom is in the queue and goes below the bottom. *)
LEMMA PopBottomIs ==
  ASSUME NEW q \in Queue, SortedQueue(q), NEW x \in Nat, Below(q, x),
         StackAtBottom(q, x)
  PROVE  LET r == StackPopBottom(q)
         IN  /\ x \in ElementSet(q)
             /\ r \in Queue /\ SortedQueue(r) /\ ElementSet(r) = ElementSet(q)
             /\ Below(r, x + 1)
<1> DEFINE r == StackPopBottom(q)
<1>1. /\ Top(q) \in Nat /\ q.bottom \in Nat /\ q.bottom < Top(q)
      /\ q.elements[q.bottom + 1] = x
      /\ \A i \in 1 .. Top(q) : q.elements[i] \in Nat
  BY QueueFacts, ScanAssumption DEF StackAtBottom
<1>2. r \in Queue /\ r.elements = q.elements /\ r.bottom = q.bottom + 1 /\ Top(r) = Top(q)
  BY <1>1 DEF StackPopBottom, Queue, Top
<1> HIDE DEF r
<1>3. x \in ElementSet(q)
  <2>1. q.bottom + 1 \in 1 .. Top(q)
    BY <1>1
  <2> QED
    BY <1>1, <2>1 DEF ElementSet
<1>4. r.bottom \in 0 .. Top(r)
  BY <1>1, <1>2
<1>5. SortedQueue(r)
  BY <1>2, <1>4 DEF SortedQueue
<1>6. ASSUME NEW i \in 1 .. r.bottom
      PROVE  r.elements[i] < x + 1
  <2>1. CASE i = q.bottom + 1
    BY <1>1, <1>2, <2>1
  <2>2. CASE i # q.bottom + 1
    <3>1. i \in 1 .. q.bottom /\ q.elements[i] \in Nat
      BY <1>1, <1>2, <2>2
    <3>2. q.elements[i] < x
      BY <3>1 DEF Below
    <3> QED
      BY <1>2, <3>1, <3>2
  <2> QED
    BY <2>1, <2>2
<1> QED
  BY <1>2, <1>3, <1>5, <1>6 DEF Below, ElementSet, r

(* The dump takes all elements for an offset. *)
LEMMA PopEqualIs ==
  ASSUME NEW q \in Queue, SortedQueue(q), NEW x \in Nat, Below(q, x), Above(q, x)
  PROVE  LET r == PopEqual(q, x)
         IN  /\ r \in Queue /\ SortedQueue(r) /\ ElementSet(r) = ElementSet(q)
             /\ Below(r, x + 1) /\ Above(r, x + 1)
<1> DEFINE r == PopEqual(q, x)
           S == {x}
<1>1. /\ r \in Queue /\ SortedQueue(r) /\ r.elements = q.elements
      /\ r.bottom \in q.bottom .. Top(q)
      /\ r.bottom = Top(q) \/ q.elements[r.bottom + 1] \notin S
      /\ \A i \in q.bottom + 1 .. r.bottom : q.elements[i] \in S
  <2> HIDE DEF S
  <2>1. r = PopWhileIn(q, S)
    BY DEF PopEqual, S
  <2> HIDE DEF r
  <2> QED
    BY <2>1, PopWhileInIs
<1>2. /\ Top(q) \in Nat /\ Top(r) = Top(q) /\ q.bottom \in Nat
      /\ \A i \in 1 .. Top(q) : q.elements[i] \in Nat
      /\ \A i, j \in 1 .. Top(q) : i <= j => q.elements[i] <= q.elements[j]
  BY <1>1, QueueFacts, ScanAssumption DEF SortedQueue, Top
<1> HIDE DEF r
<1>3. Below(r, x + 1)
  <2> SUFFICES ASSUME NEW i \in 1 .. r.bottom
               PROVE  q.elements[i] < x + 1
    BY <1>1 DEF Below
  <2>1. CASE i <= q.bottom
    <3>1. i \in 1 .. q.bottom /\ q.elements[i] \in Nat
      BY <1>1, <1>2, <2>1
    <3>2. q.elements[i] < x
      BY <3>1 DEF Below
    <3> QED
      BY <3>1, <3>2
  <2>2. CASE i > q.bottom
    <3>1. i \in q.bottom + 1 .. r.bottom
      BY <1>1, <1>2, <2>2
    <3> QED
      BY <1>1, <3>1
  <2> QED
    BY <1>1, <1>2, <2>1, <2>2
<1>4. Above(r, x)
  <2>1. \A i \in r.bottom + 1 .. Top(q) : i \in q.bottom + 1 .. Top(q)
    BY <1>1, <1>2
  <2> QED
    BY <1>1, <1>2, <2>1 DEF Above
<1>5. Above(r, x + 1)
  <2> SUFFICES ASSUME NEW i \in r.bottom + 1 .. Top(q)
               PROVE  q.elements[i] >= x + 1
    BY <1>1, <1>2 DEF Above
  <2> DEFINE first == q.elements[r.bottom + 1]
  <2>1. /\ i \in 1 .. Top(q) /\ r.bottom + 1 \in 1 .. Top(q) /\ r.bottom # Top(q)
        /\ r.bottom + 1 \in r.bottom + 1 .. Top(r)
    BY <1>1, <1>2
  <2>2. first \in Nat /\ first # x /\ first >= x
    BY <1>1, <1>2, <1>4, <2>1 DEF Above
  <2>3. first <= q.elements[i] /\ q.elements[i] \in Nat
    BY <1>1, <1>2, <2>1
  <2> QED
    BY <2>2, <2>3
<1>6. ElementSet(r) = ElementSet(q)
  BY <1>1, <1>2 DEF ElementSet
<1> QED
  BY <1>1, <1>3, <1>5, <1>6 DEF r

(* A queue that is read from its start again. *)
LEMMA SetBottomIs ==
  ASSUME NEW q \in Queue, SortedQueue(q)
  PROVE  LET r == StackSetBottom(q, 0)
         IN  /\ r \in Queue /\ SortedQueue(r) /\ ElementSet(r) = ElementSet(q)
             /\ \A lo \in Int : Below(r, lo)
             /\ Above(r, 0)
<1> DEFINE r == StackSetBottom(q, 0)
<1>1. Top(q) \in Nat /\ \A i \in 1 .. Top(q) : q.elements[i] \in Nat
  BY QueueFacts, ScanAssumption
<1>2. r \in Queue /\ r.elements = q.elements /\ r.bottom = 0 /\ Top(r) = Top(q)
  BY DEF StackSetBottom, Queue, Top
<1> HIDE DEF r
<1>3. SortedQueue(r)
  BY <1>1, <1>2 DEF SortedQueue
<1> QED
  BY <1>1, <1>2, <1>3 DEF Below, Above, ElementSet, r

-----------------------------------------------------------------------------
Entry == [key : Offsets, deleted : BOOLEAN]

Ascending(list) == \A i, j \in 1 .. Len(list) : i < j => list[i].key < list[j].key

(* zap_scan_control_list keeps the entries that are not deleted, in order. *)
LEMMA NotDeletedIs ==
  ASSUME NEW list \in Seq(Entry), Ascending(list)
  PROVE  LET r == NotDeleted(list)
         IN  /\ r \in Seq(Entry) /\ Ascending(r)
             /\ \A i \in 1 .. Len(r) : \E j \in 1 .. Len(list) :
                  r[i] = list[j] /\ ~list[j].deleted
             /\ \A j \in 1 .. Len(list) :
                  ~list[j].deleted => \E i \in 1 .. Len(r) : r[i] = list[j]
<1> DEFINE N == Len(list)
           D == Seq(Entry)
           Step(n, s) == IF list[n].deleted THEN s ELSE Append(s, list[n])
           step == [p \in (1 .. N) \X D |-> Step(p[1], p[2])]
           Is(f) == f = [n \in 0 .. Len(list) |->
                           IF n = 0 THEN << >>
                           ELSE IF list[n].deleted THEN f[n - 1]
                                ELSE Append(f[n - 1], list[n])]
           h == CHOOSE f : Is(f)
<1>1. N \in Nat /\ \A n \in 1 .. N : list[n] \in Entry
  BY LenProperties, ElementOfSeq
<1>2. \E f \in [0 .. N -> D] : Lemmas!Recursion(f, N, << >>, step)
  <2>1. ASSUME NEW n \in 1 .. N, NEW s \in D
        PROVE  Step(n, s) \in D
    <3>1. list[n] \in Entry
      BY <1>1
    <3> HIDE DEF N
    <3> QED
      BY <3>1, AppendProperties
  <2>2. << >> \in D
    BY EmptySeq
  <2> HIDE DEF N, D, Step
  <2>3. step \in [(1 .. N) \X D -> D]
    BY <2>1
  <2> HIDE DEF step
  <2> QED
    BY <1>1, <2>2, <2>3, Lemmas!PrimitiveRecursion
<1>3. PICK g \in [0 .. N -> D] :
        g[0] = << >> /\ \A n \in 1 .. N : g[n] = step[<<n, g[n - 1]>>]
  <2> HIDE DEF N, D, step
  <2> QED
    BY <1>2 DEF Lemmas!Recursion
<1>4. ASSUME NEW n \in 1 .. N
      PROVE  n - 1 \in 0 .. N /\ g[n - 1] \in D /\ g[n] = Step(n, g[n - 1])
  <2>1. n - 1 \in 0 .. N
    BY <1>1
  <2> HIDE DEF N, D, Step
  <2>2. g[n - 1] \in D
    BY <2>1
  <2>3. step[<<n, g[n - 1]>>] = Step(n, g[n - 1])
    BY <2>2
  <2> QED
    BY <1>3, <2>1, <2>2, <2>3
<1>5. Is(g)
  <2>1. ASSUME NEW n \in 0 .. N
        PROVE  g[n] = IF n = 0 THEN << >> ELSE Step(n, g[n - 1])
    <3>1. n = 0 \/ n \in 1 .. N
      BY <1>1
    <3> HIDE DEF Step, N
    <3> QED
      BY <1>3, <1>4, <3>1
  <2> QED
    BY <2>1
<1>6. Is(h)
  BY <1>5
<1>7. NotDeleted(list) = h[N]
  BY DEF NotDeleted
<1> HIDE DEF h
<1>8. \A n \in 0 .. N : h[n] = g[n]
  <2> DEFINE bad == {n \in 0 .. N : h[n] # g[n]}
  <2>1. bad = {}
    <3> SUFFICES ASSUME bad # {}
                 PROVE  FALSE
      OBVIOUS
    <3>0. bad \subseteq Nat
      BY <1>1
    <3>1. PICK m \in bad : \A i \in bad : m <= i
      <4> HIDE DEF bad
      <4> QED
        BY <3>0, Lemmas!LeastNumber
    <3>2. m \in 0 .. N /\ h[m] # g[m]
      BY <3>1
    <3>3. m # 0
      BY <1>1, <1>3, <1>6, <3>2
    <3>4. m \in 1 .. N /\ m - 1 \in 0 .. N /\ ~(m <= m - 1)
      BY <1>1, <3>2, <3>3
    <3>5. m - 1 \notin bad
      <4> HIDE DEF bad
      <4> QED
        BY <3>1, <3>4
    <3>6. h[m - 1] = g[m - 1]
      BY <3>4, <3>5
    <3>7. h[m] = Step(m, h[m - 1])
      BY <1>6, <3>2, <3>3
    <3>8. g[m] = Step(m, g[m - 1])
      BY <1>4, <3>4
    <3> QED
      BY <3>2, <3>6, <3>7, <3>8
  <2> QED
    BY <2>1
<1> HIDE DEF Is, step
<1> DEFINE Good(r, n) ==
             /\ r \in D /\ Ascending(r)
             /\ \A i \in 1 .. Len(r) : \E j \in 1 .. n :
                  r[i] = list[j] /\ ~list[j].deleted
             /\ \A j \in 1 .. n :
                  ~list[j].deleted => \E i \in 1 .. Len(r) : r[i] = list[j]
<1>9. Good(g[0], 0)
  <2>1. Len(<< >>) = 0 /\ << >> \in D
    BY EmptySeq
  <2> QED
    BY <1>3, <2>1 DEF Ascending
<1>10. ASSUME NEW n \in 1 .. N, Good(g[n - 1], n - 1)
       PROVE  Good(g[n], n)
  <2> DEFINE r == g[n - 1]
  <2>1. /\ r \in Seq(Entry) /\ Ascending(r)
        /\ \A i \in 1 .. Len(r) : \E j \in 1 .. n - 1 :
             r[i] = list[j] /\ ~list[j].deleted
        /\ \A j \in 1 .. n - 1 :
             ~list[j].deleted => \E i \in 1 .. Len(r) : r[i] = list[j]
    BY <1>10
  <2>2. g[n] = Step(n, r)
    BY <1>4
  <2>3. /\ n - 1 \in Nat /\ \A j \in 1 .. n : j = n \/ j \in 1 .. n - 1
        /\ \A j \in 1 .. n - 1 : j \in 1 .. N /\ j \in 1 .. n /\ j < n
        /\ n \in 1 .. n
    BY <1>1
  <2> HIDE DEF r
  <2>4. CASE list[n].deleted
    <3>1. g[n] = r
      BY <2>2, <2>4
    <3> QED
      BY <2>1, <2>3, <2>4, <3>1
  <2>5. CASE ~list[n].deleted
    <3> DEFINE a == Append(r, list[n])
    <3>1. g[n] = a
      BY <2>2, <2>5
    <3>2. list[n] \in Entry
      BY <1>1
    <3>3. /\ a \in Seq(Entry) /\ Len(a) = Len(r) + 1 /\ Len(r) \in Nat
          /\ \A i \in 1 .. Len(r) : a[i] = r[i]
          /\ a[Len(r) + 1] = list[n]
      BY <2>1, <3>2, AppendProperties, LenProperties
    <3> HIDE DEF a
    <3>4. \A i \in 1 .. Len(a) : i \in 1 .. Len(r) \/ i = Len(r) + 1
      BY <3>3
    <3>5. ASSUME NEW i \in 1 .. Len(a), NEW j \in 1 .. Len(a), i < j
          PROVE  a[i].key < a[j].key
      <4>1. i \in 1 .. Len(r)
        BY <3>3, <3>5
      <4>2. CASE j \in 1 .. Len(r)
        BY <2>1, <3>3, <3>5, <4>1, <4>2 DEF Ascending
      <4>3. CASE j = Len(r) + 1
        <5>1. PICK k \in 1 .. n - 1 : r[i] = list[k]
          BY <2>1, <4>1
        <5>2. list[k].key < list[n].key
          BY <2>3, <5>1 DEF Ascending
        <5> QED
          BY <3>3, <4>1, <4>3, <5>1, <5>2
      <4> QED
        BY <3>4, <4>2, <4>3
    <3>6. ASSUME NEW i \in 1 .. Len(a)
          PROVE  \E j \in 1 .. n : a[i] = list[j] /\ ~list[j].deleted
      <4>1. CASE i \in 1 .. Len(r)
        BY <2>1, <2>3, <3>3, <4>1
      <4>2. CASE i = Len(r) + 1
        BY <2>3, <2>5, <3>3, <4>2
      <4> QED
        BY <3>4, <4>1, <4>2
    <3>7. ASSUME NEW j \in 1 .. n, ~list[j].deleted
          PROVE  \E i \in 1 .. Len(a) : a[i] = list[j]
      <4>1. CASE j = n
        <5>1. Len(r) + 1 \in 1 .. Len(a)
          BY <3>3
        <5> QED
          BY <3>3, <4>1, <5>1
      <4>2. CASE j \in 1 .. n - 1
        <5>1. PICK i \in 1 .. Len(r) : r[i] = list[j]
          BY <2>1, <3>7, <4>2
        <5>2. i \in 1 .. Len(a)
          BY <3>3
        <5> QED
          BY <3>3, <5>1, <5>2
      <4> QED
        BY <2>3, <4>1, <4>2
    <3> QED
      BY <3>1, <3>3, <3>5, <3>6, <3>7 DEF Ascending
  <2> QED
    BY <2>4, <2>5
<1>11. Good(g[N], N)
  <2> HIDE DEF Good
  <2> DEFINE bad == {n \in 0 .. N : ~Good(g[n], n)}
  <2>1. bad = {}
    <3> SUFFICES ASSUME bad # {}
                 PROVE  FALSE
      OBVIOUS
    <3>0. bad \subseteq Nat
      BY <1>1
    <3>1. PICK m \in bad : \A i \in bad : m <= i
      <4> HIDE DEF bad
      <4> QED
        BY <3>0, Lemmas!LeastNumber
    <3>2. m \in 0 .. N /\ ~Good(g[m], m)
      BY <3>1
    <3>3. m # 0
      BY <1>9, <3>2
    <3>4. m \in 1 .. N /\ m - 1 \in 0 .. N /\ ~(m <= m - 1)
      BY <1>1, <3>2, <3>3
    <3>5. m - 1 \notin bad
      <4> HIDE DEF bad
      <4> QED
        BY <3>1, <3>4
    <3> QED
      BY <1>10, <3>2, <3>4, <3>5
  <2>2. N \in 0 .. N
    BY <1>1
  <2> QED
    BY <2>1, <2>2
<1>12. NotDeleted(list) = g[N]
  BY <1>1, <1>7, <1>8
<1> QED
  BY <1>11, <1>12

-----------------------------------------------------------------------------
(* The offsets the pass still comes to. *)
Ahead ==
  IF pass = 1 THEN offset .. size - 1
  ELSE IF pass \in 2 .. 4 THEN {scanList[i].key : i \in scanBottom + 1 .. Len(scanList)}
  ELSE IF pass = Dump THEN offset .. LastOffset - 1
  ELSE {}

QueuesOK == skip \in Queue /\ once \in Queue

(* The first scan lists what it has come to, and only the next three delete. *)
ListInv ==
  /\ pass = 1 => /\ offset <= size
                 /\ \A i \in 1 .. Len(scanList) :
                      scanList[i].key < offset /\ ~scanList[i].deleted
  /\ pass >= Dump => \A i \in 1 .. Len(scanList) : ~scanList[i].deleted

(* What is below the bottoms, and what the pass has handled, is behind all it
   still comes to. *)
Behind ==
  \A o \in Ahead : /\ Below(skip, o)
                   /\ pass # Dump => Below(once, o)
                   /\ \A h \in handled : h < o

(* Nothing was passed over: what the pass comes to no more was handled, or is
   marked. *)
PastInv ==
  \A o \in Promise!Candidates :
    o \in Ahead \/ o \in handled \/ o \in Promise!Skipped

IInv == TypeOK /\ QueuesOK /\ ListInv /\ Behind /\ PastInv

-----------------------------------------------------------------------------
LEMMA ListFacts ==
  ASSUME TypeOK
  PROVE  /\ LastOffset \in Nat /\ LastOffset >= 1
         /\ scanList \in Seq(Entry) /\ Len(scanList) \in Nat
         /\ DOMAIN scanList = 1 .. Len(scanList)
         /\ \A i \in 1 .. Len(scanList) :
              scanList[i] \in Entry /\ scanList[i].key \in Offsets
         /\ Ascending(scanList)
<1>1. LastOffset \in Nat /\ LastOffset >= 1
  BY ScanAssumption
<1>2. scanList \in Seq(Entry)
  BY DEF TypeOK, Entry
<1>3. /\ Len(scanList) \in Nat /\ DOMAIN scanList = 1 .. Len(scanList)
      /\ \A i \in 1 .. Len(scanList) : scanList[i] \in Entry
  <2> HIDE DEF Entry
  <2> QED
    BY <1>2, LenProperties, ElementOfSeq
<1>4. \A i \in 1 .. Len(scanList) : scanList[i].key \in Offsets
  BY <1>3 DEF Entry
<1>5. Ascending(scanList)
  BY <1>3 DEF TypeOK, Ascending
<1> QED
  BY <1>1, <1>2, <1>3, <1>4, <1>5

LEMMA BelowMore ==
  ASSUME NEW q \in Queue, SortedQueue(q), NEW x \in Int, NEW y \in Int, x <= y, Below(q, x)
  PROVE  Below(q, y)
<1>1. \A i \in 1 .. q.bottom : i \in 1 .. Top(q) /\ q.elements[i] \in Int
  BY QueueFacts, ScanAssumption DEF SortedQueue
<1> QED
  BY <1>1 DEF Below

(* The offset a scan comes to is the first of those ahead. *)
LEMMA ComingIs ==
  ASSUME IInv, NEW o, Coming(o)
  PROVE  /\ pass \in 1 .. 4 /\ o \in Offsets /\ o \in Int
         /\ o \in Ahead /\ \A p \in Ahead : p \in Int /\ (p = o \/ o < p)
         /\ o \in Promise!Candidates
         /\ Below(skip, o) /\ Below(once, o) /\ \A h \in handled : h < o
<1>1. TypeOK /\ Behind
  BY DEF IInv
<1>2. /\ LastOffset \in Nat /\ size \in LastOffset - 1 .. LastOffset
      /\ offset \in 0 .. LastOffset /\ scanBottom \in 0 .. Len(scanList)
      /\ Len(scanList) \in Nat /\ pass \in Int
  BY <1>1, ListFacts DEF TypeOK, Done
<1>3. CASE pass = 1
  <2>1. o = offset /\ offset < size
    BY <1>3 DEF Coming
  <2>2. o \in Offsets /\ o \in Int /\ Ahead = offset .. size - 1
    BY <1>2, <1>3, <2>1 DEF Ahead, Offsets
  <2>3. o \in Ahead /\ \A p \in Ahead : p \in Int /\ (p = o \/ o < p)
    BY <1>2, <2>1, <2>2
  <2>4. o \in Promise!Candidates
    BY <1>3, <2>2 DEF Promise!Candidates, Promise!Offsets, Offsets, Promise!Dump
  <2> QED
    BY <1>1, <1>3, <2>2, <2>3, <2>4 DEF Behind, Dump
<1>4. CASE pass \in 2 .. 4
  <2>1. /\ scanBottom < Len(scanList) /\ o = scanList[scanBottom + 1].key /\ pass # 1
        /\ pass # Dump
    BY <1>4 DEF Coming, Dump
  <2>2. /\ scanBottom + 1 \in 1 .. Len(scanList)
        /\ scanBottom + 1 \in scanBottom + 1 .. Len(scanList)
    BY <1>2, <2>1
  <2>3. o \in Offsets /\ o \in Int
    BY <1>1, <2>1, <2>2, ListFacts DEF Offsets
  <2>4. Ahead = {scanList[i].key : i \in scanBottom + 1 .. Len(scanList)}
    BY <1>4, <2>1 DEF Ahead
  <2>5. o \in Ahead
    BY <2>1, <2>2, <2>4
  <2>6. ASSUME NEW i \in scanBottom + 1 .. Len(scanList)
        PROVE  scanList[i].key \in Int /\ (scanList[i].key = o \/ o < scanList[i].key)
    <3>1. i \in 1 .. Len(scanList) /\ (i = scanBottom + 1 \/ scanBottom + 1 < i)
      BY <1>2
    <3>2. scanList[i].key \in Int
      BY <1>1, <3>1, ListFacts DEF Offsets
    <3>3. scanBottom + 1 < i => scanList[scanBottom + 1].key < scanList[i].key
      BY <1>1, <2>2, <3>1, ListFacts DEF Ascending
    <3> QED
      BY <2>1, <3>1, <3>2, <3>3
  <2>7. o \in Promise!Candidates
    <3>1. o \in Keys
      BY <1>1, <2>1, <2>2, ListFacts DEF Keys
    <3> QED
      BY <1>4, <2>1, <3>1 DEF Promise!Candidates, Promise!Dump, Dump
  <2>8. pass \in 1 .. 4
    BY <1>4
  <2> QED
    BY <1>1, <2>1, <2>3, <2>4, <2>5, <2>6, <2>7, <2>8 DEF Behind
<1> QED
  BY <1>3, <1>4 DEF Coming

(* What remains ahead when the scan has gone on. *)
LEMMA GoOnIs ==
  ASSUME IInv, NEW o, Coming(o), GoOn,
         \/ /\ pass = 1
            /\ Len(scanList') \in Nat /\ Len(scanList) <= Len(scanList')
         \/ /\ Len(scanList') = Len(scanList) /\ DOMAIN scanList' = DOMAIN scanList
            /\ \A i \in 1 .. Len(scanList) : scanList'[i].key = scanList[i].key
  PROVE  /\ pass' = pass /\ size' = size /\ nextOpLine' = nextOpLine
         /\ offset' \in 0 .. LastOffset /\ scanBottom' \in 0 .. Len(scanList')
         /\ pass = 1 => offset = o /\ offset' = o + 1 /\ offset' <= size
         /\ Ahead' = Ahead \ {o}
         /\ (Promise!Candidates)' = Promise!Candidates
<1>1. TypeOK
  BY DEF IInv
<1>2. /\ LastOffset \in Nat /\ size \in LastOffset - 1 .. LastOffset
      /\ offset \in 0 .. LastOffset /\ scanBottom \in 0 .. Len(scanList)
      /\ Len(scanList) \in Nat /\ pass \in Int
      /\ DOMAIN scanList = 1 .. Len(scanList)
  BY <1>1, ListFacts DEF TypeOK, Done
<1>3. pass' = pass /\ size' = size /\ nextOpLine' = nextOpLine
  BY DEF GoOn
<1>4. CASE pass = 1
  <2>1. o = offset /\ offset < size
    BY <1>4 DEF Coming
  <2>2. offset' = offset + 1 /\ scanBottom' = scanBottom
    BY <1>4 DEF GoOn
  <2>3. /\ Len(scanList') \in Nat /\ Len(scanList) <= Len(scanList')
    BY <1>2
  <2>4. Ahead = offset .. size - 1 /\ Ahead' = offset + 1 .. size - 1
    BY <1>3, <1>4, <2>2 DEF Ahead
  <2>5. offset + 1 .. size - 1 = (offset .. size - 1) \ {offset}
    BY <1>2
  <2>6. (Promise!Candidates)' = Promise!Candidates
    BY <1>3, <1>4 DEF Promise!Candidates, Promise!Offsets, Promise!Dump
  <2>7. offset' \in 0 .. LastOffset /\ scanBottom' \in 0 .. Len(scanList') /\ offset' <= size
    BY <1>2, <2>1, <2>2, <2>3
  <2> QED
    BY <1>3, <2>1, <2>2, <2>4, <2>5, <2>6, <2>7
<1>5. CASE pass \in 2 .. 4
  <2>0. pass # 1
    BY <1>5
  <2>1. scanBottom < Len(scanList) /\ o = scanList[scanBottom + 1].key
    BY <2>0 DEF Coming
  <2>2. offset' = offset /\ scanBottom' = scanBottom + 1
    BY <2>0 DEF GoOn
  <2>3. /\ Len(scanList') = Len(scanList) /\ DOMAIN scanList' = DOMAIN scanList
        /\ \A i \in 1 .. Len(scanList) : scanList'[i].key = scanList[i].key
    BY <2>0
  <2>4. /\ Ahead = {scanList[i].key : i \in scanBottom + 1 .. Len(scanList)}
        /\ Ahead' = {scanList'[i].key : i \in scanBottom' + 1 .. Len(scanList')}
    BY <1>3, <1>5, <2>0 DEF Ahead
  <2>5. \A i \in scanBottom' + 1 .. Len(scanList') :
          /\ i \in scanBottom + 1 .. Len(scanList) /\ i \in 1 .. Len(scanList)
          /\ scanList'[i].key = scanList[i].key
          /\ scanBottom + 1 \in 1 .. Len(scanList) /\ scanBottom + 1 < i
    BY <1>2, <2>1, <2>2, <2>3
  <2>6. ASSUME NEW i \in scanBottom' + 1 .. Len(scanList')
        PROVE  scanList'[i].key \in Ahead \ {o}
    <3>1. scanList[i].key \in Ahead /\ scanList'[i].key = scanList[i].key
      BY <2>4, <2>5
    <3>2. scanList[scanBottom + 1].key < scanList[i].key
      BY <1>1, <2>5, ListFacts DEF Ascending
    <3>3. scanList[i].key \in Offsets /\ o \in Offsets
      BY <1>1, <2>1, <2>5, ListFacts
    <3>4. scanList[i].key # o
      BY <1>2, <2>1, <3>2, <3>3 DEF Offsets
    <3> QED
      BY <3>1, <3>4
  <2>7. ASSUME NEW i \in scanBottom + 1 .. Len(scanList), scanList[i].key # o
        PROVE  scanList[i].key \in Ahead'
    <3>1. i # scanBottom + 1
      BY <2>1, <2>7
    <3>2. i \in scanBottom' + 1 .. Len(scanList') /\ i \in 1 .. Len(scanList)
      BY <1>2, <2>2, <2>3, <3>1
    <3> QED
      BY <2>3, <2>4, <3>2
  <2>8. Ahead' = Ahead \ {o}
    BY <2>4, <2>6, <2>7
  <2>9. Keys' = Keys
    <3>1. /\ Keys = {scanList[i].key : i \in 1 .. Len(scanList)}
          /\ Keys' = {scanList'[i].key : i \in 1 .. Len(scanList)}
      BY <1>2, <2>3 DEF Keys
    <3> QED
      BY <2>3, <3>1
  <2>10. (Promise!Candidates)' = Promise!Candidates
    BY <1>3, <1>5, <2>0, <2>9 DEF Promise!Candidates, Promise!Dump
  <2>11. offset' \in 0 .. LastOffset /\ scanBottom' \in 0 .. Len(scanList')
    BY <1>2, <2>1, <2>2, <2>3
  <2> QED
    BY <1>3, <2>0, <2>8, <2>10, <2>11
<1> QED
  BY <1>4, <1>5 DEF Coming

(* A scan goes on from an offset that it has handled or found marked; the queues
   have lost nothing, and have nothing more that the rest of the scan needs
   below their bottoms. *)
LEMMA ScanStep ==
  ASSUME IInv, NEW o, Coming(o), pass' = pass,
         Ahead' = Ahead \ {o}, (Promise!Candidates)' = Promise!Candidates,
         \A p \in Int : o < p => Below(skip', p) /\ Below(once', p),
         ElementSet(skip) \subseteq ElementSet(skip'),
         ElementSet(once) \subseteq ElementSet(once'),
         handled \subseteq handled', handled' \subseteq handled \cup {o},
         o \in handled' \cup ElementSet(skip') \cup ElementSet(once')
  PROVE  Behind' /\ PastInv'
<1>1. /\ pass \in 1 .. 4 /\ o \in Int
      /\ \A p \in Ahead : p \in Int /\ (p = o \/ o < p)
      /\ pass # Dump
  BY ComingIs DEF Dump
<1>2. Behind'
  <2> SUFFICES ASSUME NEW p \in Ahead'
               PROVE  Below(skip', p) /\ Below(once', p) /\ \A h \in handled' : h < p
    BY DEF Behind
  <2>1. p \in Ahead /\ p # o /\ p \in Int /\ o < p
    BY <1>1
  <2>2. \A h \in handled : h < p
    BY <2>1 DEF IInv, Behind
  <2>3. \A h \in handled' : h < p
    BY <2>1, <2>2
  <2> QED
    BY <2>1, <2>3
<1>3. PastInv'
  <2> SUFFICES ASSUME NEW p \in Promise!Candidates
               PROVE  p \in Ahead' \/ p \in handled' \/ p \in (Promise!Skipped)'
    BY DEF PastInv
  <2>1. p \in Ahead \/ p \in handled \/ p \in Promise!Skipped
    BY DEF IInv, PastInv
  <2>2. /\ Promise!Skipped = ElementSet(skip) \cup ElementSet(once)
        /\ (Promise!Skipped)' = ElementSet(skip') \cup ElementSet(once')
    <3>1. /\ Promise!Skipped = ElementSet(skip) \cup ElementSet(once)
          /\ (Promise!Skipped)' = ElementSet(skip)' \cup ElementSet(once)'
      BY <1>1 DEF Promise!Skipped, Promise!Dump, Dump
    <3> QED
      BY <3>1 DEF ElementSet, Top
  <2> QED
    BY <2>1, <2>2
<1> QED
  BY <1>2, <1>3

(* An offset that is in a queue is skipped. *)
LEMMA SkipThisStep ==
  ASSUME IInv, NEW o, SkipThis(o)
  PROVE  IInv' /\ UNCHANGED Promise!vars
<1>1. /\ TypeOK /\ QueuesOK /\ ListInv /\ Coming(o) /\ GoOn
      /\ scanList' = scanList /\ handled' = handled
  BY DEF IInv, SkipThis
<1>2. /\ pass \in 1 .. 4 /\ o \in Offsets /\ o \in Int /\ o \in Nat
      /\ Below(skip, o) /\ Below(once, o) /\ pass # Dump /\ pass \in Int
  BY <1>1, ComingIs DEF Offsets, Dump
<1>3. /\ pass' = pass /\ size' = size /\ nextOpLine' = nextOpLine
      /\ offset' \in 0 .. LastOffset /\ scanBottom' \in 0 .. Len(scanList')
      /\ pass = 1 => offset = o /\ offset' = o + 1 /\ offset' <= size
      /\ Ahead' = Ahead \ {o}
      /\ (Promise!Candidates)' = Promise!Candidates
  BY <1>1, ListFacts, GoOnIs
<1> DEFINE s == PopSmaller(skip, o)
           n == PopSmaller(once, o)
<1>4. /\ skip \in Queue /\ SortedQueue(skip) /\ once \in Queue /\ SortedQueue(once)
  BY <1>1 DEF TypeOK, QueuesOK
<1>5. /\ s \in Queue /\ SortedQueue(s) /\ ElementSet(s) = ElementSet(skip) /\ Below(s, o)
      /\ n \in Queue /\ SortedQueue(n) /\ ElementSet(n) = ElementSet(once) /\ Below(n, o)
  BY <1>2, <1>4, PopSmallerIs
<1>6. \/ StackAtBottom(s, o) /\ skip' = StackPopBottom(s) /\ once' = once
      \/ skip' = s /\ StackAtBottom(n, o) /\ once' = StackPopBottom(n)
  BY DEF SkipThis
<1> HIDE DEF s, n
<1>7. /\ skip' \in Queue /\ SortedQueue(skip') /\ once' \in Queue /\ SortedQueue(once')
      /\ ElementSet(skip') = ElementSet(skip) /\ ElementSet(once') = ElementSet(once)
      /\ o \in ElementSet(skip') \cup ElementSet(once')
      /\ Below(skip', o + 1) /\ Below(once', o + 1)
  <2>1. CASE StackAtBottom(s, o) /\ skip' = StackPopBottom(s) /\ once' = once
    <3>1. /\ skip' \in Queue /\ SortedQueue(skip') /\ ElementSet(skip') = ElementSet(s)
          /\ o \in ElementSet(s) /\ Below(skip', o + 1)
      BY <1>2, <1>5, <2>1, PopBottomIs
    <3>2. Below(once', o + 1)
      BY <1>2, <1>4, <2>1, BelowMore
    <3> QED
      BY <1>4, <1>5, <2>1, <3>1, <3>2
  <2>2. CASE skip' = s /\ StackAtBottom(n, o) /\ once' = StackPopBottom(n)
    <3>1. /\ once' \in Queue /\ SortedQueue(once') /\ ElementSet(once') = ElementSet(n)
          /\ o \in ElementSet(n) /\ Below(once', o + 1)
      BY <1>2, <1>5, <2>2, PopBottomIs
    <3>2. Below(skip', o + 1)
      BY <1>2, <1>5, <2>2, BelowMore
    <3> QED
      BY <1>4, <1>5, <2>2, <3>1, <3>2
  <2> QED
    BY <1>6, <2>1, <2>2
<1>8. Behind' /\ PastInv'
  <2>1. ASSUME NEW p \in Int, o < p
        PROVE  Below(skip', p) /\ Below(once', p)
    <3>1. o + 1 <= p /\ o + 1 \in Int
      BY <1>2, <2>1
    <3> QED
      BY <1>7, <3>1, BelowMore
  <2> QED
    BY <1>1, <1>3, <1>7, <2>1, ScanStep
<1>9. QueuesOK'
  BY <1>7 DEF QueuesOK
<1>10. ListInv'
  <2>1. pass = 1 => offset \in Int /\ offset <= size /\ o = offset
    BY <1>1, <1>2, <1>3 DEF ListInv
  <2>2. \A i \in 1 .. Len(scanList) : scanList[i].key \in Int
    BY <1>1, ListFacts DEF Offsets
  <2> QED
    BY <1>1, <1>3, <2>1, <2>2 DEF ListInv
<1>11. TypeOK'
  <2>1. SortedQueue(skip)' /\ SortedQueue(once)'
    BY <1>7 DEF SortedQueue, Top
  <2> QED
    BY <1>1, <1>2, <1>3, <2>1 DEF TypeOK, GoOn
<1>12. UNCHANGED Promise!vars
  <2>1. ElementSet(skip)' = ElementSet(skip) /\ ElementSet(once)' = ElementSet(once)
    BY <1>7 DEF ElementSet, Top
  <2>2. Keys' = Keys /\ Deleted' = Deleted
    BY <1>1 DEF Keys, Deleted
  <2> QED
    BY <1>1, <1>3, <2>1, <2>2 DEF Promise!vars
<1> QED
  BY <1>8, <1>9, <1>10, <1>11, <1>12 DEF IInv

(* The handler of an offset is called: the offset is the first one pending. *)
LEMMA HandlerStep ==
  ASSUME IInv, NEW o, NEW S, NEW N, S \subseteq 0 .. LastOffset, N \subseteq 0 .. LastOffset,
         HandlerPushes(o, S, N),
         scanList' \in Seq(Entry), Ascending(scanList'),
         \/ /\ pass = 1 /\ Len(scanList) <= Len(scanList')
            /\ \A i \in 1 .. Len(scanList') :
                 scanList'[i].key < o + 1 /\ ~scanList'[i].deleted
         \/ /\ Len(scanList') = Len(scanList)
            /\ \A i \in 1 .. Len(scanList) : scanList'[i].key = scanList[i].key
            /\ pass # 1,
         Keys' = Keys \/ (pass = 1 /\ Keys' = Keys \cup {o}),
         Deleted \subseteq Deleted', Deleted' \subseteq Keys
  PROVE  IInv' /\ Promise!Handle(o)
<1>1. /\ TypeOK /\ QueuesOK /\ ListInv /\ PastInv /\ Coming(o) /\ GoOn
      /\ handled' = handled \cup {o}
  BY DEF IInv, HandlerPushes
<1>2. /\ pass \in 1 .. 4 /\ o \in Offsets /\ o \in Int /\ o \in Nat
      /\ o \in Promise!Candidates
      /\ \A p \in Ahead : p \in Int /\ (p = o \/ o < p)
      /\ Below(skip, o) /\ Below(once, o) /\ \A h \in handled : h < o
      /\ pass # Dump /\ pass \in Int /\ pass < Dump
  BY <1>1, ComingIs DEF Offsets, Dump
<1>3. /\ Len(scanList') \in Nat /\ DOMAIN scanList' = 1 .. Len(scanList')
  <2> HIDE DEF Entry
  <2> QED
    BY LenProperties
<1>4. /\ pass' = pass /\ size' = size /\ nextOpLine' = nextOpLine
      /\ offset' \in 0 .. LastOffset /\ scanBottom' \in 0 .. Len(scanList')
      /\ pass = 1 => offset = o /\ offset' = o + 1 /\ offset' <= size
      /\ Ahead' = Ahead \ {o}
      /\ (Promise!Candidates)' = Promise!Candidates
  <2>1. \/ /\ pass = 1
           /\ Len(scanList') \in Nat /\ Len(scanList) <= Len(scanList')
        \/ /\ Len(scanList') = Len(scanList) /\ DOMAIN scanList' = DOMAIN scanList
           /\ \A i \in 1 .. Len(scanList) : scanList'[i].key = scanList[i].key
    BY <1>1, <1>3, ListFacts
  <2> QED
    BY <1>1, <2>1, GoOnIs
<1> DEFINE s == PopSmaller(skip, o)
           n == PopSmaller(once, o)
<1>5. /\ skip \in Queue /\ SortedQueue(skip) /\ once \in Queue /\ SortedQueue(once)
  BY <1>1 DEF TypeOK, QueuesOK
<1>6. /\ s \in Queue /\ SortedQueue(s) /\ ElementSet(s) = ElementSet(skip)
      /\ Below(s, o) /\ Above(s, o)
      /\ n \in Queue /\ SortedQueue(n) /\ ElementSet(n) = ElementSet(once)
      /\ Below(n, o) /\ Above(n, o)
  BY <1>2, <1>5, PopSmallerIs
<1>7. /\ ~StackAtBottom(s, o) /\ ~StackAtBottom(n, o)
      /\ skip' = StackPushAll(s, S) /\ once' = StackPushAll(n, N)
  BY DEF HandlerPushes
<1> HIDE DEF s, n
<1>8. o \notin ElementSet(skip) /\ o \notin ElementSet(once)
  BY <1>2, <1>6, <1>7, NotAtBottom
<1>9. /\ skip' \in Queue /\ SortedQueue(skip') /\ once' \in Queue /\ SortedQueue(once')
      /\ ElementSet(skip') = ElementSet(skip) \cup S
      /\ ElementSet(once') = ElementSet(once) \cup N
      /\ \A lo \in Int : Below(s, lo) => Below(skip', lo)
      /\ \A lo \in Int : Below(n, lo) => Below(once', lo)
  BY <1>6, <1>7, PushAllIs
<1>10. Behind' /\ PastInv'
  <2>1. ASSUME NEW p \in Int, o < p
        PROVE  Below(skip', p) /\ Below(once', p)
    <3>1. Below(s, p) /\ Below(n, p)
      BY <1>2, <1>6, <2>1, BelowMore
    <3> QED
      BY <1>9, <3>1
  <2>2. /\ ElementSet(skip) \subseteq ElementSet(skip')
        /\ ElementSet(once) \subseteq ElementSet(once')
        /\ handled \subseteq handled' /\ handled' \subseteq handled \cup {o}
        /\ o \in handled' \cup ElementSet(skip') \cup ElementSet(once')
    BY <1>1, <1>9
  <2> QED
    BY <1>1, <1>4, <2>1, <2>2, ScanStep
<1>11. QueuesOK'
  BY <1>9 DEF QueuesOK
<1>12. ListInv'
  <2>1. CASE pass = 1
    BY <1>2, <1>4, <2>1 DEF ListInv, Dump
  <2>2. CASE pass # 1
    <3>1. pass' # 1 /\ ~(pass' >= Dump)
      BY <1>2, <1>4, <2>2 DEF Dump
    <3> QED
      BY <3>1 DEF ListInv
  <2> QED
    BY <2>1, <2>2
<1>13. TypeOK'
  <2>1. SortedQueue(skip)' /\ SortedQueue(once)'
    BY <1>9 DEF SortedQueue, Top
  <2>2. scanList' \in Seq([key : Offsets, deleted : BOOLEAN])
    BY DEF Entry
  <2>3. \A i, j \in DOMAIN scanList' : i < j => scanList'[i].key < scanList'[j].key
    BY <1>3 DEF Ascending
  <2>4. handled' \subseteq Offsets /\ pass' # Dump
    BY <1>1, <1>2, <1>4 DEF TypeOK
  <2>5. /\ pass' \in 1 .. Done /\ size' \in LastOffset - 1 .. LastOffset
        /\ nextOpLine' \in 0 .. LastOffset
    BY <1>1, <1>4 DEF TypeOK
  <2> QED
    BY <1>4, <2>1, <2>2, <2>3, <2>4, <2>5 DEF TypeOK
<1>14. Promise!Handle(o)
  <2>1. /\ ElementSet(skip)' = ElementSet(skip) \cup S
        /\ ElementSet(once)' = ElementSet(once) \cup N
    BY <1>9 DEF ElementSet, Top
  <2>2. Promise!Skipped = ElementSet(skip) \cup ElementSet(once)
    BY <1>2 DEF Promise!Skipped, Promise!Dump, Dump
  <2>3. o \in Promise!Pending
    BY <1>2, <1>8, <2>2 DEF Promise!Pending
  <2>4. ASSUME NEW p \in Promise!Pending
        PROVE  o <= p
    <3>1. /\ p \in Promise!Candidates /\ p \notin Promise!Skipped
          /\ \A h \in handled : h < p
      BY DEF Promise!Pending
    <3>2. p \notin handled
      <4>1. ASSUME p \in handled
            PROVE  FALSE
        <5>1. p \in Offsets /\ p < p
          BY <1>1, <3>1, <4>1 DEF TypeOK
        <5> QED
          BY <1>1, <5>1, ListFacts DEF Offsets
      <4> QED
        BY <4>1
    <3>3. p \in Ahead
      BY <1>1, <3>1, <3>2 DEF PastInv
    <3> QED
      BY <1>2, <3>3
  <2>5. Keys' \in {Keys, IF pass = 1 THEN Keys \cup {o} ELSE Keys}
    OBVIOUS
  <2> QED
    BY <1>1, <1>4, <2>1, <2>3, <2>4, <2>5 DEF Promise!Handle
<1> QED
  BY <1>10, <1>11, <1>12, <1>13, <1>14 DEF IInv

(* A handler of the first scan that leaves ScanList alone. *)
LEMMA UnlistedStep ==
  ASSUME IInv, NEW o, NEW S, NEW N, S \subseteq 0 .. LastOffset, N \subseteq 0 .. LastOffset,
         pass = 1, HandlerPushes(o, S, N), scanList' = scanList
  PROVE  IInv' /\ Promise!Handle(o)
<1>1. TypeOK /\ ListInv /\ Coming(o)
  BY DEF IInv, HandlerPushes
<1>2. /\ scanList' \in Seq(Entry) /\ Ascending(scanList') /\ Len(scanList) <= Len(scanList')
      /\ \A i \in 1 .. Len(scanList) : scanList[i].key \in Int
  BY <1>1, ListFacts DEF Offsets
<1>3. o = offset /\ o \in Int
  BY <1>1, ComingIs DEF Coming
<1>4. \A i \in 1 .. Len(scanList') : scanList'[i].key < o + 1 /\ ~scanList'[i].deleted
  BY <1>1, <1>2, <1>3 DEF ListInv
<1>5. Keys' = Keys /\ Deleted' = Deleted /\ Deleted \subseteq Keys
  BY DEF Keys, Deleted
<1> QED
  BY <1>2, <1>4, <1>5, HandlerStep

(* One that lists its offset: it comes behind all that are listed. *)
LEMMA ListedStep ==
  ASSUME IInv, NEW o, NEW S, NEW N, S \subseteq 0 .. LastOffset, N \subseteq 0 .. LastOffset,
         pass = 1, HandlerPushes(o, S, N), push_scan_control_list(o)
  PROVE  IInv' /\ Promise!Handle(o)
<1> DEFINE new == [key |-> o, deleted |-> FALSE]
           m == Len(scanList)
<1>1. TypeOK /\ ListInv /\ Coming(o)
  BY DEF IInv, HandlerPushes
<1>2. o = offset /\ o \in Int /\ o \in Offsets
  BY <1>1, ComingIs DEF Coming
<1>3. /\ scanList \in Seq(Entry) /\ m \in Nat /\ DOMAIN scanList = 1 .. m
      /\ Ascending(scanList)
      /\ \A i \in 1 .. m : /\ scanList[i].key \in Int /\ scanList[i].key < o
                           /\ ~scanList[i].deleted
  BY <1>1, <1>2, ListFacts DEF ListInv, Offsets
<1>4. new \in Entry /\ new.key = o /\ ~new.deleted
  BY <1>2 DEF Entry
<1>5. scanList' = Append(scanList, new)
  BY DEF push_scan_control_list
<1> HIDE DEF new
<1>6. /\ scanList' \in Seq(Entry) /\ Len(scanList') = m + 1
      /\ DOMAIN scanList' = 1 .. m + 1
      /\ \A i \in 1 .. m : scanList'[i] = scanList[i]
      /\ scanList'[m + 1] = new
  <2> HIDE DEF Entry
  <2> QED
    BY <1>3, <1>4, <1>5, AppendProperties, LenProperties
<1>7. \A i \in 1 .. m + 1 : i \in 1 .. m \/ i = m + 1
  BY <1>3
<1>8. Ascending(scanList')
  <2> SUFFICES ASSUME NEW i \in 1 .. m + 1, NEW j \in 1 .. m + 1, i < j
               PROVE  scanList'[i].key < scanList'[j].key
    BY <1>6 DEF Ascending
  <2>1. i \in 1 .. m
    BY <1>3
  <2>2. CASE j \in 1 .. m
    BY <1>3, <1>6, <2>1, <2>2 DEF Ascending
  <2>3. CASE j = m + 1
    BY <1>3, <1>4, <1>6, <2>1, <2>3
  <2> QED
    BY <1>7, <2>2, <2>3
<1>9. \A i \in 1 .. Len(scanList') : scanList'[i].key < o + 1 /\ ~scanList'[i].deleted
  <2> SUFFICES ASSUME NEW i \in 1 .. m + 1
               PROVE  scanList'[i].key < o + 1 /\ ~scanList'[i].deleted
    BY <1>6
  <2>1. CASE i \in 1 .. m
    BY <1>2, <1>3, <1>6, <2>1
  <2>2. CASE i = m + 1
    BY <1>2, <1>4, <1>6, <2>2
  <2> QED
    BY <1>7, <2>1, <2>2
<1>10. Keys' = Keys \cup {o}
  <2>1. /\ Keys = {scanList[i].key : i \in 1 .. m}
        /\ Keys' = {scanList'[i].key : i \in 1 .. m + 1}
    BY <1>3, <1>6 DEF Keys
  <2>2. \A i \in 1 .. m : i \in 1 .. m + 1 /\ scanList'[i].key = scanList[i].key
    BY <1>3, <1>6
  <2>3. m + 1 \in 1 .. m + 1 /\ scanList'[m + 1].key = o
    BY <1>3, <1>4, <1>6
  <2> QED
    BY <1>7, <2>1, <2>2, <2>3
<1>11. Deleted = {} /\ Deleted' = {}
  BY <1>3, <1>6, <1>9 DEF Deleted
<1>12. Len(scanList) <= Len(scanList')
  BY <1>3, <1>6
<1> QED
  BY <1>6, <1>8, <1>9, <1>10, <1>11, <1>12, HandlerStep

(* A handler of the later scans: entries are marked deleted, none moves. *)
LEMMA DeletingStep ==
  ASSUME IInv, NEW o, NEW S, NEW N, NEW D,
         S \subseteq 0 .. LastOffset, N \subseteq 0 .. LastOffset,
         pass \in 2 .. 4, HandlerPushes(o, S, N), delete_scan_control_list(D)
  PROVE  IInv' /\ Promise!Handle(o)
<1> DEFINE m == Len(scanList)
           Marked(i) == [scanList[i] EXCEPT !.deleted = @ \/ scanList[i].key \in D]
<1>1. TypeOK
  BY DEF IInv
<1>2. /\ m \in Nat /\ DOMAIN scanList = 1 .. m /\ Ascending(scanList)
      /\ \A i \in 1 .. m : scanList[i] \in Entry
  BY <1>1, ListFacts
<1>3. ASSUME NEW i \in 1 .. m
      PROVE  /\ Marked(i) \in Entry /\ Marked(i).key = scanList[i].key
             /\ scanList[i].deleted => Marked(i).deleted
  <2>1. /\ scanList[i] \in Entry /\ scanList[i].key \in Offsets
        /\ scanList[i].deleted \in BOOLEAN
    BY <1>2 DEF Entry
  <2> DEFINE e == scanList[i]
             b == e.key \in D
  <2>2. Marked(i) = [e EXCEPT !.deleted = e.deleted \/ b]
    OBVIOUS
  <2>3. (e.deleted \/ b) \in BOOLEAN
    OBVIOUS
  <2> HIDE DEF b
  <2> DEFINE d == e.deleted \/ b
  <2>4. d \in BOOLEAN /\ (e.deleted => d)
    BY <2>3
  <2>5. Marked(i) = [e EXCEPT !.deleted = d]
    BY <2>2
  <2> HIDE DEF d
  <2>6. [e EXCEPT !.deleted = d] \in Entry
    BY <2>1, <2>4 DEF Entry
  <2>7. [e EXCEPT !.deleted = d].key = e.key /\ [e EXCEPT !.deleted = d].deleted = d
    BY <2>1 DEF Entry
  <2> HIDE DEF Marked, e
  <2> QED
    BY <2>4, <2>5, <2>6, <2>7 DEF e
<1>4. scanList' = [i \in 1 .. m |-> Marked(i)]
  BY <1>2 DEF delete_scan_control_list
<1> HIDE DEF Marked, m
<1>5. scanList' \in [1 .. m -> Entry] /\ \A i \in 1 .. m : scanList'[i] = Marked(i)
  BY <1>3, <1>4
<1>6. scanList' \in Seq(Entry) /\ Len(scanList') = m /\ DOMAIN scanList' = 1 .. m
  <2> DEFINE E == Entry
  <2>1. scanList' \in [1 .. m -> E]
    BY <1>5
  <2> HIDE DEF E
  <2>2. scanList' \in Seq(E)
    BY <1>2, <2>1, IsASeq
  <2>3. Len(scanList') \in Nat /\ DOMAIN scanList' = 1 .. Len(scanList')
    BY <2>2, LenProperties
  <2>4. DOMAIN scanList' = 1 .. m
    BY <2>1
  <2>5. Len(scanList') = m
    <3>1. ASSUME NEW a \in Nat, NEW b \in Nat, 1 .. a = 1 .. b
          PROVE  a <= b
      <4>1. a = 0 \/ a \in 1 .. a
        OBVIOUS
      <4> QED
        BY <3>1, <4>1
    <3>2. Len(scanList') <= m /\ m <= Len(scanList')
      BY <1>2, <2>3, <2>4, <3>1
    <3> DEFINE l == Len(scanList')
    <3>3. m \in Int /\ l \in Int /\ l <= m /\ m <= l
      BY <1>2, <2>3, <3>2
    <3> HIDE DEF l
    <3>4. l = m
      BY <3>3
    <3> QED
      BY <3>4 DEF l
  <2> QED
    BY <2>2, <2>4, <2>5 DEF E
<1>7. \A i \in 1 .. m : scanList'[i].key = scanList[i].key
  BY <1>3, <1>5
<1>8. Ascending(scanList')
  BY <1>2, <1>6, <1>7 DEF Ascending, m
<1>9. Keys' = Keys
  BY <1>2, <1>6, <1>7 DEF Keys
<1>10. Deleted \subseteq Deleted' /\ Deleted' \subseteq Keys
  <2>1. Deleted \subseteq Deleted'
    BY <1>2, <1>3, <1>5, <1>6, <1>7 DEF Deleted
  <2>2. Deleted' \subseteq Keys'
    BY DEF Deleted, Keys
  <2> QED
    BY <1>9, <2>1, <2>2
<1>11. pass # 1
  OBVIOUS
<1> QED
  BY <1>6, <1>7, <1>8, <1>9, <1>10, <1>11, HandlerStep DEF m

(* A round of a scan. *)
LEMMA ScanRound ==
  ASSUME IInv, NEW o,
         ScanOther(o) \/ ScanListAssign(o) \/ ScanJump(o) \/ scan_if_logic(o) \/ RescanJump(o)
  PROVE  IInv' /\ Promise!Handle(o)
<1>1. /\ LastOffset \in Nat /\ \A p \in Offsets : p \in 0 .. LastOffset /\ p \in Nat
      /\ \A p \in Nat : /\ p .. LastOffset - 1 \subseteq 0 .. LastOffset
                        /\ p + 1 .. LastOffset - 1 \subseteq 0 .. LastOffset
  BY ScanAssumption DEF Offsets
<1>2. ASSUME NEW S, NEW N, HandlerPushes(o, S, N)
      PROVE  o \in Offsets /\ o \in Nat /\ o \in 0 .. LastOffset
  BY <1>1, <1>2, ComingIs DEF HandlerPushes
<1>3. \A b, T : T \in AtMost(MaxPushes, b) => T \subseteq b
  BY DEF AtMost
<1>4. CASE ScanOther(o)
  <2>1. PICK S \in {{}, {o}} \cup {{o, f} : f \in o + 1 .. LastOffset - 1} :
          HandlerPushes(o, S, {})
    BY <1>4 DEF ScanOther
  <2>2. o \in Nat /\ o \in 0 .. LastOffset
    BY <1>2, <2>1
  <2>3. \A f \in o + 1 .. LastOffset - 1 : f \in 0 .. LastOffset
    BY <1>1, <2>2
  <2>4. S \subseteq 0 .. LastOffset
    BY <2>1, <2>2, <2>3
  <2>5. {} \subseteq 0 .. LastOffset
    OBVIOUS
  <2>6. pass = 1 /\ scanList' = scanList
    BY <1>4 DEF ScanOther
  <2> QED
    BY <2>1, <2>4, <2>5, <2>6, UnlistedStep
<1>5. CASE ScanListAssign(o)
  <2>1. PICK N \in AtMost(MaxPushes, o + 1 .. LastOffset - 1) \ {{}} :
          HandlerPushes(o, {}, N \cup {o})
    BY <1>5 DEF ScanListAssign
  <2>2. o \in Nat /\ o \in 0 .. LastOffset
    BY <1>2, <2>1
  <2>3. N \subseteq o + 1 .. LastOffset - 1
    BY <1>3, <2>1
  <2>4. N \cup {o} \subseteq 0 .. LastOffset
    BY <1>1, <2>2, <2>3
  <2>5. {} \subseteq 0 .. LastOffset
    OBVIOUS
  <2>6. pass = 1 /\ scanList' = scanList
    BY <1>5 DEF ScanListAssign
  <2> QED
    BY <2>1, <2>4, <2>5, <2>6, UnlistedStep
<1>6. CASE ScanJump(o)
  <2>1. pass = 1 /\ HandlerPushes(o, {}, {}) /\ push_scan_control_list(o)
    BY <1>6 DEF ScanJump
  <2>2. {} \subseteq 0 .. LastOffset
    OBVIOUS
  <2> QED
    BY <2>1, <2>2, ListedStep
<1>7. CASE scan_if_logic(o)
  <2>1. PICK J \in AtMost(MaxPushes, o .. LastOffset - 1) :
          \/ HandlerPushes(o, {}, J \ {Max(J)})
          \/ \E j \in o + 1 .. LastOffset - 1 : HandlerPushes(o, {}, J \cup {j})
    BY <1>7 DEF scan_if_logic
  <2>2. PICK N : /\ HandlerPushes(o, {}, N)
                 /\ N \subseteq J \/ \E j \in o + 1 .. LastOffset - 1 : N = J \cup {j}
    BY <2>1
  <2>3. o \in Nat
    BY <1>2, <2>2
  <2>4. N \subseteq 0 .. LastOffset
    BY <1>1, <1>3, <2>1, <2>2, <2>3
  <2>5. pass = 1 /\ push_scan_control_list(o)
    BY <1>7 DEF scan_if_logic
  <2>6. {} \subseteq 0 .. LastOffset
    OBVIOUS
  <2> QED
    BY <2>2, <2>4, <2>5, <2>6, ListedStep
<1>8. CASE RescanJump(o)
  <2>1. PICK S \in AtMost(MaxPushes, 0 .. LastOffset) :
          /\ \E N \in AtMost(MaxPushes, o + 1 .. LastOffset - 1) : HandlerPushes(o, S, N)
          /\ \E D : delete_scan_control_list(D)
    BY <1>8 DEF RescanJump
  <2>2. PICK N \in AtMost(MaxPushes, o + 1 .. LastOffset - 1) : HandlerPushes(o, S, N)
    BY <2>1
  <2>3. PICK D : delete_scan_control_list(D)
    BY <2>1
  <2>4. o \in Nat
    BY <1>2, <2>2
  <2>5. S \subseteq 0 .. LastOffset
    BY <1>3, <2>1
  <2>6. N \subseteq 0 .. LastOffset
    BY <1>1, <1>3, <2>2, <2>4
  <2>7. pass \in 2 .. 4
    BY <1>8 DEF RescanJump
  <2> QED
    BY <2>2, <2>3, <2>5, <2>6, <2>7, DeletingStep
<1> QED
  BY <1>4, <1>5, <1>6, <1>7, <1>8

-----------------------------------------------------------------------------
(* When nothing is ahead, nothing is pending. *)
LEMMA NothingPending ==
  ASSUME IInv, Ahead = {}
  PROVE  Promise!Pending = {}
<1> SUFFICES ASSUME NEW p \in Promise!Pending
             PROVE  FALSE
  OBVIOUS
<1>1. /\ p \in Promise!Candidates /\ p \notin Promise!Skipped
      /\ \A h \in handled : h < p
  BY DEF Promise!Pending
<1>2. p \in handled
  BY <1>1 DEF IInv, PastInv
<1>3. p \in Offsets /\ p < p
  BY <1>1, <1>2 DEF IInv, TypeOK
<1> QED
  BY <1>3, ScanAssumption DEF Offsets

(* Between two passes the lists are read from their start, and ScanList has lost
   what was deleted. *)
LEMMA NextScanStep ==
  ASSUME IInv, NextScan
  PROVE  IInv' /\ Promise!NextPass
<1>1. TypeOK /\ QueuesOK /\ ListInv
  BY DEF IInv
<1>2. /\ pass \in 1 .. 4 /\ pass \in Int /\ pass < Done /\ pass' = pass + 1 /\ handled' = {}
      /\ offset' = 0 /\ scanBottom' = 0 /\ size' = size /\ nextOpLine' = nextOpLine
      /\ skip' = StackSetBottom(skip, 0) /\ once' = StackSetBottom(once, 0)
      /\ scanList' = NotDeleted(scanList)
  BY DEF NextScan, zap_scan_control_list, Done
<1>3. /\ LastOffset \in Nat /\ size \in LastOffset - 1 .. LastOffset
      /\ offset \in 0 .. LastOffset /\ scanBottom \in 0 .. Len(scanList)
      /\ scanList \in Seq(Entry) /\ Ascending(scanList)
      /\ Len(scanList) \in Nat /\ DOMAIN scanList = 1 .. Len(scanList)
  BY <1>1, ListFacts DEF TypeOK
<1>4. /\ skip' \in Queue /\ SortedQueue(skip') /\ ElementSet(skip') = ElementSet(skip)
      /\ once' \in Queue /\ SortedQueue(once') /\ ElementSet(once') = ElementSet(once)
      /\ \A lo \in Int : Below(skip', lo) /\ Below(once', lo)
      /\ Above(skip', 0)
  BY <1>1, <1>2, SetBottomIs DEF TypeOK, QueuesOK
<1>5. /\ scanList' \in Seq(Entry) /\ Ascending(scanList')
      /\ \A i \in 1 .. Len(scanList') : \E j \in 1 .. Len(scanList) :
           scanList'[i] = scanList[j] /\ ~scanList[j].deleted
      /\ \A j \in 1 .. Len(scanList) :
           ~scanList[j].deleted => \E i \in 1 .. Len(scanList') : scanList'[i] = scanList[j]
  <2>1. scanList \in Seq(Entry)
    BY <1>3
  <2>2. Ascending(scanList)
    BY <1>3
  <2>3. scanList' = NotDeleted(scanList)
    BY <1>2
  <2> DEFINE r == NotDeleted(scanList)
  <2>4. /\ r \in Seq(Entry) /\ Ascending(r)
        /\ \A i \in 1 .. Len(r) : \E j \in 1 .. Len(scanList) :
             r[i] = scanList[j] /\ ~scanList[j].deleted
        /\ \A j \in 1 .. Len(scanList) :
             ~scanList[j].deleted => \E i \in 1 .. Len(r) : r[i] = scanList[j]
    BY <2>1, <2>2, NotDeletedIs, Zenon
  <2> HIDE DEF r
  <2>5. scanList' = r
    BY <2>3 DEF r
  <2> QED
    BY <2>4, <2>5
<1>6. /\ Len(scanList') \in Nat /\ DOMAIN scanList' = 1 .. Len(scanList')
      /\ \A i \in 1 .. Len(scanList') : scanList'[i].key \in Offsets /\ ~scanList'[i].deleted
  <2>1. Len(scanList') \in Nat /\ DOMAIN scanList' = 1 .. Len(scanList')
        /\ \A i \in 1 .. Len(scanList') : scanList'[i] \in Entry
    <3> HIDE DEF Entry
    <3> QED
      BY <1>5, LenProperties, ElementOfSeq
  <2>2. \A i \in 1 .. Len(scanList') : ~scanList'[i].deleted
    BY <1>5
  <2> QED
    BY <2>1, <2>2 DEF Entry
<1>7. Keys' = Keys \ Deleted /\ Deleted' = {}
  <2>1. Deleted' = {}
    BY <1>6 DEF Deleted
  <2>2. /\ Keys = {scanList[i].key : i \in 1 .. Len(scanList)}
        /\ Keys' = {scanList'[i].key : i \in 1 .. Len(scanList')}
        /\ Deleted = {scanList[i].key : i \in {j \in 1 .. Len(scanList) : scanList[j].deleted}}
    BY <1>3, <1>6 DEF Keys, Deleted
  <2>3. ASSUME NEW i \in 1 .. Len(scanList), NEW j \in 1 .. Len(scanList),
               scanList[i].key = scanList[j].key
        PROVE  i = j
    <3>1. scanList[i].key \in Int /\ scanList[j].key \in Int
      BY <1>1, ListFacts DEF Offsets
    <3>2. ~(i < j) /\ ~(j < i)
      BY <1>3, <2>3, <3>1 DEF Ascending
    <3> QED
      BY <3>2
  <2>4. ASSUME NEW i \in 1 .. Len(scanList')
        PROVE  scanList'[i].key \in Keys \ Deleted
    <3>1. PICK j \in 1 .. Len(scanList) : scanList'[i] = scanList[j] /\ ~scanList[j].deleted
      BY <1>5
    <3>2. scanList[j].key \notin Deleted
      BY <2>2, <2>3, <3>1
    <3> QED
      BY <2>2, <3>1, <3>2
  <2>5. ASSUME NEW j \in 1 .. Len(scanList), scanList[j].key \notin Deleted
        PROVE  scanList[j].key \in Keys'
    <3>1. ~scanList[j].deleted
      BY <2>2, <2>5
    <3>2. PICK i \in 1 .. Len(scanList') : scanList'[i] = scanList[j]
      BY <1>5, <3>1
    <3> QED
      BY <2>2, <3>2
  <2> QED
    BY <2>1, <2>2, <2>4, <2>5
<1>8. Ahead = {}
  <2>1. CASE pass = 1
    <3>1. offset = size /\ Ahead = offset .. size - 1
      BY <2>1 DEF NextScan, Ahead
    <3> QED
      BY <1>3, <3>1
  <2>2. CASE pass # 1
    <3>1. scanBottom = Len(scanList) /\ pass \in 2 .. 4
      BY <1>2, <2>2 DEF NextScan
    <3>2. Ahead = {scanList[i].key : i \in scanBottom + 1 .. Len(scanList)}
      BY <2>2, <3>1 DEF Ahead
    <3>3. scanBottom + 1 .. Len(scanList) = {}
      BY <1>3, <3>1
    <3> QED
      BY <3>2, <3>3
  <2> QED
    BY <2>1, <2>2
<1>9. pass' \in 2 .. 5 /\ pass' # 1 /\ (pass' \in 2 .. 4 \/ pass' = Dump) /\ pass' \in Int
  BY <1>2 DEF Dump
<1>10. /\ pass' \in 2 .. 4 => Ahead' = Keys'
       /\ pass' = Dump => Ahead' = Offsets
  <2>1. /\ Keys' = {scanList'[i].key : i \in 1 .. Len(scanList')}
        /\ scanBottom' + 1 = 1 /\ offset' = 0
    BY <1>2, <1>6 DEF Keys
  <2>2. pass' \in 2 .. 4 => Ahead' = Keys'
    BY <1>9, <2>1 DEF Ahead
  <2>3. pass' = Dump => Ahead' = Offsets
    BY <2>1 DEF Ahead, Dump, Offsets
  <2> QED
    BY <2>2, <2>3
<1>11. /\ pass' \in 2 .. 4 => (Promise!Candidates)' = Keys'
       /\ pass' = Dump => (Promise!Candidates)' \subseteq Offsets
  BY <1>9 DEF Promise!Candidates, Promise!Dump, Promise!Offsets, Dump, Offsets
<1>12. PastInv'
  BY <1>9, <1>10, <1>11 DEF PastInv
<1>13. Behind'
  <2>1. \A p \in Ahead' : p \in Int
    <3>1. \A p \in Offsets : p \in Int
      BY <1>3 DEF Offsets
    <3>2. Keys' \subseteq Offsets
      BY <1>6 DEF Keys
    <3> QED
      BY <1>9, <1>10, <3>1, <3>2
  <2> QED
    BY <1>2, <1>4, <2>1 DEF Behind
<1>14. QueuesOK'
  BY <1>4 DEF QueuesOK
<1>15. ListInv'
  BY <1>6, <1>9 DEF ListInv
<1>16. TypeOK'
  <2>1. SortedQueue(skip)' /\ SortedQueue(once)'
    BY <1>4 DEF SortedQueue, Top
  <2>2. scanList' \in Seq([key : Offsets, deleted : BOOLEAN])
    BY <1>5 DEF Entry
  <2>3. \A i, j \in DOMAIN scanList' : i < j => scanList'[i].key < scanList'[j].key
    BY <1>5, <1>6 DEF Ascending
  <2>4. pass' \in 1 .. Done /\ offset' \in 0 .. LastOffset /\ scanBottom' \in 0 .. Len(scanList')
    BY <1>2, <1>3, <1>6, <1>9 DEF Done
  <2>5. size' \in LastOffset - 1 .. LastOffset /\ nextOpLine' \in 0 .. LastOffset
    BY <1>1, <1>2 DEF TypeOK
  <2>6. \A i \in skip'.bottom + 1 .. Top(skip') : skip'.elements[i] >= offset'
    BY <1>2, <1>4 DEF Above
  <2>7. \A i \in skip'.bottom + 1 .. Top(skip)' : skip'.elements[i] >= offset'
    BY <2>6 DEF Top
  <2>8. handled' \subseteq Offsets
    BY <1>2
  <2> QED
    BY <2>1, <2>2, <2>3, <2>4, <2>5, <2>7, <2>8 DEF TypeOK
<1>17. Promise!NextPass
  <2>1. ElementSet(skip)' = ElementSet(skip) /\ ElementSet(once)' = ElementSet(once)
    BY <1>4 DEF ElementSet, Top
  <2>2. Promise!Pending = {}
    BY <1>8, NothingPending
  <2> QED
    BY <1>2, <1>7, <2>1, <2>2 DEF Promise!NextPass, Promise!Done, Done
<1> QED
  BY <1>12, <1>13, <1>14, <1>15, <1>16, <1>17 DEF IInv

LEMMA DumpEndsStep ==
  ASSUME IInv, DumpEnds
  PROVE  IInv' /\ Promise!NextPass
<1>1. TypeOK /\ QueuesOK /\ ListInv
  BY DEF IInv
<1>2. /\ pass = 5 /\ pass' = 6 /\ handled' = {} /\ offset = LastOffset
      /\ offset' = offset /\ size' = size /\ nextOpLine' = nextOpLine
      /\ scanList' = scanList /\ scanBottom' = scanBottom /\ skip' = skip /\ once' = once
  BY DEF DumpEnds, lists, Dump, Done
<1>3. Ahead = {} /\ Ahead' = {}
  <2>1. Ahead = offset .. LastOffset - 1 /\ Ahead' = {}
    BY <1>2 DEF Ahead, Dump
  <2> QED
    BY <1>2, <2>1, ScanAssumption
<1>4. Deleted = {} /\ Deleted' = Deleted /\ Keys' = Keys
  <2>1. \A i \in 1 .. Len(scanList) : ~scanList[i].deleted
    BY <1>1, <1>2 DEF ListInv, Dump
  <2>2. DOMAIN scanList = 1 .. Len(scanList)
    BY <1>1, ListFacts
  <2> QED
    BY <1>2, <2>1, <2>2 DEF Deleted, Keys
<1>5. Promise!NextPass
  <2>1. ElementSet(skip)' = ElementSet(skip) /\ ElementSet(once)' = ElementSet(once)
    BY <1>2 DEF ElementSet, Top
  <2>2. Promise!Pending = {}
    BY <1>3, NothingPending
  <2> QED
    BY <1>2, <1>4, <2>1, <2>2 DEF Promise!NextPass, Promise!Done
<1>6. TypeOK'
  <2>1. SortedQueue(skip)' /\ SortedQueue(once)'
    BY <1>1, <1>2 DEF TypeOK, SortedQueue, Top
  <2> QED
    BY <1>1, <1>2, <2>1 DEF TypeOK, Done, Dump
<1>7. QueuesOK' /\ ListInv'
  BY <1>1, <1>2 DEF QueuesOK, ListInv, Dump
<1>8. Behind'
  BY <1>3 DEF Behind
<1>9. PastInv'
  <2>1. (Promise!Candidates)' = {}
    BY <1>2 DEF Promise!Candidates, Promise!Dump
  <2> QED
    BY <2>1 DEF PastInv
<1> QED
  BY <1>5, <1>6, <1>7, <1>8, <1>9 DEF IInv

(* What all steps of the dump leave as it is. *)
LEMMA DumpFacts ==
  ASSUME IInv, pass = Dump, offset < LastOffset
  PROVE  /\ offset \in Offsets /\ offset \in Nat /\ LastOffset \in Nat
         /\ offset \in 0 .. LastOffset /\ offset + 1 \in 0 .. LastOffset
         /\ Ahead = offset .. LastOffset - 1
         /\ \A p \in Ahead : p \in Int /\ offset <= p
         /\ offset \in Ahead /\ Below(skip, offset) /\ Above(skip, offset)
         /\ \A h \in handled : h < offset
         /\ skip \in Queue /\ SortedQueue(skip)
         /\ Promise!Skipped = ElementSet(skip)
         /\ Promise!Candidates = Offsets \ (0 .. nextOpLine - 1)
         /\ \A p \in Promise!Pending : offset <= p
<1>1. /\ TypeOK /\ QueuesOK /\ Behind /\ PastInv
  BY DEF IInv
<1>2. LastOffset \in Nat /\ offset \in 0 .. LastOffset
  BY <1>1, ScanAssumption DEF TypeOK
<1>3. /\ offset \in Offsets /\ offset \in Nat /\ offset \in Int
      /\ offset + 1 \in 0 .. LastOffset
  BY <1>2 DEF Offsets
<1>4. Ahead = offset .. LastOffset - 1
  BY DEF Ahead, Dump
<1>5. offset \in Ahead /\ \A p \in Ahead : p \in Int /\ offset <= p
  BY <1>2, <1>4
<1>6. Below(skip, offset) /\ \A h \in handled : h < offset
  BY <1>1, <1>5 DEF Behind
<1>7. skip \in Queue /\ SortedQueue(skip) /\ Above(skip, offset)
  BY <1>1 DEF TypeOK, QueuesOK, Above
<1>8. /\ Promise!Skipped = ElementSet(skip)
      /\ Promise!Candidates = Offsets \ (0 .. nextOpLine - 1)
  BY DEF Promise!Skipped, Promise!Candidates, Promise!Offsets, Offsets, Promise!Dump, Dump
<1>9. ASSUME NEW p \in Promise!Pending
      PROVE  offset <= p
  <2>1. /\ p \in Promise!Candidates /\ p \notin Promise!Skipped
        /\ \A h \in handled : h < p
    BY DEF Promise!Pending
  <2>2. p \in Offsets /\ p \in Int
    BY <1>2, <1>8, <2>1 DEF Offsets
  <2>3. p \in Ahead
    BY <1>1, <2>1, <2>2 DEF PastInv
  <2> QED
    BY <1>5, <2>3
<1> QED
  BY <1>2, <1>3, <1>4, <1>5, <1>6, <1>7, <1>8, <1>9

(* The dump goes on from an offset that it has handled, that is marked, or that
   a handler has jumped over. *)
LEMMA DumpStep ==
  ASSUME IInv, pass = Dump, offset < LastOffset,
         offset' = offset + 1, pass' = pass, size' = size, scanList' = scanList,
         scanBottom' = scanBottom, once' = once,
         skip' \in Queue, SortedQueue(skip'), ElementSet(skip) \subseteq ElementSet(skip'),
         Below(skip', offset + 1), Above(skip', offset + 1),
         handled \subseteq handled', handled' \subseteq handled \cup {offset},
         nextOpLine' \in 0 .. LastOffset, nextOpLine <= nextOpLine',
         \/ offset \in handled' \/ offset \in ElementSet(skip') \/ offset < nextOpLine
  PROVE  IInv'
<1>1. /\ TypeOK /\ QueuesOK /\ ListInv /\ PastInv
      /\ LastOffset \in Nat /\ offset \in Offsets /\ offset \in Nat
      /\ offset + 1 \in 0 .. LastOffset
      /\ Ahead = offset .. LastOffset - 1
      /\ \A h \in handled : h < offset
      /\ Promise!Skipped = ElementSet(skip)
      /\ Promise!Candidates = Offsets \ (0 .. nextOpLine - 1)
      /\ nextOpLine \in 0 .. LastOffset /\ handled \subseteq Offsets
  BY DumpFacts DEF IInv, TypeOK
<1>2. TypeOK'
  <2>1. SortedQueue(skip)' /\ SortedQueue(once)'
    BY <1>1 DEF TypeOK, SortedQueue, Top
  <2>2. \A i \in skip'.bottom + 1 .. Top(skip)' : skip'.elements[i] >= offset'
    BY DEF Above, Top
  <2>3. handled' \subseteq Offsets
    BY <1>1
  <2> QED
    BY <1>1, <2>1, <2>2, <2>3 DEF TypeOK
<1>3. QueuesOK' /\ ListInv'
  BY <1>1 DEF QueuesOK, ListInv, Dump
<1>4. Ahead' = offset + 1 .. LastOffset - 1
  BY DEF Ahead, Dump
<1>5. Behind'
  <2> SUFFICES ASSUME NEW p \in Ahead'
               PROVE  Below(skip', p) /\ \A h \in handled' : h < p
    BY DEF Behind
  <2>1. p \in Int /\ offset + 1 <= p /\ offset < p /\ offset + 1 \in Int
    BY <1>1, <1>4
  <2>2. Below(skip', p)
    BY <2>1, BelowMore
  <2>3. ASSUME NEW h \in handled'
        PROVE  h < p
    <3>1. h = offset \/ (h \in handled /\ h \in Int /\ h < offset)
      BY <1>1 DEF Offsets
    <3> QED
      BY <1>1, <2>1, <3>1
  <2> QED
    BY <2>2, <2>3
<1>6. PastInv'
  <2>1. (Promise!Skipped)' = ElementSet(skip)'
    BY DEF Promise!Skipped, Promise!Dump, Dump
  <2>2. ElementSet(skip)' = ElementSet(skip')
    BY DEF ElementSet, Top
  <2>3. (Promise!Candidates)' = Offsets \ (0 .. nextOpLine' - 1)
    BY DEF Promise!Candidates, Promise!Offsets, Offsets, Promise!Dump, Dump
  <2> SUFFICES ASSUME NEW p \in Offsets, p \notin 0 .. nextOpLine' - 1
               PROVE  p \in Ahead' \/ p \in handled' \/ p \in ElementSet(skip')
    BY <2>1, <2>2, <2>3 DEF PastInv
  <2>4. p \in Nat /\ p <= LastOffset - 1 /\ nextOpLine' <= p /\ nextOpLine <= p
        /\ p \notin 0 .. nextOpLine - 1
    <3>1. p \in Nat /\ p <= LastOffset - 1
      BY <1>1 DEF Offsets
    <3>2. LastOffset \in Nat /\ nextOpLine \in Nat /\ nextOpLine' \in Nat
      BY <1>1
    <3>3. nextOpLine' <= p
      <4> DEFINE m == nextOpLine'
      <4>1. m \in Nat /\ p \notin 0 .. m - 1
        BY <3>2
      <4> HIDE DEF m
      <4>2. m <= p
        BY <3>1, <4>1
      <4> QED
        BY <4>2 DEF m
    <3>4. nextOpLine <= p
      BY <3>1, <3>2, <3>3
    <3> QED
      BY <3>1, <3>2, <3>3, <3>4
  <2>5. p \in Ahead \/ p \in handled \/ p \in ElementSet(skip)
    BY <1>1, <2>4 DEF PastInv
  <2>6. CASE p = offset
    <3>1. ~(offset < nextOpLine)
      BY <1>1, <2>4, <2>6
    <3> QED
      BY <2>6, <3>1
  <2>7. CASE p # offset /\ p \in Ahead
    BY <1>1, <1>4, <2>7
  <2> QED
    BY <2>5, <2>6, <2>7
<1> QED
  BY <1>2, <1>3, <1>5, <1>6 DEF IInv

(* An opcode that is not dumped; it may have been marked a moment ago. *)
LEMMA DumpSkipsStep ==
  ASSUME IInv, DumpSkips
  PROVE  IInv' /\ (UNCHANGED Promise!vars \/ Promise!Mark(offset))
<1>1. /\ pass = Dump /\ offset < LastOffset /\ offset' = offset + 1
      /\ pass' = pass /\ size' = size /\ scanList' = scanList /\ scanBottom' = scanBottom
      /\ once' = once /\ nextOpLine' = nextOpLine /\ handled' = handled
  BY DEF DumpSkips
<1>2. PICK s \in MarkTernary :
        \/ StackAtBottom(s, offset) /\ skip' = PopEqual(s, offset)
        \/ ~StackAtBottom(s, offset) /\ offset < nextOpLine /\ skip' = s
  BY DEF DumpSkips
<1>3. /\ offset \in Nat /\ offset \in 0 .. LastOffset /\ offset \in Int /\ offset >= offset
      /\ Below(skip, offset) /\ Above(skip, offset)
      /\ skip \in Queue /\ SortedQueue(skip)
      /\ \A h \in handled : h < offset
      /\ \A p \in Promise!Pending : offset <= p
      /\ nextOpLine \in 0 .. LastOffset /\ nextOpLine <= nextOpLine
  <2>1. offset \in Nat /\ nextOpLine \in 0 .. LastOffset
    BY <1>1, DumpFacts DEF IInv, TypeOK
  <2> QED
    BY <1>1, <2>1, DumpFacts
<1>4. s = skip \/ s = StackPushAsc(skip, offset)
  BY DEF MarkTernary
<1>5. /\ s \in Queue /\ SortedQueue(s) /\ Below(s, offset) /\ Above(s, offset)
      /\ ElementSet(s) = ElementSet(skip) \/ ElementSet(s) = ElementSet(skip) \cup {offset}
  <2>1. CASE s = skip
    BY <1>3, <2>1
  <2>2. CASE s = StackPushAsc(skip, offset)
    BY <1>3, <2>2, PushKeeps
  <2> QED
    BY <1>4, <2>1, <2>2
<1>6. /\ skip' \in Queue /\ SortedQueue(skip') /\ ElementSet(skip') = ElementSet(s)
      /\ Below(skip', offset + 1) /\ Above(skip', offset + 1)
      /\ offset \in ElementSet(skip') \/ offset < nextOpLine
  <2>1. CASE StackAtBottom(s, offset) /\ skip' = PopEqual(s, offset)
    <3>1. offset \in ElementSet(s)
      BY <1>3, <1>5, <2>1, PopBottomIs
    <3> QED
      BY <1>3, <1>5, <2>1, <3>1, PopEqualIs
  <2>2. CASE ~StackAtBottom(s, offset) /\ offset < nextOpLine /\ skip' = s
    <3>1. Above(skip', offset + 1)
      BY <1>3, <1>5, <2>2, NotAtBottom
    <3>2. Below(skip', offset + 1)
      <4>1. offset <= offset + 1 /\ offset + 1 \in Int
        BY <1>3
      <4> QED
        BY <1>3, <1>5, <2>2, <4>1, BelowMore
    <3> QED
      BY <1>5, <2>2, <3>1, <3>2
  <2> QED
    BY <1>2, <2>1, <2>2
<1>7. IInv'
  <2>1. ElementSet(skip) \subseteq ElementSet(skip')
    BY <1>5, <1>6
  <2> QED
    BY <1>1, <1>3, <1>6, <2>1, DumpStep
<1>8. UNCHANGED Promise!vars \/ Promise!Mark(offset)
  <2>1. ElementSet(skip)' = ElementSet(skip') /\ ElementSet(once)' = ElementSet(once)
    BY <1>1 DEF ElementSet, Top
  <2>2. Keys' = Keys /\ Deleted' = Deleted
    BY <1>1 DEF Keys, Deleted
  <2>3. CASE ElementSet(s) = ElementSet(skip)
    BY <1>1, <1>6, <2>1, <2>2, <2>3 DEF Promise!vars
  <2>4. CASE ElementSet(s) = ElementSet(skip) \cup {offset}
    BY <1>1, <1>3, <1>6, <2>1, <2>2, <2>4 DEF Promise!Mark, Promise!Dump, Dump
  <2> QED
    BY <1>5, <2>3, <2>4
<1> QED
  BY <1>7, <1>8

(* A handler of the dump is called. *)
LEMMA DumpHandlerStep ==
  ASSUME IInv, DumpHandler
  PROVE  IInv' /\ Promise!Handle(offset) /\ offset \in Offsets
<1>1. /\ pass = Dump /\ offset < LastOffset /\ offset' = offset + 1
      /\ pass' = pass /\ size' = size /\ scanList' = scanList /\ scanBottom' = scanBottom
      /\ once' = once /\ handled' = handled \cup {offset}
      /\ ~StackAtBottom(skip, offset) /\ offset >= nextOpLine
      /\ nextOpLine' \in {nextOpLine} \cup (offset + 1 .. LastOffset)
  BY DEF DumpHandler
<1>2. PICK S \in AtMost(MaxPushes, offset + 1 .. LastOffset - 1) :
        skip' = StackPushAll(skip, S)
  BY DEF DumpHandler
<1>3. /\ offset \in Nat /\ offset \in Int /\ offset \in Offsets /\ LastOffset \in Nat
      /\ Below(skip, offset) /\ Above(skip, offset)
      /\ skip \in Queue /\ SortedQueue(skip)
      /\ \A h \in handled : h < offset
      /\ \A p \in Promise!Pending : offset <= p
      /\ Promise!Skipped = ElementSet(skip)
      /\ Promise!Candidates = Offsets \ (0 .. nextOpLine - 1)
      /\ nextOpLine \in 0 .. LastOffset
  <2>1. offset \in Nat /\ nextOpLine \in 0 .. LastOffset
    BY <1>1, DumpFacts DEF IInv, TypeOK
  <2> QED
    BY <1>1, <2>1, DumpFacts
<1>4. S \subseteq 0 .. LastOffset /\ \A x \in S : x >= offset + 1
  <2>1. S \subseteq offset + 1 .. LastOffset - 1
    BY <1>2 DEF AtMost
  <2> QED
    BY <1>3, <2>1
<1>5. /\ offset \notin ElementSet(skip) /\ Above(skip, offset + 1)
      /\ Below(skip, offset + 1)
  <2>1. offset <= offset + 1 /\ offset + 1 \in Int
    BY <1>3
  <2> QED
    BY <1>1, <1>3, <2>1, NotAtBottom, BelowMore
<1>6. /\ skip' \in Queue /\ SortedQueue(skip')
      /\ ElementSet(skip') = ElementSet(skip) \cup S
      /\ Below(skip', offset + 1) /\ Above(skip', offset + 1)
  <2>1. offset + 1 \in Int
    BY <1>3
  <2> QED
    BY <1>2, <1>3, <1>4, <1>5, <2>1, PushAllIs
<1>7. nextOpLine' \in 0 .. LastOffset /\ nextOpLine <= nextOpLine'
  BY <1>1, <1>3
<1>8. IInv'
  <2>1. /\ ElementSet(skip) \subseteq ElementSet(skip')
        /\ handled \subseteq handled' /\ handled' \subseteq handled \cup {offset}
        /\ offset \in handled'
    BY <1>1, <1>6
  <2> QED
    BY <1>1, <1>6, <1>7, <2>1, DumpStep
<1>9. Promise!Handle(offset)
  <2>1. ElementSet(skip)' = ElementSet(skip') /\ ElementSet(once)' = ElementSet(once)
    BY <1>1 DEF ElementSet, Top
  <2>2. Keys' = Keys /\ Deleted' = Deleted /\ Deleted \subseteq Keys
    BY <1>1 DEF Keys, Deleted
  <2>3. offset \in Promise!Candidates
    BY <1>1, <1>3
  <2>4. offset \in Promise!Pending
    BY <1>3, <1>5, <2>3 DEF Promise!Pending
  <2>5. nextOpLine' = nextOpLine \/ (pass = Dump /\ nextOpLine' \in offset + 1 .. LastOffset)
    BY <1>1
  <2> QED
    BY <1>1, <1>3, <1>6, <2>1, <2>2, <2>4, <2>5
    DEF Promise!Handle, Promise!Dump, Dump
<1> QED
  BY <1>3, <1>8, <1>9

-----------------------------------------------------------------------------
LEMMA InitStep ==
  ASSUME Init
  PROVE  IInv /\ Promise!Init
<1>1. /\ pass = 1 /\ offset = 0 /\ once = Empty /\ scanList = << >> /\ scanBottom = 0
      /\ nextOpLine = 0 /\ handled = {}
      /\ \/ size = LastOffset /\ skip = Empty
         \/ size = LastOffset - 1 /\ skip = StackPushAsc(Empty, size)
  BY DEF Init
<1>2. LastOffset \in Nat /\ LastOffset >= 1 /\ LastOffset - 1 \in 0 .. LastOffset
  BY ScanAssumption
<1>3. /\ Empty \in Queue /\ Top(Empty) = 0 /\ SortedQueue(Empty)
      /\ ElementSet(Empty) = {} /\ \A lo \in Int : Below(Empty, lo)
  <2>1. /\ << >> \in Seq(0 .. LastOffset) /\ Len(<< >>) = 0
    BY EmptySeq
  <2>2. Empty.elements = << >> /\ Empty.bottom = 0 /\ Empty \in Queue
    BY <2>1 DEF Empty, Queue
  <2>3. Top(Empty) = 0
    BY <2>1, <2>2 DEF Top
  <2> HIDE DEF Empty
  <2> QED
    BY <2>1, <2>2, <2>3 DEF SortedQueue, ElementSet, Below
<1>4. /\ skip \in Queue /\ SortedQueue(skip)
      /\ ElementSet(skip) \subseteq {LastOffset - 1}
      /\ size = LastOffset \/ (size = LastOffset - 1 /\ LastOffset - 1 \in ElementSet(skip))
      /\ \A lo \in Int : Below(skip, lo)
  <2>1. CASE size = LastOffset /\ skip = Empty
    BY <1>3, <2>1
  <2>2. CASE size = LastOffset - 1 /\ skip = StackPushAsc(Empty, size)
    <3>1. /\ skip \in Queue /\ SortedQueue(skip)
          /\ ElementSet(skip) = ElementSet(Empty) \cup {LastOffset - 1}
          /\ \A lo \in Int : Below(Empty, lo) => Below(skip, lo)
      BY <1>2, <1>3, <2>2, PushKeeps
    <3> QED
      BY <1>3, <2>2, <3>1
  <2> QED
    BY <1>1, <2>1, <2>2
<1>5. Len(scanList) = 0 /\ DOMAIN scanList = {} /\ scanList \in Seq(Entry)
  <2> HIDE DEF Entry
  <2> QED
    BY <1>1, EmptySeq
<1>6. TypeOK
  <2>1. scanList \in Seq([key : Offsets, deleted : BOOLEAN])
    BY <1>5 DEF Entry
  <2>2. SortedQueue(once)
    BY <1>1, <1>3
  <2>3. size \in LastOffset - 1 .. LastOffset
    BY <1>2, <1>4
  <2>4. scanBottom \in 0 .. Len(scanList)
    BY <1>1, <1>5
  <2>5. pass \in 1 .. Done /\ pass # Dump
    BY <1>1 DEF Done, Dump
  <2> QED
    BY <1>1, <1>2, <1>4, <1>5, <2>1, <2>2, <2>3, <2>4, <2>5 DEF TypeOK
<1>7. QueuesOK /\ ListInv
  BY <1>1, <1>2, <1>3, <1>4, <1>5 DEF QueuesOK, ListInv, Dump
<1>8. Ahead = 0 .. size - 1
  BY <1>1 DEF Ahead
<1>9. Behind
  <2>1. \A o \in Ahead : o \in Int
    BY <1>8
  <2> QED
    BY <1>1, <1>3, <1>4, <2>1 DEF Behind
<1>10. PastInv
  <2>1. Promise!Candidates = Offsets /\ Promise!Skipped = ElementSet(skip) \cup ElementSet(once)
    BY <1>1 DEF Promise!Candidates, Promise!Offsets, Offsets, Promise!Skipped, Promise!Dump
  <2>2. ASSUME NEW o \in Offsets
        PROVE  o \in Ahead \/ o \in ElementSet(skip)
    <3>1. CASE size = LastOffset
      BY <1>8, <3>1 DEF Offsets
    <3>2. CASE size = LastOffset - 1 /\ LastOffset - 1 \in ElementSet(skip)
      <4>1. o = LastOffset - 1 \/ o \in 0 .. size - 1
        BY <1>2, <3>2 DEF Offsets
      <4> QED
        BY <1>8, <3>2, <4>1
    <3> QED
      BY <1>4, <3>1, <3>2
  <2> QED
    BY <2>1, <2>2 DEF PastInv
<1>11. Promise!Init
  <2>1. Keys = {} /\ Deleted = {}
    BY <1>5 DEF Keys, Deleted
  <2>2. LastOffset - 1 \in Promise!Offsets
    BY <1>2 DEF Promise!Offsets
  <2>3. ElementSet(skip) \in SUBSET Promise!Offsets
    BY <1>4, <2>2
  <2>4. ElementSet(once) = {}
    BY <1>1, <1>3
  <2> QED
    BY <1>1, <2>1, <2>3, <2>4 DEF Promise!Init
<1> QED
  BY <1>6, <1>7, <1>9, <1>10, <1>11 DEF IInv

(* Every step keeps the invariant and is a step of the promise, or none. *)
LEMMA NextStep ==
  ASSUME IInv, [Next]_vars
  PROVE  IInv' /\ [Promise!Next]_Promise!vars
<1>1. \A o : o \in Offsets <=> o \in Promise!Offsets
  BY DEF Offsets, Promise!Offsets
<1>2. ASSUME NEW o \in Offsets, SkipThis(o)
      PROVE  IInv' /\ [Promise!Next]_Promise!vars
  BY <1>2, SkipThisStep
<1>3. ASSUME NEW o \in Offsets,
             \/ ScanOther(o) \/ ScanListAssign(o) \/ ScanJump(o)
             \/ scan_if_logic(o) \/ RescanJump(o)
      PROVE  IInv' /\ [Promise!Next]_Promise!vars
  BY <1>1, <1>3, ScanRound DEF Promise!Next
<1>4. CASE NextScan
  BY <1>4, NextScanStep DEF Promise!Next
<1>5. CASE DumpSkips
  <2>1. offset \in Offsets
    BY <1>5, DumpFacts DEF DumpSkips
  <2> QED
    BY <1>1, <1>5, <2>1, DumpSkipsStep DEF Promise!Next
<1>6. CASE DumpHandler
  BY <1>1, <1>6, DumpHandlerStep DEF Promise!Next
<1>7. CASE DumpEnds
  BY <1>7, DumpEndsStep DEF Promise!Next
<1>8. CASE UNCHANGED vars
  <2>1. IInv'
    BY <1>8 DEF IInv, TypeOK, QueuesOK, ListInv, Behind, PastInv, vars, lists, Ahead,
       Promise!Candidates, Promise!Skipped, Keys, SortedQueue, Top, Below, ElementSet
  <2>2. UNCHANGED Promise!vars
    BY <1>8 DEF Promise!vars, vars, lists, Keys, Deleted, ElementSet, Top
  <2> QED
    BY <2>1, <2>2
<1> QED
  BY <1>2, <1>3, <1>4, <1>5, <1>6, <1>7, <1>8 DEF Next

THEOREM Invariance == Spec => []IInv
<1>1. Init => IInv
  BY InitStep
<1>2. IInv /\ [Next]_vars => IInv'
  BY NextStep
<1> QED
  BY <1>1, <1>2, PTL DEF Spec

(* Types, for op arrays of every length: Skip and SkipOnce are sorted whatever
   the handlers push and wherever the bottoms stand, ScanList stays in order
   through deletions, and nothing in Skip is behind the dump
   (COMMON_STACK_U in scan_control_list and dump_op_array_ex). *)
THEOREM TypeCorrect == Spec => []TypeOK
<1>1. IInv => TypeOK
  BY DEF IInv
<1> QED
  BY <1>1, Invariance, PTL

(* The lists of scan_control_list and dump_op_array_ex do what they are for:
   each pass handles its candidates in ascending order and passes none over
   that no handler has marked. *)
THEOREM Refinement == Spec => ImplementsPasses
<1>1. Init => Promise!Init
  BY InitStep
<1>2. IInv /\ [Next]_vars => [Promise!Next]_Promise!vars
  BY NextStep
<1> QED
  BY <1>1, <1>2, Invariance, PTL DEF Spec, ImplementsPasses, Promise!Spec
=============================================================================
